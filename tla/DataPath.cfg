SPECIFICATION Spec
CONSTANTS
  W = 3
  Half = 4
  Regs = {0, 1}
  Immediates = {0, 1, 7}
  Amounts = {0, 1, 2}
  MaxDigits = 2
INVARIANTS TypeOK WideIsExact BranchesDecide ShiftsAreExact
