SPECIFICATION Spec
CONSTANTS
  W = 8
  Half = 128
  LowRegs = {0, 1}
  HighRegs = {8}
  Programs <- MCPrograms
  DataWords <- MCDataWords
  InitialSP = 52
  ResetVectors <- MCResetVectors
  Holes <- MCHoles
  StopAddresses = {0, 14}
  FetchTraps = {12, 26}
  MaxRun = 2
INVARIANTS TypeOK RunReports
PROPERTIES MachineSpec RepeatIsTransparent CallsReturn RunReturns
