SPECIFICATION Spec
CONSTANTS
  ram = ram
  late = late
  rom = rom
  RAMs = {ram, late}
  ROMs = {rom}
  Unbounded = {}
  SizeOf <- MCSizeOf
  Byte = {0, 1, 2, 255}
  Sources = {0, 4, 12}
  Dests = {0, 2, 4}
  Lengths = {0, 4, 6, 8}
  DataSizes = {0, 2, 4}
  Map <- MCMap
  Image <- MCImage
  Late <- MCLate
  MaxStarts = 2
INVARIANTS TypeOK RegistersTrackCopy CopyMovesWords CopyIsFaithful CompleteMeansCopied
PROPERTIES Terminates
