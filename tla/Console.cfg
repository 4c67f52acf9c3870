SPECIFICATION ConsoleSpec
CONSTANTS
  guestRAM = guestRAM
  Bytes = {1, 2}
  Sizes = {4}
  MaxLen = 2
  MaxSent = 4
  Empty = Empty
  RAMs = {guestRAM}
  ROMs = {}
  SizeOf <- MCSizeOf
  Byte = {0, 1, 2, 255}
  Unbounded = {}
  Map <- MCMap
  Pointers = {0, 4}
  BadPointers = {4}
INVARIANTS ConsoleTypeOK Echo
PROPERTIES EchoArrives
