SPECIFICATION MapSpec
CONSTANTS
  ramA = ramA
  ramB = ramB
  rom = rom
  RAMs = {ramA, ramB}
  ROMs = {rom}
  Unbounded = {rom}
  SizeOf <- MCSizeOf
  Byte = {0, 255}
  Addresses = {0, 3, 4, 6, 8}
  Starts = {0, 4, 6}
  Ends = {3, 4, 11}
  MaxDevices = 3
INVARIANTS MapTypeOK SharedAddressIsSingle WordMapIsExact Coherent
PROPERTIES RoutingIsStable
