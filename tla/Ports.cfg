SPECIFICATION Spec
CONSTANTS
  Pins = {0, 1}
  Listeners = 2
  Wires <- MCWires
  Words = {0, 257}
  Channels = {0}
  Values = {0, 1}
  undefined = undefined
  MaxDepth = 2
INVARIANTS TypeOK ListenersCatchUp WiresFollow
