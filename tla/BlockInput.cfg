SPECIFICATION Spec
CONSTANTS
  Bytes = {1, 2}
  Sizes = {4, 5}
  MaxLen = 2
  MaxSent = 6
  Empty = Empty
INVARIANTS TypeOK Fifo
PROPERTIES ChannelSpec OverrunKeepsNewest FaultIsPermanent Delivery
