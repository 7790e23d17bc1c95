CONSTANTS
  Sources = {udp}
  Pages = {p1}
  MaxPackets = 1
SPECIFICATION Spec
INVARIANT IdlePageIsUpToDate
CHECK_DEADLOCK FALSE
