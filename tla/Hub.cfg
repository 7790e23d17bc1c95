CONSTANTS
  Sources = {udp, mqtt}
  Pages = {p1}
  MaxPackets = 3
SPECIFICATION Spec
INVARIANTS
  TypeOK
  ChartNearlyCurrent
  NoSubscriberLeaks
PROPERTIES
  PagesHoldNobodyUp
CHECK_DEADLOCK FALSE
