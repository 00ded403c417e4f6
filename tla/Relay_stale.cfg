\* The server answers every connect, and nothing fails.
SPECIFICATION Spec
CONSTANTS
  Clients = {c1, c2}
  Fds <- ThreeNumbers
  MaxRecv = 2
  Room = 1
  MaxAtOnce = 1
  MaxWrites = 1
  MaxTrouble = 0
INVARIANT ConnectErrorIsReal
CHECK_DEADLOCK FALSE
