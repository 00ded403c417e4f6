\* Two clients, the second from the moment the first is about to close its sockets.
SPECIFICATION FairSpec
CONSTANTS
  Clients = {c1, c2}
  Fds <- ThreeNumbers
  MaxRecv = 2
  Room = 1
  MaxAtOnce = 1
  MaxWrites = 2
  MaxTrouble = 1
INVARIANTS TypeOK NothingLost WaitersRegistered OwnEvents NoTaskForgotten ConnectErrorExplained
PROPERTIES KeepsPipes Released
CHECK_DEADLOCK FALSE
