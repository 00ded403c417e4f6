CONSTANTS
  c1 = c1
  c2 = c2
  Conns = {c1}
  NoPacket = NoPacket
  SeqMod = 8
  FakeLen = 3
  ISNs <- ZeroISNs
  MaxTrouble = 2
  Prompt = FALSE
SPECIFICATION FairSpec
INVARIANTS
  TypeOK
  FakeBeforeRelay
  RelayUndisturbed
  ServerStreamClean
PROPERTIES
  VerdictOnce
  KeepsGate
  NoFakeReportTrue
  ClientNeverStalls
CHECK_DEADLOCK FALSE
