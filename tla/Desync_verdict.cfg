CONSTANTS
  c1 = c1
  c2 = c2
  Conns = {c1}
  NoPacket = NoPacket
  SeqMod = 8
  FakeLen = 3
  ISNs <- WrapISNs
  MaxTrouble = 2
  Prompt = TRUE
SPECIFICATION Spec
INVARIANTS
  VerdictMeansFakeSent
CHECK_DEADLOCK FALSE
