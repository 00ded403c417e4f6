CONSTANTS
  c1 = c1
  c2 = c2
  Conns = {c1, c2}
  NoPacket = NoPacket
  SeqMod = 8
  FakeLen = 3
  ISNs <- WrapISNs
  MaxTrouble = 0
  Prompt = TRUE
SPECIFICATION FairSpec
PROPERTIES
  BenignRelays
