\* More control packets than the window holds, a fake whose echoes outnumber its count.
SPECIFICATION Spec
CONSTANTS
  Controls = {syn, synack, ack, fin}
  Fakes = {fake1, fake2, fake3}
  DUP_WINDOW = 3
  EchoesPerSend = 2
  InjectedBound = 1
  MaxTaps = 2
  MaxSent = 4
  NoFake = NoFake
SYMMETRY Interchangeable
INVARIANTS TypeOK FakeNeverJudged WindowOK RepeatsFarApart InjectedBounded
PROPERTY HeldBackLately
CHECK_DEADLOCK FALSE
