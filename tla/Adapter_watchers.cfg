\* Two injectors watch the same address.
SPECIFICATION Spec
CONSTANTS
  Addrs = {a1, a2}
  NoAddr = NoAddr
  Threads <- MCThreads
  None = None
  Clients = {k1}
  MaxChanges = 2
  MaxFailures = 1
  MaxRespawns = 1
  Prompt = TRUE
CHECK_DEADLOCK FALSE
INVARIANT OneWatcher
