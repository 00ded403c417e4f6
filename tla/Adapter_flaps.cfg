\* A WAN that changes twice, one failing call, one client, one respawn.
SPECIFICATION FairSpec
CONSTANTS
  Addrs = {a1, a2}
  NoAddr = NoAddr
  Threads <- MCThreads
  None = None
  Clients = {k1}
  MaxChanges = 2
  MaxFailures = 1
  MaxRespawns = 1
  Prompt = TRUE
INVARIANTS TypeOK InjectorFollowsAddress
PROPERTY Recovers
CHECK_DEADLOCK FALSE
