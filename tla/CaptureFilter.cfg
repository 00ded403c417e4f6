\* Three hosts: this machine, the server, and one in the LAN.
SPECIFICATION Spec
CONSTANTS
  Hosts = {local, server, lan}
  local_ip = local
  dst_ip = server
  Ports = {443, 55000}
  dst_port = 443
  Protocols <- TwoProtocols
  Shapes <- MCShapes
  Names <- ShortAndLong
  Fills <- MCFills
  Bases <- MCBases
INVARIANTS TypeOK FilterParity FakeParses FakeVerifies
CHECK_DEADLOCK FALSE
