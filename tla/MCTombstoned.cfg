CONSTANTS
  c1 = c1
  c2 = c2
  c3 = c3
  p1 = p1
  p2 = p2
  Crash = {c1, c2, c3}
  Intercept = {i1, i2}
  Pid = {p1, p2}
  Peer <- MCPeer
  DumpType = {"Tombstone", "JavaBacktrace"}
  MaxDumps <- MCMaxDumps
  MaxArtifacts <- MCMaxArtifacts
  None = None
SPECIFICATION FairSpec
INVARIANTS
  Interception
PROPERTIES
  NoOvertaking
  QueuedIsServed
