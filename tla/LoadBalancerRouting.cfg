SPECIFICATION Spec
CONSTANTS
  Standalone = {s1, s2}
  Hybrid = {h1}
  Requests = {r1, r2, r3}
  CacheSize = 2
  MaxTurns = 3
  None = None
INVARIANTS TypeOK LoadNotLeaked StandaloneExact
PROPERTIES SessionSticks
