SPECIFICATION FairSpec
CONSTANTS
  b1 = b1
  b2 = b2
  p1 = p1
  p2 = p2
  p3 = p3
  None = None
  boot = boot
  Volume = {v1}
  Backend = {b1, b2}
  Pool = {p1, p2}
  Home <- HomeOfTwo
  Creator = {c1}
  Deleter = {d1, d2}
  Fault = {"create", "followup", "destroy", "store", "partial", "offline"}
INVARIANTS AckedKept CacheMatchesStore
PROPERTY EveryRequestEnds
