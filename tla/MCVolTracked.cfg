SPECIFICATION Spec
CONSTANTS
  b1 = b1
  b2 = b2
  p1 = p1
  p2 = p2
  p3 = p3
  None = None
  boot = boot
  Volume = {v1, v2}
  Backend = {b1, b2}
  Pool = {p1, p2, p3}
  Home <- HomeOf
  Creator = {c1}
  Deleter = {d1}
  Fault = {"create", "followup", "destroy", "store", "txn", "partial", "ambiguous"}
INVARIANTS TypeOK Tracked
