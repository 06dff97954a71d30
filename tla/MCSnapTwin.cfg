SPECIFICATION Spec
CONSTANTS
  v1 = v1
  v2 = v2
  s1 = s1
  s2 = s2
  s3 = s3
  c1 = c1
  c2 = c2
  None = None
  MaxLeft = 1
  boot = boot
  Volume = {v1, v2}
  Snapshot = {s1, s2, s3}
  Parent <- ParentOf
  CloneFrom <- CloneOf
  Twin <- TwinOf
  Requested = {s1, s3}
  Client = {c1, c2}
INVARIANT AckedKept
