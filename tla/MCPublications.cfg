SPECIFICATION Spec
CONSTANTS
  v1 = v1
  v2 = v2
  n1 = n1
  c1 = c1
  c2 = c2
  None = None
  Volume = {v1, v2}
  Node = {n1}
  Client = {c1, c2}
  Wanted <- TwoVolumes
INVARIANTS TypeOK AccessFollowsAnswers NodeKept RegisteredKept PolicyFollowsNodes NoneLeft NoDeadlock
PROPERTIES CleanOnly
SYMMETRY Alike
