SPECIFICATION FairSpec
CONSTANTS
  Thread = {t1, t2, t3}
  Name = {n1, n2}
  Obj = {o1, o2, o3}
  NoObj = NoObj
  NoThread = NoThread
INVARIANTS TypeOK MutualExclusion CollectedWhenUnused
PROPERTIES ImplementsNamedRWLock EveryLockGranted
