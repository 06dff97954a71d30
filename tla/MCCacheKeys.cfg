SPECIFICATION Spec
CONSTANTS
  t1 = t1
  t2 = t2
  t3 = t3
  Thread = {t1, t2, t3}
  Program <- KeysPrograms
  Cached <- TwoBackends
  UUID = {5}
INVARIANT KeysSound
PROPERTY ShutdownFreezes
CHECK_DEADLOCK FALSE
