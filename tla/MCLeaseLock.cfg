SPECIFICATION FairSpec
CONSTANTS
  h1 = h1
  h2 = h2
  None = None
  Host = {h1, h2}
  u1 = u1
  u2 = u2
  u3 = u3
  UID = {u1, u2, u3}
  MaxFault = 4
INVARIANTS TypeOK Exclusive
PROPERTIES ImplementsPromise Released
