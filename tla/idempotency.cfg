CONSTANTS
  r1 = r1 r2 = r2 r3 = r3 r4 = r4 k1 = k1 p = p q = q
  NoRequest = NoRequest
  Keys = {k1}
  Processes = {p, q}
  Bodies = {"same", "other"}
  KeyOf <- MCKeyOf
  BodyOf <- MCBodyOf
  ProcessOf <- MCProcessOf
  Requests = {r1, r2, r3, r4}
SPECIFICATION FairSpec
INVARIANTS GuardInv WorksOnce
PROPERTIES KeepsPromise CallEnds
CHECK_DEADLOCK FALSE
