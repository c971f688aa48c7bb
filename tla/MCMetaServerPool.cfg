CONSTANTS
  o1 = o1
  o2 = o2
  o3 = o3
  k1 = k1
  k2 = k2
  s1 = s1
  s2 = s2
  NoVal = NoVal
  Ops <- MCOps
  KeyIds <- MCKeyIds
  Keys <- MCKeys
  MaxThreadsValues <- MCMaxThreads
  ThreadCount = 2
  MaxAuthCount = 2
  AuthMayFail = FALSE

SPECIFICATION Spec

INVARIANT TypeOK
INVARIANT SlotInPool
INVARIANT CountCertifiesContext

CHECK_DEADLOCK FALSE
