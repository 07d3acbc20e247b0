CONSTANTS
  m1 = m1
  m2 = m2
  a1 = a1
  b1 = b1
  a2 = a2
  Managers <- TwoManagers
  Handles <- ThreeHandles
  ManagerOf <- OwnerOf
  NoOne = NoOne
  NoHandle = NoHandle
  TTL = 2
  Extra = 1
SPECIFICATION Spec
INVARIANTS TypeOK LockExclusion
PROPERTIES OnlyOwnerReleases ImplementsLease OnlyAcquireTakes
