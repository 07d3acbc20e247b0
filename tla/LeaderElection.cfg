\* Two candidates, each with its caller and its renewal thread.
CONSTANTS
  Nodes = {n1, n2}
  NoOne = NoOne
  TTL = 2
  MaxToken = 2
SPECIFICATION FairSpec
INVARIANTS TypeOK LeaseExclusion
PROPERTIES OnlyOwnerEndsLease ImplementsLease RenewerLearns
