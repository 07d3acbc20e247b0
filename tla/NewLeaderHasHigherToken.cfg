CONSTANTS
  Nodes = {n1, n2}
  NoOne = NoOne
  TTL = 1
  MaxToken = 2
SPECIFICATION Spec
PROPERTY NewLeaderHasHigherToken
