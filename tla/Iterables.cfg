SPECIFICATION Spec
CONSTANTS
  o1 = o1
  o2 = o2
  o3 = o3
  Null = Null
  Nodes = {n1, n2, n3, n4}
  Objs = {o1, o2, o3}
  Keys = {k1, k2, k3}
  Rank <- MCRank
  ArrayLen = 3
  MaxIdx = 5
INVARIANTS
  NodesSound
  OpsAgree
  IterInPlace
