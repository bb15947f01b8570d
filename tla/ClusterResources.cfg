SPECIFICATION Spec
CONSTANTS
  r1 = r1  r2 = r2
  c1 = c1
  n1 = n1  n2 = n2  n3 = n3
  v1 = v1  v2 = v2
  Absent = Absent
  Requests = {r1, r2}
  Clusters = {c1}
  Nodes = {n1, n2, n3}
  NameOf <- MCNameOf
  NodeLists <- MCNodeLists
  Versions = {v1, v2}
SYMMETRY Symmetry
INVARIANTS TypeOK AckedCreateComplete AckedScaleDownComplete
PROPERTIES ClusterAfterNodes VersionOnlyByUpgrade ImplementsStore
