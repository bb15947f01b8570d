SPECIFICATION Spec
CONSTANTS
  r1 = r1  r2 = r2
  c1 = c1  c2 = c2
  v1 = v1
  Absent = Absent
  None = None
  Requests = {r1, r2}
  Clusters = {c1, c2}
  Nodes = {}
  NameOf <- MCNameOf
  Versions = {v1}
INVARIANTS TypeOK CountsOwnNodes
PROPERTIES ProcessorsSettle QueriesEnd
