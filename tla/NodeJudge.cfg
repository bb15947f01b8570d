SPECIFICATION Spec
CONSTANTS
  c1 = c1  c2 = c2
  n1 = n1  n2 = n2
  v1 = v1
  Absent = Absent
  Clusters = {c1, c2}
  Nodes = {n1, n2}
  NameOf <- MCNameOf
  AddressOf <- MCAddressOf
  NodeLists <- MCNodeLists
  Versions = {v1}
SYMMETRY Symmetry
PROPERTIES AcceptedAddressesFree AcceptedNamesFree
