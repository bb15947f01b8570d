SPECIFICATION StableSpec
CONSTANTS
  r1 = r1  r2 = r2
  v1 = v1  v2 = v2
  a = a  b = b  bad = bad
  Nothing = Nothing
  Requests = {r1, r2}
  Versions = {v1, v2}
  Patches = {a, b}
  Malformed = {}
  Declares <- MCDeclares
  Repo <- MCRepo
INVARIANTS TypeOK FreshCopyIsCurrent DanglingIsTransient AckedUploadKept
PROPERTIES NoLostEntry ImplementsConfig DanglingHeals WedgeIsPermanent EveryRequestEnds
