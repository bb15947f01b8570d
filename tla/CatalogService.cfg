SPECIFICATION ServiceSpec
CONSTANTS
  r1 = r1
  a = a  b = b  bad = bad
  alias = alias  system = system  dns = dns  extra = extra
  enabled = enabled  mode = mode  off = off
  x = x  y = y  one = one  two = two
  Nothing = Nothing
  Latest = Latest
  Unparsable = Unparsable
  NoVersion = NoVersion
  Alias = alias
  System = system
  Enabled = enabled
  Off = {off}
  Requests = {r1}
  Versions <- MCVersions
  Releases <- MCReleases
  Patches = {a, b}
  Malformed = {bad}
  Declares <- MCDeclares
  Repo <- MCRepo
  Template <- MCTemplate
  AddonsOf <- MCAddonsOf
  AddonRequests <- MCAddonRequests
INVARIANTS CatalogExact InstallableIsOffered NoDeadEnd AddonsAsRequested
PROPERTIES CreatedFromCatalog RepoMirrored CreateEndsAsOffered
