SPECIFICATION ReliableSpec
CONSTANTS
  r1 = r1  r2 = r2
  a1 = a1
  p = p  q = q
  kubelet = kubelet  containerd = containerd  spaced = spaced
  Nothing = Nothing
  Requests = {r1}
  Archives = {a1}
  Packages = {p, q}
  Names = {kubelet, containerd, spaced}
  Spaced = {spaced}
  Contents <- MCContents
  Components = 2
  ComponentOf <- MCComponentOf
PROPERTIES OnlinePrepares
