SPECIFICATION Spec
CONSTANTS
  r1 = r1
  r2 = r2
  x = x
  y = y
  Runs = {r1, r2}
  Contents = {x, y}
  Archives <- MCArchives
  Rpms <- MCRpms
  Sums = "checksums.txt"
  Built <- MCBuilt
  Damaged = Damaged
  Absent = Absent
INVARIANTS
  BundleIsConsistent
  AlwaysResumable
