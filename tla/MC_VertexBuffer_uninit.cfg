\* enableAtomic holds 1 before the program's first omegaEnableAtomic: loads
\* the program makes while it initialises its arrays are stashed.
CONSTANTS
  c1 = c1
  c2 = c2
  va1 = va1
  va2 = va2
  Cores <- MCCores
  Verts <- MCVerts
  Values <- MCValues
  DestSpd <- MCDestSpd
  MaxActive = 2
  InitEnableAtomic = {0, 1}

SPECIFICATION Spec

INVARIANT
  BufferedLoadsFromPass
