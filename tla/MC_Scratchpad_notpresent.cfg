\* The same protocol when it may set a line NotPresent and reuse its way.
CONSTANTS
  x1 = x1
  x2 = x2
  x3 = x3
  x4 = x4
  NULL = NULL
  Addrs <- MCAddrs
  Sets <- MCSets
  Assoc = 2
  SetOf <- MCSetOf
  Contexts <- MCContexts
  ProtocolPerms <- MCPermsNotPresent
  MaxColl = 9

SPECIFICATION Spec

INVARIANT
  TagIndexExact
