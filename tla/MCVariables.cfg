SPECIFICATION Spec
CONSTANTS
  Globals = 2
  Locals = 2
  MaxDepth = 1
  Object = {o1, o2, o3, o4, o5}
  Number = {n1, n2}
  Text = {t1}
  undef = undef
  NULL = NULL
  Careless = {}
INVARIANTS TypeOK OneOwner RefsLive ChainsMatch
PROPERTY AliasSpec
VIEW View
