CONSTANTS
  Keys = {k1, k2, k3}
  Pages = {p1, p2}
  NoPage = NoPage
  Capacities = {0, 2}
  MoreKeys = {k1, k2, k3, k4}
  MoreCapacities = {0, 1, 3}
  NULL = NULL
  Sentinel = Sentinel
  ListAddrs = {l1, l2, l3}
  EntryAddrs = {e1, e2, e3}
  MapAddrs = {h1, h2, h3}
SYMMETRY Interchangeable
SPECIFICATION AnySpec
INVARIANTS StructuresSound BlocksOwned
PROPERTIES FailuresChangeNothing CachesImplementLru
