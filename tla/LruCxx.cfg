CONSTANTS
  Keys = {k1, k2, k3, k4}
  Pages = {p1, p2}
  NoPage = NoPage
  NoKey = NoKey
  Capacities = {0, 2}
  Nodes = {n1, n2, n3}
  NoNode = NoNode
  MaxLost = 1
SPECIFICATION Spec
INVARIANTS TypeOK IndexSafe OrphansBounded MostRecent
PROPERTIES ImplementsLru
