SPECIFICATION Spec
CONSTANTS
  Conns = {c1, c2, c3}
  Threads = {t1, t2, t3}
  MaxConns = 2
  NoThread = NoThread
INVARIANT ReaderSeesExactCount
INVARIANT StatsOffByAtMostOne
PROPERTY ImplementsConnectionSet
