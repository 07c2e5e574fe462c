SPECIFICATION Spec
CONSTANTS
  Procs = {p1, p2}
  Loggers = {l1, l2}
  Fields = {f1, f2}
  Maps = {m1, m2, m3, m4}
  Nothing = Nothing
SYMMETRY Symmetry
INVARIANT OneOwner
INVARIANT LoggerKeepsFields
INVARIANT InfoExact
INVARIANT StaleFieldsWereLogged
