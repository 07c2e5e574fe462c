------------------------------ MODULE MCLogger ------------------------------
\* Logger with its symmetry for TLC.
EXTENDS Logger, TLC

Symmetry == Permutations(Procs) \union Permutations(Loggers) \union Permutations(Maps)
              \union Permutations(Fields)
=============================================================================
