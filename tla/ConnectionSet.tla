---------------------------- MODULE ConnectionSet ----------------------------
(***************************************************************************)
(* What the connection manager promises: a set of at most MaxConns         *)
(* connections, where Add and Remove take effect at once.  A connection is *)
(* registered at most once, because NewWSConn gives each a fresh id, and   *)
(* removing one that is not registered changes nothing.                    *)
(***************************************************************************)
EXTENDS Integers, FiniteSets

CONSTANTS Conns,    \* every connection the server will ever accept
          MaxConns  \* cm.maxConns

VARIABLES members,  \* the registered connections
          removed   \* those that were registered once

Init == members = {} /\ removed = {}

Full == Cardinality(members) >= MaxConns

Register(c) ==
  /\ c \notin members \union removed
  /\ ~Full
  /\ members' = members \union {c}
  /\ UNCHANGED removed

Deregister(c) ==
  /\ members' = members \ {c}
  /\ removed' = removed \union (members \intersect {c})

Next == \E c \in Conns : Register(c) \/ Deregister(c)

Spec == Init /\ [][Next]_<<members, removed>>
=============================================================================
