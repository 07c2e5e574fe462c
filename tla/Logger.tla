------------------------------- MODULE Logger -------------------------------
(***************************************************************************)
(* The structured logger: goroutines that log through loggers and derive   *)
(* loggers from them, all taking the maps for the fields from one pool,    *)
(* mapPool.  A map is in the pool, is the fields of a logger, or is in the *)
(* hands of a running call; nothing but the order of the operations keeps  *)
(* these apart.                                                            *)
(*                                                                         *)
(* The content of a map is the set of its fields (values are left out).    *)
(* Levels, outputs and their Configure only decide whether a call returns  *)
(* early and whether an entry reaches the output; both are left open here. *)
(***************************************************************************)
EXTENDS Naturals, FiniteSets

CONSTANTS Procs,   \* goroutines
          Loggers, \* loggers that can be made
          Fields,  \* keys of fields
          Maps,    \* maps that can be made
          Nothing  \* no map, no logger

ASSUME NothingAssumption == Nothing \notin Maps \union Loggers

VARIABLES pool,    \* maps in mapPool
          content, \* fields in each map
          fields,  \* l.fields, the map of each logger
          pc,      \* where each goroutine is in its call
          call,    \* its call: method, logger, fields given as arguments
          held,    \* the map it took from the pool
          given,   \* history: the fields each logger was made with
          logged   \* history: fields of the entries given to writeEntry

vars == <<pool, content, fields, pc, call, held, given, logged>>

Methods == {"info", "plain", "with"}  \* plain: Log, Error, Debug, Warn
Idle == [method |-> "plain", logger |-> Nothing, args |-> {}]

TypeOK ==
  /\ pool \subseteq Maps
  /\ content \in [Maps -> SUBSET Fields]
  /\ fields \in [Loggers -> Maps \union {Nothing}]
  /\ pc \in [Procs -> {"idle", "get", "fill", "use", "put"}]
  /\ call \in [Procs -> [method : Methods, logger : Loggers \union {Nothing}, args : SUBSET Fields]]
  /\ held \in [Procs -> Maps \union {Nothing}]
  /\ given \in [Loggers -> SUBSET Fields]
  /\ logged \subseteq Fields

Init ==
  /\ pool = {}
  /\ content = [m \in Maps |-> {}]
  /\ fields = [l \in Loggers |-> Nothing]
  /\ pc = [p \in Procs |-> "idle"]
  /\ call = [p \in Procs |-> Idle]
  /\ held = [p \in Procs |-> Nothing]
  /\ given = [l \in Loggers |-> {}]
  /\ logged = {}

-----------------------------------------------------------------------------
Made(l) == fields[l] # Nothing

\* A map that make returns: nobody refers to it.  Such maps are kept empty.
Unused(m) ==
  /\ m \notin pool
  /\ \A l \in Loggers : fields[l] # m
  /\ \A p \in Procs : held[p] # m

\* Bound: there is a logger left for the result.
Room ==
  Cardinality({l \in Loggers : Made(l)}) + Cardinality({p \in Procs : call[p].method = "with"})
    < Cardinality(Loggers)

\* NewStructuredLogger and NewDefaultLogger make a map of their own.
NewStructuredLogger(l) ==
  /\ ~Made(l) /\ Room
  /\ \E m \in Maps :
       /\ Unused(m)
       /\ fields' = [fields EXCEPT ![l] = m]
  /\ UNCHANGED <<pool, content, pc, call, held, given, logged>>

\* The last reference to a logger goes away; its map does not go to the pool.
Forget(l) ==
  /\ Made(l) /\ \A p \in Procs : call[p].logger # l
  /\ fields' = [fields EXCEPT ![l] = Nothing]
  /\ content' = [content EXCEPT ![fields[l]] = {}]
  /\ given' = [given EXCEPT ![l] = {}]
  /\ UNCHANGED <<pool, pc, call, held, logged>>

\* A goroutine calls a method of l.  Only Info takes fields as arguments: the
\* others format theirs into the message.
Begin(p, l, method, args) ==
  /\ pc[p] = "idle" /\ Made(l)
  /\ pc' = [pc EXCEPT ![p] = "get"]
  /\ call' = [call EXCEPT ![p] = [method |-> method, logger |-> l, args |-> args]]
  /\ UNCHANGED <<pool, content, fields, held, given, logged>>

Info(p, l) == \E args \in SUBSET Fields : Begin(p, l, "info", args)
Log(p, l) == Begin(p, l, "plain", {})
ErrorDebugWarn(p, l) == Begin(p, l, "plain", {})

WithFields(p, l) == Room /\ \E args \in SUBSET Fields : Begin(p, l, "with", args)

-----------------------------------------------------------------------------
(* mapPool (external): Get returns any map of the pool or a new one, and   *)
(* maps in the pool may be dropped.                                        *)
Get(p) ==
  /\ pc[p] = "get"
  /\ \E m \in Maps :
       /\ m \in pool \/ Unused(m)
       /\ pool' = pool \ {m}
       /\ held' = [held EXCEPT ![p] = m]
  /\ pc' = [pc EXCEPT ![p] = "fill"]
  /\ UNCHANGED <<content, fields, call, given, logged>>

Drop(m) ==
  /\ m \in pool
  /\ pool' = pool \ {m}
  /\ content' = [content EXCEPT ![m] = {}]
  /\ UNCHANGED <<fields, pc, call, held, given, logged>>

-----------------------------------------------------------------------------
\* Mutant: cloneFields does not clear the map either.
KeptAlways(p) == content[held[p]]

\* What is left in the map: cloneFields, used by Info and the With methods, clears
\* it; Log, Error, Debug and Warn do not.
Kept(p) == IF call[p].method = "plain" THEN content[held[p]] ELSE {}

\* Mutant: the map goes back to the pool as soon as it is in the entry.
FillPutsBack(p) ==
  /\ pc[p] = "fill"
  /\ content' = [content EXCEPT ![held[p]] =
                   Kept(p) \union content[fields[call[p].logger]] \union call[p].args]
  /\ pool' = pool \union {held[p]}
  /\ pc' = [pc EXCEPT ![p] = "use"]
  /\ UNCHANGED <<fields, call, held, given, logged>>

\* The fields of the logger are copied into the map, then the arguments.
Fill(p) ==
  /\ pc[p] = "fill"
  /\ content' = [content EXCEPT ![held[p]] =
                   Kept(p) \union content[fields[call[p].logger]] \union call[p].args]
  /\ pc' = [pc EXCEPT ![p] = "use"]
  /\ UNCHANGED <<pool, fields, call, held, given, logged>>

\* writeEntry encodes the entry and its map.
WriteEntry(p) ==
  /\ pc[p] = "use" /\ call[p].method # "with"
  /\ logged' = logged \union content[held[p]]
  /\ pc' = [pc EXCEPT ![p] = "put"]
  /\ UNCHANGED <<pool, content, fields, call, held, given>>

\* The map goes back as it is, and the call returns.
Put(p) ==
  /\ pc[p] = "put"
  /\ pool' = pool \union {held[p]}
  /\ held' = [held EXCEPT ![p] = Nothing]
  /\ call' = [call EXCEPT ![p] = Idle]
  /\ pc' = [pc EXCEPT ![p] = "idle"]
  /\ UNCHANGED <<content, fields, given, logged>>

\* Mutant: the map of the new logger is returned to the pool as well.
DerivePutsBack(p) ==
  /\ pc[p] = "use" /\ call[p].method = "with"
  /\ \E l \in Loggers :
       /\ ~Made(l)
       /\ fields' = [fields EXCEPT ![l] = held[p]]
       /\ given' = [given EXCEPT ![l] = given[call[p].logger] \union call[p].args]
  /\ pool' = pool \union {held[p]}
  /\ held' = [held EXCEPT ![p] = Nothing]
  /\ call' = [call EXCEPT ![p] = Idle]
  /\ pc' = [pc EXCEPT ![p] = "idle"]
  /\ UNCHANGED <<content, logged>>

\* WithField, WithFields, WithError and With: the map becomes the fields of the
\* new logger.
Derive(p) ==
  /\ pc[p] = "use" /\ call[p].method = "with"
  /\ \E l \in Loggers :
       /\ ~Made(l)
       /\ fields' = [fields EXCEPT ![l] = held[p]]
       /\ given' = [given EXCEPT ![l] = given[call[p].logger] \union call[p].args]
  /\ held' = [held EXCEPT ![p] = Nothing]
  /\ call' = [call EXCEPT ![p] = Idle]
  /\ pc' = [pc EXCEPT ![p] = "idle"]
  /\ UNCHANGED <<pool, content, logged>>

Next ==
  \/ \E l \in Loggers : NewStructuredLogger(l) \/ Forget(l)
  \/ \E p \in Procs, l \in Loggers : Info(p, l) \/ Log(p, l) \/ ErrorDebugWarn(p, l) \/ WithFields(p, l)
  \/ \E p \in Procs : Get(p) \/ Fill(p) \/ WriteEntry(p) \/ Put(p) \/ Derive(p)
  \/ \E m \in Maps : Drop(m)

Spec == Init /\ [][Next]_vars

-----------------------------------------------------------------------------
Own(p) == given[call[p].logger] \union call[p].args

\* A map has one owner: the pool, a logger or a call.
OneOwner ==
  /\ \A l, k \in Loggers : Made(l) /\ fields[l] = fields[k] => l = k
  /\ \A p, q \in Procs : held[p] # Nothing /\ held[p] = held[q] => p = q
  /\ \A p \in Procs, l \in Loggers : held[p] # Nothing => held[p] # fields[l]
  /\ \A l \in Loggers : fields[l] \notin pool
  /\ \A p \in Procs : held[p] \notin pool

\* However maps are recycled, a logger keeps exactly the fields it was made with.
LoggerKeepsFields == \A l \in Loggers : Made(l) => content[fields[l]] = given[l]

\* An Info entry has exactly the fields of its logger and of the call, whatever
\* other goroutines log meanwhile.
InfoExact ==
  \A p \in Procs : pc[p] = "use" /\ call[p].method # "plain" => content[held[p]] = Own(p)

\* An entry of Log, Error, Debug or Warn has the fields of its logger and may have
\* others, but only ones that have been in an entry before.
StaleFieldsWereLogged ==
  \A p \in Procs :
    pc[p] = "use" /\ call[p].method = "plain" =>
      Own(p) \subseteq content[held[p]] /\ content[held[p]] \subseteq Own(p) \union logged
-----------------------------------------------------------------------------
(* The inductive invariant.                                                *)
\* A call holds a map from Get to Put or Derive, and its logger exists.
CallsOK ==
  \A p \in Procs :
    /\ held[p] # Nothing <=> pc[p] \in {"fill", "use", "put"}
    /\ IF pc[p] = "idle" THEN call[p] = Idle
       ELSE call[p].logger \in Loggers /\ Made(call[p].logger)
    /\ pc[p] = "put" => call[p].method # "with"

\* What make will return is empty.
FreshEmpty ==
  /\ \A l \in Loggers : ~Made(l) => given[l] = {}
  /\ \A m \in Maps : Unused(m) => content[m] = {}

\* What is left in a recycled map has been logged.
RecycledLogged ==
  /\ \A m \in pool : content[m] \subseteq logged
  /\ \A p \in Procs : pc[p] \in {"fill", "put"} => content[held[p]] \subseteq logged

\* A map has one owner, and a map that can be taken is empty or holds fields that
\* have been logged.
IInv ==
  /\ TypeOK /\ CallsOK /\ OneOwner /\ FreshEmpty /\ RecycledLogged
  /\ LoggerKeepsFields /\ InfoExact /\ StaleFieldsWereLogged
=============================================================================
