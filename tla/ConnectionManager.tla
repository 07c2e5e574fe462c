-------------------------- MODULE ConnectionManager --------------------------
(***************************************************************************)
(* The ConnectionManager of ws.go: a sync.Map of connections and an atomic *)
(* counter, updated together under an RWMutex by Add and Remove.           *)
(* GetActiveConnections reads the counter under the read lock;             *)
(* GetConnectionStats reads it with no lock at all.  The goroutines of all *)
(* connections call in, and a connection may be removed twice (by Close    *)
(* and by cleanupStaleConnections).                                        *)
(***************************************************************************)
EXTENDS Integers, FiniteSets

CONSTANTS Conns,    \* every connection the server will ever accept
          Threads,  \* goroutines that call the manager
          MaxConns, \* cm.maxConns
          NoThread  \* nobody holds the write lock

ASSUME MaxConnsAssumption == MaxConns \in Nat
ASSUME NoThreadAssumption == NoThread \notin Threads

VARIABLES connections, \* keys of cm.connections
          activeConns, \* cm.activeConns
          writer,      \* holder of cm.mu's write lock
          readers,     \* holders of its read lock
          pc,          \* next step of each goroutine
          arg,         \* connection each goroutine passed
          created,     \* connections NewWSConn has made
          accepted     \* connections Add has stored

data == <<connections, activeConns>>
lock == <<writer, readers>>
vars == <<data, lock, pc, arg, created, accepted>>

Labels == {"idle", "check", "store", "increment", "delete", "decrement",
           "unlock", "load", "runlock"}

TypeOK ==
  /\ connections \subseteq Conns
  /\ activeConns \in Int
  /\ writer \in Threads \union {NoThread}
  /\ readers \subseteq Threads
  /\ pc \in [Threads -> Labels]
  /\ arg \in [Threads -> Conns]
  /\ created \subseteq Conns
  /\ accepted \subseteq created

Init ==
  /\ connections = {}
  /\ activeConns = 0
  /\ writer = NoThread
  /\ readers = {}
  /\ pc = [t \in Threads |-> "idle"]
  /\ arg \in {[t \in Threads |-> c] : c \in Conns}
  /\ created = {}
  /\ accepted = {}

At(t, label) == pc[t] = label
Goto(t, label) == pc' = [pc EXCEPT ![t] = label]

\* cm.mu.Lock() on the way into Add or Remove.
Lock(t, c, label) ==
  /\ At(t, "idle")
  /\ writer = NoThread /\ readers = {}
  /\ writer' = t
  /\ arg' = [arg EXCEPT ![t] = c]
  /\ Goto(t, label)
  /\ UNCHANGED <<data, readers, accepted>>

Unlock(t) ==
  /\ At(t, "unlock")
  /\ writer' = NoThread
  /\ Goto(t, "idle")
  /\ UNCHANGED <<data, readers, arg, created, accepted>>

-----------------------------------------------------------------------------
(* Add.  NewWSConn calls it once, for a connection with a fresh id.        *)
AddLock(t, c) ==
  /\ c \notin created
  /\ created' = created \union {c}
  /\ Lock(t, c, "check")

AddCheck(t) ==
  /\ At(t, "check")
  /\ Goto(t, IF activeConns >= MaxConns THEN "unlock" ELSE "store")
  /\ UNCHANGED <<data, lock, arg, created, accepted>>

\* Mutant: the id under which a connection is stored is not unique.
AddStoreShared(t) ==
  /\ At(t, "store")
  /\ connections' = {arg[t]}
  /\ accepted' = accepted \union {arg[t]}
  /\ Goto(t, "increment")
  /\ UNCHANGED <<activeConns, lock, arg, created>>

AddStore(t) ==
  /\ At(t, "store")
  /\ connections' = connections \union {arg[t]}
  /\ accepted' = accepted \union {arg[t]}
  /\ Goto(t, "increment")
  /\ UNCHANGED <<activeConns, lock, arg, created>>

AddIncrement(t) ==
  /\ At(t, "increment")
  /\ activeConns' = activeConns + 1
  /\ Goto(t, "unlock")
  /\ UNCHANGED <<connections, lock, arg, created, accepted>>

-----------------------------------------------------------------------------
(* Remove.  Close and the cleanup call it only for connections Add took.   *)
RemoveLock(t, c) ==
  /\ c \in accepted
  /\ Lock(t, c, "delete")
  /\ UNCHANGED created

\* Mutant: the counter goes down whether or not the connection was there.
RemoveDeleteAlways(t) ==
  /\ At(t, "delete")
  /\ connections' = connections \ {arg[t]}
  /\ Goto(t, "decrement")
  /\ UNCHANGED <<activeConns, lock, arg, created, accepted>>

RemoveDelete(t) ==
  /\ At(t, "delete")
  /\ connections' = connections \ {arg[t]}
  /\ Goto(t, IF arg[t] \in connections THEN "decrement" ELSE "unlock")
  /\ UNCHANGED <<activeConns, lock, arg, created, accepted>>

RemoveDecrement(t) ==
  /\ At(t, "decrement")
  /\ activeConns' = activeConns - 1
  /\ Goto(t, "unlock")
  /\ UNCHANGED <<connections, lock, arg, created, accepted>>

-----------------------------------------------------------------------------
(* GetActiveConnections.                                                   *)
\* Mutant: the read lock is granted while a writer holds the mutex.
ReadLockUnguarded(t) ==
  /\ At(t, "idle")
  /\ readers' = readers \union {t}
  /\ Goto(t, "load")
  /\ UNCHANGED <<data, writer, arg, created, accepted>>

ReadLock(t) ==
  /\ At(t, "idle")
  /\ writer = NoThread
  /\ readers' = readers \union {t}
  /\ Goto(t, "load")
  /\ UNCHANGED <<data, writer, arg, created, accepted>>

Load(t) ==
  /\ At(t, "load")
  /\ Goto(t, "runlock")
  /\ UNCHANGED <<data, lock, arg, created, accepted>>

ReadUnlock(t) ==
  /\ At(t, "runlock")
  /\ readers' = readers \ {t}
  /\ Goto(t, "idle")
  /\ UNCHANGED <<data, writer, arg, created, accepted>>

-----------------------------------------------------------------------------
Add(t) ==
  \/ \E c \in Conns : AddLock(t, c)
  \/ AddCheck(t) \/ AddStore(t) \/ AddIncrement(t)

Remove(t) ==
  \/ \E c \in Conns : RemoveLock(t, c)
  \/ RemoveDelete(t) \/ RemoveDecrement(t)

GetActiveConnections(t) == ReadLock(t) \/ Load(t) \/ ReadUnlock(t)

Next == \E t \in Threads : Add(t) \/ Remove(t) \/ Unlock(t) \/ GetActiveConnections(t)

Spec == Init /\ [][Next]_vars

-----------------------------------------------------------------------------
\* GetActiveConnections returns the exact number of registered connections:
\* at the moment it loads the counter no Add or Remove is half done.
ReaderSeesExactCount ==
  \A t \in Threads : pc[t] = "load" => activeConns = Cardinality(connections)

\* GetConnectionStats, which takes no lock, reads a counter that is off by at
\* most the one Add or Remove in progress, however many of them race.
StatsOffByAtMostOne ==
  activeConns - Cardinality(connections) \in
    (IF writer = NoThread THEN {0} ELSE {-1, 0, 1})

\* The number of registered connections never exceeds the limit, even while
\* an Add has stored its connection and not yet counted it.
LimitHolds == Cardinality(connections) <= MaxConns

S == INSTANCE ConnectionSet WITH members <- connections,
                                 removed <- accepted \ connections

\* Add and Remove appear atomic: the manager implements ConnectionSet.
ImplementsConnectionSet == S!Spec

(***************************************************************************)
(* The inductive invariant behind the three properties above.              *)
(***************************************************************************)
WriteLabels == {"check", "store", "increment", "delete", "decrement", "unlock"}

\* The mutex excludes: goroutines inside Add and Remove hold it alone.
MutexOK ==
  /\ \A t \in Threads : pc[t] \in WriteLabels => writer = t
  /\ \A t \in Threads : pc[t] \in {"load", "runlock"} => t \in readers
  /\ writer # NoThread => readers = {}
  /\ \A t \in Threads : t = writer => pc[t] \in WriteLabels

\* The counter lags the map by the operation its holder is in the middle of.
CountOK ==
  /\ IsFiniteSet(connections)
  /\ writer = NoThread => activeConns = Cardinality(connections)
  /\ \A t \in Threads :
       /\ pc[t] \in {"check", "store", "delete", "unlock"} =>
            activeConns = Cardinality(connections)
       /\ pc[t] = "increment" => activeConns = Cardinality(connections) - 1
       /\ pc[t] = "decrement" => activeConns = Cardinality(connections) + 1

\* A connection about to be stored is new and has room.
StoreOK ==
  /\ connections \subseteq accepted
  /\ \A t \in Threads : pc[t] \in {"check", "store"} => arg[t] \in created \ accepted
  /\ \A t \in Threads : pc[t] = "store" => activeConns < MaxConns
  /\ LimitHolds

IInv == TypeOK /\ MutexOK /\ CountOK /\ StoreOK
=============================================================================
