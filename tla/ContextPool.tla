----------------------------- MODULE ContextPool -----------------------------
(***************************************************************************)
(* The pool of ContextImpl instances (context.go, content_impl.go,         *)
(* context_cleanup.go).  newContextImpl takes an instance from the         *)
(* sync.Pool and starts a monitor goroutine, which waits until the         *)
(* request's context is done (30 seconds, or a cancel), runs Cleanup and   *)
(* gives the instance back.  The handler returns on its own schedule:      *)
(* nothing ties its end to the monitor's.  Cleanup works on whatever the   *)
(* fields of the instance hold by then: its cancel function and done       *)
(* channel may be those of a later request.                                *)
(*                                                                         *)
(* Kept of an instance: cancel, done and err.  initialize is one action    *)
(* (the races between two initialize calls on one instance are left out);  *)
(* spans, store and metrics are left out.  sync.Pool is external: Get      *)
(* returns any pooled instance or a new one, and the garbage collector     *)
(* may drop pooled instances.                                              *)
(***************************************************************************)
EXTENDS Integers, FiniteSets

CONSTANTS Requests,  \* requests, one newContextImpl each
          Instances, \* ContextImpl allocations
          None       \* no request, no instance

ASSUME RequestsAssumption == IsFiniteSet(Requests)
ASSUME NoneAssumption == None \notin Requests /\ None \notin Instances

VARIABLES pool,      \* copies of each instance's pointer in the sync.Pool
          made,      \* instances allocated so far
          inst,      \* instance of each request
          handler,   \* progress of each request's handler
          monitor,   \* next step of each request's monitor goroutine
          ctxDone,   \* requests whose context is done
          cancelOf,  \* request whose context the instance's cancel cancels
          doneOf,    \* request that made the instance's done channel
          doneShut,  \* requests whose done channel is closed
          err,       \* request that set the instance's err, or None
          result,    \* whose error each request returned
          crashed    \* close of a closed channel

fields == <<cancelOf, doneOf, err>>
vars == <<pool, made, inst, handler, monitor, ctxDone, fields, doneShut, result,
          crashed>>

TypeOK ==
  /\ pool \in [Instances -> Nat]
  /\ made \subseteq Instances
  /\ inst \in [Requests -> Instances \union {None}]
  /\ handler \in [Requests -> {"new", "leased", "running", "returned"}]
  /\ monitor \in [Requests -> {"off", "waiting", "cancel", "checkDone", "closeDone",
                               "reset", "put", "putAgain", "done"}]
  /\ ctxDone \subseteq Requests
  /\ cancelOf \in [Instances -> Requests \union {None}]
  /\ doneOf \in [Instances -> Requests \union {None}]
  /\ doneShut \subseteq Requests
  /\ err \in [Instances -> Requests \union {None}]
  /\ result \in [Requests -> Requests \union {None}]
  /\ crashed \in BOOLEAN

Init ==
  /\ pool = [o \in Instances |-> 0]
  /\ made = {}
  /\ inst = [q \in Requests |-> None]
  /\ handler = [q \in Requests |-> "new"]
  /\ monitor = [q \in Requests |-> "off"]
  /\ ctxDone = {}
  /\ cancelOf = [o \in Instances |-> None]
  /\ doneOf = [o \in Instances |-> None]
  /\ doneShut = {}
  /\ err = [o \in Instances |-> None]
  /\ result = [q \in Requests |-> None]
  /\ crashed = FALSE

-----------------------------------------------------------------------------
(* newContextImpl.                                                         *)
\* sync.Pool.Get
Lease(q, o) ==
  /\ handler[q] = "new"
  /\ inst' = [inst EXCEPT ![q] = o]
  /\ handler' = [handler EXCEPT ![q] = "leased"]
  /\ UNCHANGED <<monitor, ctxDone, fields, doneShut, result, crashed>>

\* Mutant: Get leaves the instance in the pool.
GetPooledCopy(q, o) ==
  /\ pool[o] > 0
  /\ Lease(q, o)
  /\ UNCHANGED <<pool, made>>

GetPooled(q, o) ==
  /\ pool[o] > 0
  /\ pool' = [pool EXCEPT ![o] = @ - 1]
  /\ Lease(q, o)
  /\ UNCHANGED made

GetNew(q, o) ==
  /\ o \notin made
  /\ made' = made \union {o}
  /\ Lease(q, o)
  /\ UNCHANGED pool

\* initialize gives the instance new cancel and done fields, but leaves err,
\* aborted and handlerIdx as they are; then the monitor is started.
Initialize(q) ==
  /\ handler[q] = "leased"
  /\ handler' = [handler EXCEPT ![q] = "running"]
  /\ cancelOf' = [cancelOf EXCEPT ![inst[q]] = q]
  /\ doneOf' = [doneOf EXCEPT ![inst[q]] = q]
  /\ monitor' = [monitor EXCEPT ![q] = "waiting"]
  /\ UNCHANGED <<pool, made, inst, ctxDone, err, doneShut, result, crashed>>

-----------------------------------------------------------------------------
(* The handler chain, and createWrappedHandler's return of ctx.Error().    *)
AbortWithError(q) ==
  /\ handler[q] = "running"
  /\ err' = [err EXCEPT ![inst[q]] = q]
  /\ UNCHANGED <<pool, made, inst, handler, monitor, ctxDone, cancelOf, doneOf,
                 doneShut, result, crashed>>

\* Mutant: the instance is pooled when the handler returns.
ReturnPooling(q) ==
  /\ handler[q] = "running"
  /\ result' = [result EXCEPT ![q] = err[inst[q]]]
  /\ handler' = [handler EXCEPT ![q] = "returned"]
  /\ pool' = [pool EXCEPT ![inst[q]] = @ + 1]
  /\ UNCHANGED <<made, inst, monitor, ctxDone, fields, doneShut, crashed>>

Return(q) ==
  /\ handler[q] = "running"
  /\ result' = [result EXCEPT ![q] = err[inst[q]]]
  /\ handler' = [handler EXCEPT ![q] = "returned"]
  /\ UNCHANGED <<pool, made, inst, monitor, ctxDone, fields, doneShut, crashed>>

-----------------------------------------------------------------------------
(* monitorContext and Cleanup.                                             *)
MonitorStep(q, from, to) ==
  /\ monitor[q] = from
  /\ monitor' = [monitor EXCEPT ![q] = to]
  /\ UNCHANGED <<made, inst, handler, result>>

Expire(q) ==
  /\ handler[q] \in {"running", "returned"} /\ q \notin ctxDone
  /\ ctxDone' = ctxDone \union {q}
  /\ UNCHANGED <<pool, made, inst, handler, monitor, fields, doneShut, result,
                 crashed>>

\* Mutant: the monitor does not wait.
WakeEarly(q) ==
  /\ MonitorStep(q, "waiting", "put")
  /\ UNCHANGED <<pool, ctxDone, fields, doneShut, crashed>>

\* Mutant: the monitor also waits for the handler.
WakeAfterReturn(q) ==
  /\ q \in ctxDone /\ handler[q] = "returned"
  /\ MonitorStep(q, "waiting", "cancel")
  /\ UNCHANGED <<pool, ctxDone, fields, doneShut, crashed>>

Wake(q) ==
  /\ q \in ctxDone
  /\ MonitorStep(q, "waiting", "cancel")
  /\ UNCHANGED <<pool, ctxDone, fields, doneShut, crashed>>

CancelContext(q) ==
  /\ MonitorStep(q, "cancel", "checkDone")
  /\ ctxDone' = ctxDone \union {cancelOf[inst[q]]}
  /\ UNCHANGED <<pool, fields, doneShut, crashed>>

CheckDone(q) ==
  /\ MonitorStep(q, "checkDone",
                 IF doneOf[inst[q]] \in doneShut THEN "reset" ELSE "closeDone")
  /\ UNCHANGED <<pool, ctxDone, fields, doneShut, crashed>>

CloseDone(q) ==
  /\ MonitorStep(q, "closeDone", "reset")
  /\ crashed' = (doneOf[inst[q]] \in doneShut)
  /\ doneShut' = doneShut \union {doneOf[inst[q]]}
  /\ UNCHANGED <<pool, ctxDone, fields>>

Reset(q) ==
  /\ MonitorStep(q, "reset", "put")
  /\ err' = [err EXCEPT ![inst[q]] = None]
  /\ UNCHANGED <<pool, ctxDone, cancelOf, doneOf, doneShut, crashed>>

\* resetAndPool's Put ...
Put(q) ==
  /\ MonitorStep(q, "put", "putAgain")
  /\ pool' = [pool EXCEPT ![inst[q]] = @ + 1]
  /\ UNCHANGED <<ctxDone, fields, doneShut, crashed>>

\* ... and monitorContext's own.
PutAgain(q) ==
  /\ MonitorStep(q, "putAgain", "done")
  /\ pool' = [pool EXCEPT ![inst[q]] = @ + 1]
  /\ UNCHANGED <<ctxDone, fields, doneShut, crashed>>

\* The garbage collector empties part of the pool.
Drop(o) ==
  /\ pool[o] > 0
  /\ pool' = [pool EXCEPT ![o] = @ - 1]
  /\ UNCHANGED <<made, inst, handler, monitor, ctxDone, fields, doneShut, result,
                 crashed>>

-----------------------------------------------------------------------------
Get(q) == \E o \in Instances : GetPooled(q, o) \/ GetNew(q, o)

Handler(q) == Initialize(q) \/ AbortWithError(q) \/ Return(q)

Cleanup(q) ==
  \/ CancelContext(q) \/ CheckDone(q) \/ CloseDone(q) \/ Reset(q) \/ Put(q)

Monitor(q) == Wake(q) \/ Cleanup(q) \/ PutAgain(q)

Next ==
  /\ ~crashed
  /\ \/ \E q \in Requests : Get(q) \/ Handler(q) \/ Expire(q) \/ Monitor(q)
     \/ \E o \in Instances : Drop(o)

Spec == Init /\ [][Next]_vars

\* Goroutines are scheduled and the 30 second timers fire; handlers may run
\* for ever.
Fairness ==
  \A q \in Requests :
    /\ WF_vars(~crashed /\ Initialize(q))
    /\ WF_vars(~crashed /\ Expire(q))
    /\ WF_vars(~crashed /\ Monitor(q))

FairSpec == Spec /\ Fairness

-----------------------------------------------------------------------------
\* Requests that were given o and have not put it back ...
Leases(o) == {q \in Requests : inst[q] = o /\ monitor[q] \notin {"putAgain", "done"}}

\* ... and those whose monitor is through with it.
Released(o) == {q \in Requests : inst[q] = o /\ monitor[q] = "done"}

\* Every monitor that ends leaves one pointer too many behind, and nothing else
\* does: an instance is held or pooled at most once more than the number of
\* monitors that have ended on it.
CopiesBounded ==
  \A o \in Instances :
    pool[o] + Cardinality(Leases(o)) <= 1 + Cardinality(Released(o))

\* No two requests share an instance until a monitor has put it back twice:
\* before the first timeout of the process requests are isolated.
IsolatedUntilTimeout ==
  \A q1, q2 \in Requests :
    q1 # q2 /\ inst[q1] # None /\ {q1, q2} \subseteq Leases(inst[q1]) =>
      Released(inst[q1]) # {}

\* A request returns an error it did not raise only if some request's context
\* that used the same instance has ended.
ForeignErrorNeedsTimeout ==
  \A q \in Requests :
    result[q] \notin {None, q} =>
      \E p \in ctxDone : inst[p] = inst[q]

\* closeDoneChannel checks and closes in two steps, and a second close panics in
\* a goroutine that nothing recovers.  It takes two monitors on one done channel,
\* so it cannot happen before some monitor has put its instance back twice.
CrashNeedsDoublePut ==
  crashed => \E o \in Instances : Released(o) # {}

\* Cleanup calls the cancel function that the instance holds by then.  It ends the
\* context of another request that is still within its 30 seconds only after a
\* monitor has put the instance back twice.
ForeignCancelNeedsDoublePut ==
  [][\A p, q \in Requests :
       p # q /\ CancelContext(p) /\ q \in ctxDone' \ ctxDone =>
         Released(inst[p]) # {}]_vars

\* Every request's instance goes back to the pool, unless the process dies.
LeasesEnd ==
  \A q \in Requests : handler[q] = "leased" ~> monitor[q] = "done" \/ crashed

-----------------------------------------------------------------------------
(* The inductive invariant.                                                *)
\* An instance that was never allocated is nowhere.
MadeOK ==
  \A o \in Instances \ made : pool[o] = 0 /\ \A q \in Requests : inst[q] # o

LeaseOK ==
  \A q \in Requests :
    /\ inst[q] = None <=> handler[q] = "new"
    /\ monitor[q] = "off" <=> handler[q] \in {"new", "leased"}

\* The request whose context or error an instance holds was given it.
FieldsOK ==
  /\ \A o \in Instances :
       /\ cancelOf[o] # None => inst[cancelOf[o]] = o
       /\ doneOf[o] # None => inst[doneOf[o]] = o /\ monitor[doneOf[o]] # "off"
       /\ err[o] # None => inst[err[o]] = o
  /\ \A q \in Requests :
       /\ monitor[q] # "off" => cancelOf[inst[q]] # None /\ doneOf[inst[q]] # None
       /\ result[q] # None => inst[q] # None /\ inst[result[q]] = inst[q]

TimedOut(o) == \E p \in ctxDone : inst[p] = o

\* An instance is pooled, or given out again, only after a timeout on it.
TimeoutOK ==
  /\ \A q \in Requests : monitor[q] \notin {"off", "waiting"} => q \in ctxDone
  /\ \A o \in Instances : pool[o] > 0 => TimedOut(o)
  /\ \A q1, q2 \in Requests :
       q1 # q2 /\ inst[q1] # None /\ inst[q1] = inst[q2] => TimedOut(inst[q1])

\* A monitor that is about to close a done channel that is closed by now shares
\* it with another monitor.
DoneOK ==
  /\ \A q \in doneShut : monitor[q] # "off"
  /\ \A q \in Requests :
       monitor[q] = "closeDone" /\ doneOf[inst[q]] \in doneShut =>
         Released(inst[q]) # {}

IInv ==
  /\ TypeOK /\ MadeOK /\ LeaseOK /\ FieldsOK /\ TimeoutOK /\ CopiesBounded
  /\ DoneOK /\ CrashNeedsDoublePut
=============================================================================
