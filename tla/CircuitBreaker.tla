--------------------------- MODULE CircuitBreaker ---------------------------
(***************************************************************************)
(* The circuit breaker of circuit_braker.go as the request goroutines of   *)
(* middleware_circuit_breaker.go drive it.  The breaker has no lock: its   *)
(* fields are independent atomics, so every Load, Store, Add and           *)
(* CompareAndSwap is an action of its own and goroutines interleave        *)
(* between any two of them.  pc[p] names the next atomic operation of p.   *)
(*                                                                         *)
(* Left out: the metrics and log calls (they do not feed back) and the     *)
(* read-only monitor loop.  A handler's outcome (error, panic or a run     *)
(* longer than config.Timeout, against none of them) is a free choice.  A  *)
(* local variable is cleared when it is dead.                              *)
(***************************************************************************)
EXTENDS Integers

CONSTANTS Procs,        \* request goroutines that share one breaker
          Threshold,    \* cb.threshold
          HalfOpenMax,  \* cb.halfOpenMax, which NewCircuitBreaker sets to 2
          ResetTimeout, \* cb.resetTimeout, in clock ticks
          MaxTime       \* bound on the clock, for TLC only

ASSUME ThresholdAssumption == Threshold \in Nat \ {0}
ASSUME HalfOpenMaxAssumption == HalfOpenMax \in Nat \ {0}
ASSUME TimeAssumption == ResetTimeout \in Nat /\ MaxTime \in Nat

VARIABLES state,        \* cb.state
          failures,     \* cb.failures
          successes,    \* cb.successes
          lastFailure,  \* cb.lastFailure
          now,          \* time.Now()
          pc,           \* next atomic operation of each goroutine
          count,        \* value its last atomic Add returned
          stamp,        \* timestamp it holds
          seen          \* cb.state as it loaded it before a trip

shared == <<state, failures, successes, lastFailure>>
local  == <<count, stamp, seen>>
vars   == <<shared, now, pc, local>>

States == {"closed", "halfOpen", "open"}

Labels == {"idle", "loadStamp", "since", "probe", "clearSuccesses", "handler",
           "readClock", "storeStamp", "loadTrip", "trip",
           "addSuccess", "close", "closeFailures", "closeSuccesses",
           "resetFailures"}

TypeOK ==
  /\ state \in States
  /\ failures \in Nat
  /\ successes \in Nat
  /\ lastFailure \in Nat
  /\ now \in Nat
  /\ pc \in [Procs -> Labels]
  /\ count \in [Procs -> Nat]
  /\ stamp \in [Procs -> Nat]
  /\ seen \in [Procs -> States]

\* NewCircuitBreaker: closed, all counters zero.
Init ==
  /\ state = "closed"
  /\ failures = 0
  /\ successes = 0
  /\ lastFailure = 0
  /\ now = 0
  /\ pc = [p \in Procs |-> "idle"]
  /\ count = [p \in Procs |-> 0]
  /\ stamp = [p \in Procs |-> 0]
  /\ seen = [p \in Procs |-> "closed"]

At(p, label) == pc[p] = label
Goto(p, label) == pc' = [pc EXCEPT ![p] = label]

(***************************************************************************)
(* IsOpen, called before the handler.  Returning to "idle" here is the     *)
(* rejected request; reaching "handler" is the admitted one.               *)
(***************************************************************************)
IsOpenLoad(p) ==
  /\ At(p, "idle")
  /\ Goto(p, IF state = "open" THEN "loadStamp" ELSE "handler")
  /\ UNCHANGED <<shared, now, local>>

LoadLastFailure(p) ==
  /\ At(p, "loadStamp")
  /\ stamp' = [stamp EXCEPT ![p] = lastFailure]
  /\ Goto(p, "since")
  /\ UNCHANGED <<shared, now, count, seen>>

CheckElapsed(p) ==
  /\ At(p, "since")
  /\ Goto(p, IF now - stamp[p] > ResetTimeout THEN "probe" ELSE "idle")
  /\ stamp' = [stamp EXCEPT ![p] = 0]
  /\ UNCHANGED <<shared, now, count, seen>>

\* Mutant: the successes of the previous half-open period are kept.
CASHalfOpenKeeping(p) ==
  /\ At(p, "probe")
  /\ state' = IF state = "open" THEN "halfOpen" ELSE state
  /\ Goto(p, "handler")
  /\ UNCHANGED <<failures, successes, lastFailure, now, local>>

\* Mutant: the request is let through without the transition.
CASHalfOpenNever(p) ==
  /\ At(p, "probe")
  /\ Goto(p, "handler")
  /\ UNCHANGED <<shared, now, local>>

CASHalfOpen(p) ==
  /\ At(p, "probe")
  /\ IF state = "open"
     THEN state' = "halfOpen" /\ Goto(p, "clearSuccesses")
     ELSE UNCHANGED state /\ Goto(p, "handler")
  /\ UNCHANGED <<failures, successes, lastFailure, now, local>>

ClearSuccesses(p) ==
  /\ At(p, "clearSuccesses")
  /\ successes' = 0
  /\ Goto(p, "handler")
  /\ UNCHANGED <<state, failures, lastFailure, now, local>>

(***************************************************************************)
(* RecordFailure: the handler failed.                                      *)
(***************************************************************************)
AddFailure(p) ==
  /\ At(p, "handler")
  /\ failures' = failures + 1
  /\ count' = [count EXCEPT ![p] = failures + 1]
  /\ Goto(p, "readClock")
  /\ UNCHANGED <<state, successes, lastFailure, now, stamp, seen>>

\* time.Now() is evaluated before the Store it is an argument of.
ReadClock(p) ==
  /\ At(p, "readClock")
  /\ stamp' = [stamp EXCEPT ![p] = now]
  /\ Goto(p, "storeStamp")
  /\ UNCHANGED <<shared, now, count, seen>>

\* Mutant: the threshold is compared with ">" instead of ">=".
StoreLastFailureLate(p) ==
  /\ At(p, "storeStamp")
  /\ lastFailure' = stamp[p]
  /\ stamp' = [stamp EXCEPT ![p] = 0]
  /\ count' = [count EXCEPT ![p] = 0]
  /\ Goto(p, IF count[p] > Threshold THEN "loadTrip" ELSE "idle")
  /\ UNCHANGED <<state, failures, successes, now, seen>>

StoreLastFailure(p) ==
  /\ At(p, "storeStamp")
  /\ lastFailure' = stamp[p]
  /\ stamp' = [stamp EXCEPT ![p] = 0]
  /\ count' = [count EXCEPT ![p] = 0]
  /\ Goto(p, IF count[p] >= Threshold THEN "loadTrip" ELSE "idle")
  /\ UNCHANGED <<state, failures, successes, now, seen>>

LoadForTrip(p) ==
  /\ At(p, "loadTrip")
  /\ seen' = [seen EXCEPT ![p] = state]
  /\ Goto(p, IF state # "open" THEN "trip" ELSE "idle")
  /\ UNCHANGED <<shared, now, count, stamp>>

CASTrip(p) ==
  /\ At(p, "trip")
  /\ state' = IF state = seen[p] THEN "open" ELSE state
  /\ seen' = [seen EXCEPT ![p] = "closed"]
  /\ Goto(p, "idle")
  /\ UNCHANGED <<failures, successes, lastFailure, now, count, stamp>>

(***************************************************************************)
(* RecordSuccess: the handler succeeded.                                   *)
(***************************************************************************)
RecordSuccessLoad(p) ==
  /\ At(p, "handler")
  /\ Goto(p, CASE state = "halfOpen" -> "addSuccess"
               [] state = "closed"   -> "resetFailures"
               [] state = "open"     -> "idle")
  /\ UNCHANGED <<shared, now, local>>

ResetFailures(p) ==
  /\ At(p, "resetFailures")
  /\ failures' = 0
  /\ Goto(p, "idle")
  /\ UNCHANGED <<state, successes, lastFailure, now, local>>

AddSuccess(p) ==
  /\ At(p, "addSuccess")
  /\ successes' = successes + 1
  /\ Goto(p, IF successes + 1 >= HalfOpenMax THEN "close" ELSE "idle")
  /\ UNCHANGED <<state, failures, lastFailure, now, local>>

\* Mutant: a Store where the code has a CompareAndSwap.
CASCloseBlind(p) ==
  /\ At(p, "close")
  /\ state' = "closed"
  /\ Goto(p, "closeFailures")
  /\ UNCHANGED <<failures, successes, lastFailure, now, local>>

CASClose(p) ==
  /\ At(p, "close")
  /\ IF state = "halfOpen"
     THEN state' = "closed" /\ Goto(p, "closeFailures")
     ELSE UNCHANGED state /\ Goto(p, "idle")
  /\ UNCHANGED <<failures, successes, lastFailure, now, local>>

CloseResetFailures(p) ==
  /\ At(p, "closeFailures")
  /\ failures' = 0
  /\ Goto(p, "closeSuccesses")
  /\ UNCHANGED <<state, successes, lastFailure, now, local>>

CloseResetSuccesses(p) ==
  /\ At(p, "closeSuccesses")
  /\ successes' = 0
  /\ Goto(p, "idle")
  /\ UNCHANGED <<state, failures, lastFailure, now, local>>

Tick ==
  /\ now < MaxTime
  /\ now' = now + 1
  /\ UNCHANGED <<shared, pc, local>>

IsOpen(p) ==
  \/ IsOpenLoad(p) \/ LoadLastFailure(p) \/ CheckElapsed(p)
  \/ CASHalfOpen(p) \/ ClearSuccesses(p)

RecordFailure(p) ==
  \/ AddFailure(p) \/ ReadClock(p) \/ StoreLastFailure(p)
  \/ LoadForTrip(p) \/ CASTrip(p)

RecordSuccess(p) ==
  \/ RecordSuccessLoad(p) \/ ResetFailures(p) \/ AddSuccess(p)
  \/ CASClose(p) \/ CloseResetFailures(p) \/ CloseResetSuccesses(p)

Step(p) == IsOpen(p) \/ RecordFailure(p) \/ RecordSuccess(p)

Next == Tick \/ \E p \in Procs : Step(p)

Spec == Init /\ [][Next]_vars

\* Requests keep arriving and the scheduler runs every goroutine.
Fairness == \A p \in Procs : WF_vars(Step(p))
FairSpec == Spec /\ Fairness

-----------------------------------------------------------------------------
Elapsed == now - lastFailure > ResetTimeout

\* p has counted a failure that reaches the threshold and has not yet tried
\* to trip the breaker out of the closed state.
WillTrip(p) ==
  \/ pc[p] \in {"readClock", "storeStamp"} /\ count[p] >= Threshold
  \/ pc[p] = "loadTrip"
  \/ pc[p] = "trip" /\ seen[p] = "closed"

\* A closed breaker whose failure counter has reached the threshold has a
\* goroutine under way that will open it or clear the counter: no trip is lost
\* to a failed CompareAndSwap in checkThresholdAndTransition, whatever
\* RecordSuccess and handleHalfOpenSuccess do in between.
NoLostTrip ==
  state = "closed" /\ failures >= Threshold =>
    \E p \in Procs : WillTrip(p) \/ pc[p] = "closeFailures"

\* Once every goroutine has returned, a closed breaker is below its threshold.
QuiescentClosed ==
  (\A p \in Procs : pc[p] = "idle") /\ state = "closed" => failures < Threshold

LegalStep ==
  \/ state = "closed" /\ state' = "open"
  \/ state = "open" /\ state' = "halfOpen"
  \/ state = "halfOpen" /\ state' \in {"open", "closed"}

\* The breaker only trips, probes, re-trips and closes from half-open; in
\* particular no race takes it from closed to half-open or from open straight
\* to closed (the CompareAndSwap calls of IsOpen, RecordFailure, RecordSuccess).
LegalTransitions == [][LegalStep]_state

\* While requests keep coming, an open breaker whose reset timeout has elapsed
\* is probed, unless a late failure moves lastFailure forward.
ProbedAfterTimeout ==
  state = "open" /\ Elapsed ~> state # "open" \/ ~Elapsed
=============================================================================
