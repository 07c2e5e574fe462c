------------------------ MODULE CircuitBreakerPeriod ------------------------
(***************************************************************************)
(* How long late failures can keep a breaker open.  A request that was     *)
(* admitted before the breaker opened may fail while it is open, and its   *)
(* RecordFailure moves lastFailure forward.  A history variable over       *)
(* CircuitBreaker records who has moved it in the present open period.     *)
(***************************************************************************)
EXTENDS CircuitBreakerSerial

VARIABLE extended \* history: goroutines that opened the breaker or moved
                  \* lastFailure since

PeriodInit == SerialInit /\ extended = {}

\* p opens the breaker, and a new open period begins.
Opens(p) == CASTrip(p) /\ state # "open" /\ state' = "open"

\* p moves lastFailure while the breaker is open.
Extends(p) == StoreLastFailure(p) /\ state = "open"

Record(p) ==
  extended' = IF Opens(p) THEN {p}
              ELSE IF Extends(p) THEN extended \union {p} ELSE extended

PeriodNext ==
  /\ \/ \E p \in Procs : Step(p) /\ Record(p)
     \/ Tick /\ UNCHANGED extended
  /\ Observed

pvars == <<svars, extended>>

PeriodSpec == PeriodInit /\ [][PeriodNext]_pvars

FairPeriodSpec == PeriodSpec /\ Fairness

-----------------------------------------------------------------------------
\* Every goroutine moves lastFailure at most once while the breaker is open, and
\* the one that opened it not at all: an open period is extended by the requests
\* that were under way when it began and by no other, since nobody gets past
\* IsOpen again without ending it.
ExtendedOnce ==
  [][\A p \in Procs : Extends(p) => p \notin extended]_pvars

-----------------------------------------------------------------------------
\* The inductive part: where such a goroutine can be as long as the period lasts.
Outside ==
  state = "open" =>
    \A p \in extended :
      pc[p] \in {"idle", "loadStamp", "since", "probe", "loadTrip"}

PeriodInv == TypeOK /\ extended \subseteq Procs /\ Outside
=============================================================================
