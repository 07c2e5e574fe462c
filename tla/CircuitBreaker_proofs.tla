------------------------ MODULE CircuitBreaker_proofs ------------------------
(***************************************************************************)
(* Safety of CircuitBreaker for every number of goroutines, threshold and  *)
(* timeout.  NoLostTrip is inductive on top of the type invariant: the     *)
(* goroutine whose Add reaches the threshold is its witness until it trips *)
(* the breaker, and a goroutine that closes the breaker is its witness     *)
(* until it clears the counter.  As long as requests do not overlap the    *)
(* breaker implements Breaker: each step is a step of Breaker or leaves    *)
(* its state alone.  Late failures extend an open period once for each     *)
(* goroutine: those that have done so stay outside the handler until the   *)
(* period ends.                                                            *)
(***************************************************************************)
EXTENDS CircuitBreakerPeriod, TLAPS

LEMMA InitTypeOK == Init => TypeOK
  BY DEF Init, TypeOK, States, Labels

\* Every atomic operation keeps the fields and locals in their types.
LEMMA StepTypeOK == TypeOK /\ [Next]_vars => TypeOK'
<1> SUFFICES ASSUME TypeOK, [Next]_vars PROVE TypeOK'
    OBVIOUS
<1> USE DEF TypeOK, States, Labels, At, Goto, shared, local
<1>1. ASSUME NEW p \in Procs, IsOpen(p) PROVE TypeOK'
  BY <1>1 DEF IsOpen, IsOpenLoad, LoadLastFailure, CheckElapsed, CASHalfOpen,
              ClearSuccesses
<1>2. ASSUME NEW p \in Procs, RecordFailure(p) PROVE TypeOK'
  <2>1. CASE AddFailure(p)
    BY <2>1 DEF AddFailure
  <2>2. CASE ReadClock(p)
    BY <2>2 DEF ReadClock
  <2>3. CASE StoreLastFailure(p)
    BY <2>3 DEF StoreLastFailure
  <2>4. CASE LoadForTrip(p)
    BY <2>4 DEF LoadForTrip
  <2>5. CASE CASTrip(p)
    BY <2>5 DEF CASTrip
  <2> QED BY <1>2, <2>1, <2>2, <2>3, <2>4, <2>5 DEF RecordFailure
<1>3. ASSUME NEW p \in Procs, RecordSuccess(p) PROVE TypeOK'
  BY <1>3 DEF RecordSuccess, RecordSuccessLoad, ResetFailures, AddSuccess,
              CASClose, CloseResetFailures, CloseResetSuccesses
<1>4. CASE Tick
  BY <1>4 DEF Tick
<1>5. CASE UNCHANGED vars
  BY <1>5 DEF vars
<1> QED BY <1>1, <1>2, <1>3, <1>4, <1>5 DEF Next, Step

\* The fields of the breaker and the locals of its callers keep their types.
THEOREM TypeCorrect == Spec => []TypeOK
  BY InitTypeOK, StepTypeOK, PTL DEF Spec

-----------------------------------------------------------------------------
LEMMA InitNoLostTrip == Init => NoLostTrip
  BY ThresholdAssumption DEF Init, NoLostTrip

\* No operation strands a closed breaker at its threshold.
LEMMA StepNoLostTrip == TypeOK /\ NoLostTrip /\ [Next]_vars => NoLostTrip'
<1> SUFFICES ASSUME TypeOK, NoLostTrip, [Next]_vars,
                    state' = "closed", failures' >= Threshold
             PROVE  \E q \in Procs : WillTrip(q)' \/ (pc[q] = "closeFailures")'
    BY DEF NoLostTrip
<1> USE ThresholdAssumption
    DEF TypeOK, States, Labels, At, Goto, shared, local, WillTrip
<1>1. ASSUME NEW p \in Procs, IsOpen(p)
      PROVE  \E q \in Procs : WillTrip(q)' \/ (pc[q] = "closeFailures")'
  BY <1>1 DEF NoLostTrip, IsOpen, IsOpenLoad, LoadLastFailure, CheckElapsed,
              CASHalfOpen, ClearSuccesses
<1>2. ASSUME NEW p \in Procs, RecordFailure(p)
      PROVE  \E q \in Procs : WillTrip(q)' \/ (pc[q] = "closeFailures")'
  <2>1. CASE AddFailure(p)
    BY <2>1 DEF AddFailure
  <2>2. CASE ReadClock(p)
    BY <2>2 DEF ReadClock, NoLostTrip
  <2>3. CASE StoreLastFailure(p)
    BY <2>3 DEF StoreLastFailure, NoLostTrip
  <2>4. CASE LoadForTrip(p)
    BY <2>4 DEF LoadForTrip, NoLostTrip
  <2>5. CASE CASTrip(p)
    BY <2>5 DEF CASTrip, NoLostTrip
  <2> QED BY <1>2, <2>1, <2>2, <2>3, <2>4, <2>5 DEF RecordFailure
<1>3. ASSUME NEW p \in Procs, RecordSuccess(p)
      PROVE  \E q \in Procs : WillTrip(q)' \/ (pc[q] = "closeFailures")'
  BY <1>3 DEF NoLostTrip, RecordSuccess, RecordSuccessLoad, ResetFailures,
              AddSuccess, CASClose, CloseResetFailures, CloseResetSuccesses
<1>4. CASE Tick
  BY <1>4 DEF Tick, NoLostTrip
<1>5. CASE UNCHANGED vars
  BY <1>5 DEF vars, NoLostTrip
<1> QED BY <1>1, <1>2, <1>3, <1>4, <1>5 DEF Next, Step

\* A trip is never lost to the races between RecordFailure and RecordSuccess.
THEOREM TripNeverLost == Spec => []NoLostTrip
<1>1. Init => TypeOK /\ NoLostTrip
  BY InitTypeOK, InitNoLostTrip
<1>2. TypeOK /\ NoLostTrip /\ [Next]_vars => TypeOK' /\ NoLostTrip'
  BY StepTypeOK, StepNoLostTrip
<1> QED BY <1>1, <1>2, PTL DEF Spec

\* When every request has returned, a closed breaker has fewer recorded
\* failures than its threshold.
THEOREM ClosedBelowThreshold == Spec => []QuiescentClosed
<1>1. TypeOK /\ NoLostTrip => QuiescentClosed
  BY ThresholdAssumption DEF TypeOK, NoLostTrip, QuiescentClosed, WillTrip
<1> QED BY <1>1, TypeCorrect, TripNeverLost, PTL

\* Every change of cb.state is one of the four the breaker is meant to make.
THEOREM OnlyLegalTransitions == Spec => LegalTransitions
<1>1. TypeOK /\ [Next]_vars => [LegalStep]_state
  <2> SUFFICES ASSUME TypeOK, Next PROVE LegalStep \/ state' = state
      BY DEF vars, shared
  <2> USE DEF TypeOK, States, shared, LegalStep
  <2>1. ASSUME NEW p \in Procs, IsOpen(p) PROVE LegalStep \/ state' = state
    BY <2>1 DEF IsOpen, IsOpenLoad, LoadLastFailure, CheckElapsed, CASHalfOpen,
                ClearSuccesses
  <2>2. ASSUME NEW p \in Procs, RecordFailure(p)
        PROVE  LegalStep \/ state' = state
    <3>1. CASE CASTrip(p)
      BY <3>1 DEF CASTrip
    <3> QED BY <2>2, <3>1 DEF RecordFailure, AddFailure, ReadClock,
                              StoreLastFailure, LoadForTrip
  <2>3. ASSUME NEW p \in Procs, RecordSuccess(p)
        PROVE  LegalStep \/ state' = state
    BY <2>3 DEF RecordSuccess, RecordSuccessLoad, ResetFailures, AddSuccess,
                CASClose, CloseResetFailures, CloseResetSuccesses
  <2> QED BY <2>1, <2>2, <2>3 DEF Next, Step, Tick
<1> QED BY <1>1, TypeCorrect, PTL DEF Spec, LegalTransitions

-----------------------------------------------------------------------------
(* Requests that do not overlap.                                           *)
\* When one goroutine makes a step and there is no overlap before or after it, all
\* others are idle.
LEMMA OthersIdle ==
  ASSUME TypeOK, NEW p \in Procs, Step(p), Alone, Alone'
  PROVE  \A q \in Procs \ {p} : pc[q] = "idle" /\ pc'[q] = "idle"
<1>1. \A q \in Procs \ {p} : pc'[q] = pc[q]
  BY DEF Step, IsOpen, IsOpenLoad, LoadLastFailure, CheckElapsed, CASHalfOpen, ClearSuccesses,
         RecordFailure, AddFailure, ReadClock, StoreLastFailure, LoadForTrip, CASTrip,
         RecordSuccess, RecordSuccessLoad, ResetFailures, AddSuccess, CASClose,
         CloseResetFailures, CloseResetSuccesses, Goto, TypeOK
<1>2. pc[p] # "idle" \/ pc'[p] # "idle"
  BY DEF Step, IsOpen, IsOpenLoad, LoadLastFailure, CheckElapsed, CASHalfOpen, ClearSuccesses,
         RecordFailure, AddFailure, ReadClock, StoreLastFailure, LoadForTrip, CASTrip,
         RecordSuccess, RecordSuccessLoad, ResetFailures, AddSuccess, CASClose,
         CloseResetFailures, CloseResetSuccesses, At, Goto, TypeOK
<1> QED BY <1>1, <1>2 DEF Alone, At

LEMMA InitSerialInv == SerialInit => SerialInv
<1> SUFFICES ASSUME SerialInit PROVE SerialInv
    OBVIOUS
<1>1. TypeOK /\ overlapped = FALSE
  BY InitTypeOK DEF SerialInit
<1>2. \A p \in Procs : pc[p] = "idle"
  BY DEF SerialInit, Init
<1>3. Alone /\ \A p \in Procs : Knows(p)
  BY <1>2 DEF Alone, At, Knows
<1>4. lastFailure <= now /\ state = "closed"
  BY DEF SerialInit, Init
<1> QED BY <1>1, <1>3, <1>4 DEF SerialInv, Sequential

\* What the only caller knows it still knows after its next step.
LEMMA StepSequential ==
  ASSUME TypeOK, Sequential, Alone', NEW p \in Procs, Step(p)
  PROVE  Sequential'
<1>1. TypeOK /\ TypeOK'
  BY StepTypeOK DEF Next
<1>2. \A q \in Procs \ {p} : pc[q] = "idle" /\ pc'[q] = "idle"
  BY OthersIdle DEF Sequential
<1> SUFFICES (lastFailure <= now /\ (state # "closed" => failures >= Threshold) /\ Knows(p))'
  <2>1. \A q \in Procs \ {p} : Knows(q)'
    BY <1>2 DEF Knows
  <2> QED BY <2>1 DEF Sequential
<1>0. lastFailure <= now /\ (state # "closed" => failures >= Threshold) /\ Knows(p)
  BY DEF Sequential
<1> USE <1>0, ThresholdAssumption, TimeAssumption
    DEF Knows, TypeOK, States, Labels, At, Goto, shared, local
<1>3. CASE IsOpen(p)
  <2>1. CASE IsOpenLoad(p) \/ LoadLastFailure(p)
    BY <1>1, <2>1 DEF IsOpenLoad, LoadLastFailure
  <2>2. CASE CheckElapsed(p)
    BY <1>1, <2>2 DEF CheckElapsed
  <2>3. CASE CASHalfOpen(p) \/ ClearSuccesses(p)
    BY <1>1, <2>3 DEF CASHalfOpen, ClearSuccesses
  <2> QED BY <1>3, <2>1, <2>2, <2>3 DEF IsOpen
<1>4. CASE RecordFailure(p)
  <2>1. CASE AddFailure(p)
    BY <1>1, <2>1 DEF AddFailure
  <2>2. CASE ReadClock(p)
    BY <1>1, <2>2 DEF ReadClock
  <2>3. CASE StoreLastFailure(p)
    BY <1>1, <2>3 DEF StoreLastFailure
  <2>4. CASE LoadForTrip(p)
    BY <1>1, <2>4 DEF LoadForTrip
  <2>5. CASE CASTrip(p)
    BY <1>1, <2>5 DEF CASTrip
  <2> QED BY <1>4, <2>1, <2>2, <2>3, <2>4, <2>5 DEF RecordFailure
<1>5. CASE RecordSuccess(p)
  BY <1>1, <1>5 DEF RecordSuccess, RecordSuccessLoad, ResetFailures, AddSuccess, CASClose,
                    CloseResetFailures, CloseResetSuccesses
<1> QED BY <1>3, <1>4, <1>5 DEF Step

LEMMA StepSerialInv == SerialInv /\ [SerialNext]_svars => SerialInv'
<1> SUFFICES ASSUME SerialInv, [SerialNext]_svars PROVE SerialInv'
    OBVIOUS
<1>1. TypeOK /\ TypeOK'
  BY StepTypeOK DEF SerialInv, SerialNext, svars
<1>2. CASE SerialNext
  <2>1. overlapped' \in BOOLEAN /\ (~overlapped' => ~overlapped /\ Alone')
    BY <1>2 DEF SerialInv, SerialNext, Observed
  <2>2. ASSUME ~overlapped' PROVE Sequential'
    <3>1. Sequential /\ Alone'
      BY <2>1, <2>2 DEF SerialInv
    <3>2. ASSUME NEW p \in Procs, Step(p) PROVE Sequential'
      BY <1>1, <3>1, <3>2, StepSequential
    <3>3. CASE Tick
      <4>1. UNCHANGED <<shared, pc, local>> /\ now' = now + 1
        BY <3>3 DEF Tick
      <4>2. \A p \in Procs : Knows(p)'
        BY <1>1, <3>1, <4>1, TimeAssumption DEF Sequential, Knows, TypeOK, shared, local
      <4> QED BY <1>1, <3>1, <4>1, <4>2 DEF Sequential, TypeOK, shared
    <3> QED BY <1>2, <3>2, <3>3 DEF SerialNext, Next
  <2> QED BY <1>1, <2>1, <2>2 DEF SerialInv
<1>3. CASE UNCHANGED svars
  BY <1>1, <1>3 DEF svars, vars, shared, local, SerialInv, Sequential, Alone, At, Knows
<1> QED BY <1>2, <1>3

\* As long as requests do not overlap an open breaker lets one through only by making
\* it half-open first.
THEOREM NoSurprise == SerialSpec => []NoUnexpectedSuccess
<1>1. SerialInv => NoUnexpectedSuccess
  BY DEF SerialInv, Sequential, Knows, NoUnexpectedSuccess
<1> QED BY InitSerialInv, StepSerialInv, <1>1, PTL DEF SerialSpec

\* What Breaker sees, in terms of the next operation of the only caller.
LEMMA Bars ==
  ASSUME NEW p \in Procs, \A q \in Procs \ {p} : pc[q] = "idle" /\ pc'[q] = "idle"
  PROVE  /\ strikesBar = IF pc[p] \in {"readClock", "storeStamp"} THEN failures - 1
                         ELSE IF pc[p] \in {"close", "closeFailures"} THEN 0 ELSE failures
         /\ modeBar = IF pc[p] \in {"loadTrip", "trip"} THEN "open"
                      ELSE IF pc[p] = "close" THEN "closed" ELSE state
         /\ passesBar = IF pc[p] \in {"clearSuccesses", "close", "closeFailures", "closeSuccesses"}
                        THEN 0 ELSE successes
         /\ strikesBar' = IF pc'[p] \in {"readClock", "storeStamp"} THEN failures' - 1
                          ELSE IF pc'[p] \in {"close", "closeFailures"} THEN 0 ELSE failures'
         /\ modeBar' = IF pc'[p] \in {"loadTrip", "trip"} THEN "open"
                       ELSE IF pc'[p] = "close" THEN "closed" ELSE state'
         /\ passesBar' = IF pc'[p] \in {"clearSuccesses", "close", "closeFailures", "closeSuccesses"}
                         THEN 0 ELSE successes'
<1>1. \A labels : "idle" \notin labels =>
        (Someone(labels) <=> pc[p] \in labels) /\ (Someone(labels)' <=> pc'[p] \in labels)
  BY DEF Someone
<1> QED BY <1>1 DEF strikesBar, modeBar, passesBar

LEMMA StepRefines ==
  ASSUME TypeOK, Sequential, Alone', NEW p \in Procs, Step(p)
  PROVE  B!Next \/ UNCHANGED Seen
<1>0. \A q \in Procs \ {p} : pc[q] = "idle" /\ pc'[q] = "idle"
  BY OthersIdle DEF Sequential
<1> USE ThresholdAssumption, HalfOpenMaxAssumption
    DEF Sequential, Knows, TypeOK, States, Labels, At, Goto, shared, local, Seen, B!breaker
<1>1. CASE IsOpen(p)
  <2>1. CASE CASHalfOpen(p)
    <3>1. B!Probe
      BY <2>1, <1>0, Bars DEF CASHalfOpen, B!Probe
    <3> QED BY <3>1 DEF B!Next
  <2> QED BY <1>1, <2>1, <1>0, Bars
          DEF IsOpen, IsOpenLoad, LoadLastFailure, CheckElapsed, ClearSuccesses
<1>2. CASE RecordFailure(p)
  <2>1. CASE StoreLastFailure(p)
    <3>1. B!Fail
      BY <2>1, <1>0, Bars DEF StoreLastFailure, B!Fail
    <3> QED BY <3>1 DEF B!Next
  <2>2. CASE AddFailure(p)
    BY <2>2, <1>0, Bars DEF AddFailure
  <2>3. CASE ReadClock(p)
    BY <2>3, <1>0, Bars DEF ReadClock
  <2>4. CASE LoadForTrip(p) \/ CASTrip(p)
    BY <2>4, <1>0, Bars DEF LoadForTrip, CASTrip
  <2> QED BY <1>2, <2>1, <2>2, <2>3, <2>4 DEF RecordFailure
<1>3. CASE RecordSuccess(p)
  <2>1. CASE ResetFailures(p)
    <3>1. B!SucceedClosed
      BY <2>1, <1>0, Bars DEF ResetFailures, B!SucceedClosed
    <3> QED BY <3>1 DEF B!Next
  <2>2. CASE AddSuccess(p)
    <3>1. B!SucceedHalfOpen
      BY <2>2, <1>0, Bars DEF AddSuccess, B!SucceedHalfOpen
    <3> QED BY <3>1 DEF B!Next
  <2>3. CASE CASClose(p) \/ CloseResetFailures(p) \/ CloseResetSuccesses(p)
    BY <2>3, <1>0, Bars DEF CASClose, CloseResetFailures, CloseResetSuccesses
  <2>4. CASE RecordSuccessLoad(p)
    BY <2>4, <1>0, Bars DEF RecordSuccessLoad
  <2> QED BY <1>3, <2>1, <2>2, <2>3, <2>4 DEF RecordSuccess
<1> QED BY <1>1, <1>2, <1>3 DEF Step

\* Up to the first two requests that overlap the atomics are the breaker that Breaker
\* promises, whichever goroutines the requests come from.
THEOREM SerialRefinement == SerialSpec => ImplementsBreaker
<1>1. SerialInit => B!Init
  BY DEF SerialInit, Init, B!Init, strikesBar, modeBar, passesBar, Someone
<1>2. SerialInv /\ [SerialNext]_svars => [B!Next \/ overlapped']_Seen
  <2> SUFFICES ASSUME SerialInv, [SerialNext]_svars, ~overlapped'
               PROVE  B!Next \/ UNCHANGED Seen
      OBVIOUS
  <2>1. CASE UNCHANGED svars
    BY <2>1 DEF svars, vars, shared, Seen, B!breaker, strikesBar, modeBar, passesBar, Someone
  <2>2. CASE SerialNext
    <3>1. TypeOK /\ Sequential /\ Alone'
      BY <2>2 DEF SerialNext, Observed, SerialInv
    <3>2. CASE Tick
      <4>1. B!Pass
        BY <3>2 DEF Tick, B!Pass, B!breaker, strikesBar, modeBar, passesBar, Someone, shared,
                    local
      <4> QED BY <4>1 DEF B!Next
    <3> QED BY <2>2, <3>1, <3>2, StepRefines DEF SerialNext, Next
  <2> QED BY <2>1, <2>2
<1> QED BY InitSerialInv, StepSerialInv, <1>1, <1>2, PTL DEF SerialSpec, ImplementsBreaker

-----------------------------------------------------------------------------
(* Late failures.                                                          *)
\* Whoever has moved lastFailure in an open period stays outside the handler as
\* long as it lasts: the next CAS it wins ends the period.
LEMMA StepPeriodInv == PeriodInv /\ [PeriodNext]_pvars => PeriodInv'
<1> SUFFICES ASSUME PeriodInv, [PeriodNext]_pvars PROVE PeriodInv'
    OBVIOUS
<1>1. TypeOK'
  BY StepTypeOK DEF PeriodInv, PeriodNext, Next, pvars, svars
<1> USE DEF PeriodInv, Outside, TypeOK, States, Labels, At, Goto, shared, local
<1>2. ASSUME NEW p \in Procs, Step(p), Record(p) PROVE PeriodInv'
  <2>1. CASE CASTrip(p)
    <3>1. CASE state = "open"
      <4>1. extended' = extended /\ state' = "open" /\ pc' = [pc EXCEPT ![p] = "idle"]
        BY <1>2, <2>1, <3>1 DEF Record, Opens, Extends, CASTrip, StoreLastFailure
      <4> QED BY <1>1, <3>1, <4>1
    <3>2. CASE state # "open" /\ state' = "open"
      <4>1. extended' = {p} /\ pc' = [pc EXCEPT ![p] = "idle"]
        BY <1>2, <2>1, <3>2 DEF Record, Opens, CASTrip
      <4> QED BY <1>1, <4>1
    <3>3. CASE state' # "open"
      <4>1. extended' = extended
        BY <1>2, <2>1, <3>3 DEF Record, Opens, Extends, CASTrip, StoreLastFailure
      <4> QED BY <1>1, <3>3, <4>1
    <3> QED BY <3>1, <3>2, <3>3
  <2>2. CASE StoreLastFailure(p)
    <3>1. /\ extended' = IF state = "open" THEN extended \union {p} ELSE extended
          /\ state' = state /\ pc'[p] \in {"idle", "loadTrip"}
          /\ \A q \in Procs \ {p} : pc'[q] = pc[q]
      BY <1>2, <2>2 DEF Record, Opens, Extends, CASTrip, StoreLastFailure
    <3> QED BY <1>1, <3>1
  <2>3. CASE ~CASTrip(p) /\ ~StoreLastFailure(p)
    <3>1. extended' = extended
      BY <1>2, <2>3 DEF Record, Opens, Extends
    <3>2. CASE IsOpen(p)
      BY <1>1, <3>1, <3>2 DEF IsOpen, IsOpenLoad, LoadLastFailure, CheckElapsed,
                              CASHalfOpen, ClearSuccesses
    <3>3. CASE RecordFailure(p)
      BY <1>1, <2>3, <3>1, <3>3 DEF RecordFailure, AddFailure, ReadClock, LoadForTrip
    <3>4. CASE RecordSuccess(p)
      BY <1>1, <3>1, <3>4 DEF RecordSuccess, RecordSuccessLoad, ResetFailures,
                              AddSuccess, CASClose, CloseResetFailures,
                              CloseResetSuccesses
    <3> QED BY <1>2, <3>2, <3>3, <3>4 DEF Step
  <2> QED BY <2>1, <2>2, <2>3
<1>3. CASE Tick /\ UNCHANGED extended
  BY <1>1, <1>3 DEF Tick
<1>4. CASE UNCHANGED pvars
  BY <1>1, <1>4 DEF pvars, svars, vars
<1> QED BY <1>2, <1>3, <1>4 DEF PeriodNext

\* An open period is extended at most once by each goroutine that was under way
\* when it began, and not by the one that opened it.
THEOREM ExtensionsBounded == PeriodSpec => ExtendedOnce
<1>1. PeriodInit => PeriodInv
  BY InitTypeOK DEF PeriodInit, SerialInit, Init, PeriodInv, Outside
<1>2. PeriodInv /\ [PeriodNext]_pvars =>
        [\A p \in Procs : Extends(p) => p \notin extended]_pvars
  <2> SUFFICES ASSUME PeriodInv, NEW p \in Procs, Extends(p) PROVE p \notin extended
      OBVIOUS
  <2> QED BY DEF PeriodInv, Outside, Extends, StoreLastFailure, At
<1> QED BY <1>1, <1>2, StepPeriodInv, PTL DEF PeriodSpec, ExtendedOnce
=============================================================================
