------------------------------- MODULE Breaker -------------------------------
(***************************************************************************)
(* What a circuit breaker promises a caller: every probe, failure and      *)
(* success takes effect at once.  It opens after Threshold failures with   *)
(* no success between them, may be probed once ResetTimeout has passed,    *)
(* opens again on the first failure of a probe and closes after            *)
(* HalfOpenMax successes.  A failure is stamped with a time between the    *)
(* previous failure and now.                                               *)
(***************************************************************************)
EXTENDS Integers

CONSTANTS Threshold, HalfOpenMax, ResetTimeout

VARIABLES mode, strikes, passes, lastStrike, clock

breaker == <<mode, strikes, passes, lastStrike>>

Init ==
  /\ mode = "closed"
  /\ strikes = 0
  /\ passes = 0
  /\ lastStrike = 0
  /\ clock = 0

Probe ==
  /\ mode = "open"
  /\ clock - lastStrike > ResetTimeout
  /\ mode' = "halfOpen"
  /\ passes' = 0
  /\ UNCHANGED <<strikes, lastStrike, clock>>

Fail ==
  /\ mode # "open"
  /\ strikes' = strikes + 1
  /\ mode' = IF mode = "halfOpen" \/ strikes' >= Threshold THEN "open" ELSE mode
  /\ lastStrike' \in lastStrike .. clock
  /\ UNCHANGED <<passes, clock>>

SucceedClosed ==
  /\ mode = "closed"
  /\ strikes' = 0
  /\ UNCHANGED <<mode, passes, lastStrike, clock>>

SucceedHalfOpen ==
  /\ mode = "halfOpen"
  /\ IF passes + 1 >= HalfOpenMax
     THEN mode' = "closed" /\ strikes' = 0 /\ passes' = 0
     ELSE passes' = passes + 1 /\ UNCHANGED <<mode, strikes>>
  /\ UNCHANGED <<lastStrike, clock>>

Pass == clock' = clock + 1 /\ UNCHANGED breaker

Next == Probe \/ Fail \/ SucceedClosed \/ SucceedHalfOpen \/ Pass

Spec == Init /\ [][Next]_<<breaker, clock>>
=============================================================================
