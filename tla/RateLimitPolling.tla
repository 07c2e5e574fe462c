-------------------------- MODULE RateLimitPolling --------------------------
(***************************************************************************)
(* What truncation costs a client that keeps asking while it is refused.   *)
(* Every refusal refills the bucket, rounds down to a whole unit and       *)
(* starts the clock anew, so the fraction of a unit is lost; a client that *)
(* polls faster than one unit per poll never gets a token.  History        *)
(* variables over RateLimitGroup tell how long a client has waited and how *)
(* often it was refused meanwhile, by either middleware.                   *)
(***************************************************************************)
EXTENDS RateLimitGroup

CONSTANT MaxPolls \* bound on the refusals in a row, for TLC only

ASSUME PollsAssumption == MaxPolls \in Nat

VARIABLES letIn, \* history: when the client was last let through
          polls  \* history: refusals since then

PInit == MInit /\ letIn = [k \in Keys |-> 0] /\ polls = [k \in Keys |-> 0]

PAdmit(k) ==
  /\ Admit(k)
  /\ letIn' = [letIn EXCEPT ![k] = now]
  /\ polls' = [polls EXCEPT ![k] = 0]

PReject(k) ==
  /\ polls[k] < MaxPolls
  /\ Reject(k)
  /\ polls' = [polls EXCEPT ![k] = @ + 1]
  /\ UNCHANGED letIn

\* Nothing else looks at the bucket: a dropped one is made anew, and full.
Between ==
  /\ (\E k \in Keys : Window(k)) \/ Passing
  /\ UNCHANGED <<letIn, polls>>

PNext == (\E k \in Keys : Asks(k) /\ (PAdmit(k) \/ PReject(k))) \/ Between

pvars == <<mvars, letIn, polls>>

PSpec == PInit /\ [][PNext]_pvars

-----------------------------------------------------------------------------
\* A refusal costs a waiting client less than one unit of 1/Scale token: it is
\* let through as soon as it has waited for its token and one unit more for each
\* time it was refused in between, however the polls and refills fall.
PollCostsOneUnit ==
  [][\A k \in Keys :
       PReject(k) => Capacity * (now - letIn[k]) < Period * (Scale + polls[k])]_pvars

-----------------------------------------------------------------------------
(* The inductive part: what was added since the last request let through,  *)
(* and a unit for each refusal, is worth the time up to the last refill.   *)
PTypeOK == letIn \in [Keys -> Nat] /\ polls \in [Keys -> Nat]

Worth ==
  \A k \in buckets :
    Capacity * (lastRefill[k] - letIn[k]) <= Period * (tokens[k] + polls[k])

PInv == PTypeOK /\ Worth
=============================================================================
