--------------------------- MODULE RateLimitGroup ---------------------------
(***************************************************************************)
(* Two RateLimit middlewares from one provider, as in                      *)
(* examples/middleware/main.go: one for all routes and a second, with a    *)
(* stricter rate, for a group.  The provider has one rate limiter, made by *)
(* the first call, and Group copies the middleware of its parent: a        *)
(* request to the group asks the same bucket twice, and other requests may *)
(* come between the two.  The rate the group asks for is in no action.     *)
(***************************************************************************)
EXTENDS RateLimiter

CONSTANTS GroupRate, \* requests per period that the second RateLimit is given
          MaxPending \* bound on the group requests under way, for TLC only

ASSUME GroupAssumption == GroupRate \in Nat \ {0} /\ MaxPending \in Nat

VARIABLES pending, \* group requests that have passed the first middleware
          served   \* history: those that passed the second one in the window

group == <<pending, served>>

MInit ==
  /\ Init
  /\ pending = [k \in Keys |-> 0]
  /\ served = [k \in Keys |-> 0]

\* A request to a route outside the group.
RootRequest(k) == Allow(k) /\ UNCHANGED group

\* The first middleware of a group request.
GroupFirst(k) ==
  /\ pending[k] < MaxPending
  /\ Admit(k)
  /\ pending' = [pending EXCEPT ![k] = @ + 1]
  /\ UNCHANGED served

GroupFirstRejected(k) == Reject(k) /\ UNCHANGED group

\* The second one.
GroupSecond(k) ==
  /\ pending[k] > 0
  /\ Admit(k)
  /\ pending' = [pending EXCEPT ![k] = @ - 1]
  /\ served' = [served EXCEPT ![k] = @ + 1]

GroupSecondRejected(k) ==
  /\ pending[k] > 0
  /\ pending' = [pending EXCEPT ![k] = @ - 1]
  /\ Reject(k)
  /\ UNCHANGED served

Passing == (Cleanup \/ Tick) /\ UNCHANGED group

\* A new window begins.
Window(k) ==
  /\ Reset(k) \/ Observe(k)
  /\ served' = [served EXCEPT ![k] = 0]
  /\ UNCHANGED pending

Asks(k) ==
  \/ RootRequest(k) \/ GroupFirst(k) \/ GroupFirstRejected(k)
  \/ GroupSecond(k) \/ GroupSecondRejected(k)

MNext == (\E k \in Keys : Asks(k) \/ Window(k)) \/ Passing

mvars == <<vars, group>>

MSpec == MInit /\ [][MNext]_mvars

-----------------------------------------------------------------------------
(* What the documentation says and the code does not do.                   *)
\* examples/example.md:133, "stricter rate limit": no window lets more requests of
\* the group through than the rate the group was given.
GroupLimited ==
  \A k \in Keys :
    Period * served[k] <= Period * GroupRate + GroupRate * (now - since[k])
=============================================================================
