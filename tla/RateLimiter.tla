---------------------------- MODULE RateLimiter -----------------------------
(***************************************************************************)
(* The token buckets of middleware_rate_limiter.go.  Allow, Reset and one  *)
(* round of cleanup each hold rl.mu throughout, so each is one action.     *)
(* Tokens are kept in units of 1/Scale, as in the code; refillBucket adds  *)
(* the tokens of the elapsed time and truncates.  Its float64 arithmetic   *)
(* is exact here.  Left out: the metrics, the statistics, GetQuota, which  *)
(* only reads, and localAllow and distributedAllow, which nothing calls.   *)
(***************************************************************************)
EXTENDS Integers

CONSTANTS Keys,    \* client addresses
          MaxRate, \* rl.maxRate: tokens per period
          Period,  \* rl.per, in clock ticks
          Scale,   \* tokenScale (1000)
          MaxTime  \* bound on the clock, for TLC only

ASSUME RateAssumption ==
  /\ MaxRate \in Nat \ {0} /\ Period \in Nat \ {0}
  /\ Scale \in Nat \ {0} /\ MaxTime \in Nat

VARIABLES buckets,    \* keys of rl.buckets
          tokens,     \* bucket.tokens, 0 without a bucket
          lastRefill, \* bucket.lastRefill, 0 without a bucket
          now,        \* time.Now()
          since,      \* history: start of an observed window, for each key
          admitted    \* history: requests let through in that window

vars == <<buckets, tokens, lastRefill, now, since, admitted>>

Capacity == MaxRate * Scale

TypeOK ==
  /\ buckets \subseteq Keys
  /\ tokens \in [Keys -> 0 .. Capacity]
  /\ lastRefill \in [Keys -> Nat]
  /\ now \in Nat
  /\ since \in [Keys -> Nat]
  /\ admitted \in [Keys -> Nat]

Init ==
  /\ buckets = {}
  /\ tokens = [k \in Keys |-> 0]
  /\ lastRefill = [k \in Keys |-> 0]
  /\ now = 0
  /\ since = [k \in Keys |-> 0]
  /\ admitted = [k \in Keys |-> 0]

-----------------------------------------------------------------------------
Smaller(a, b) == IF a <= b THEN a ELSE b

\* Mutant: the elapsed time is counted in whole periods.
RefilledWhole(k) ==
  IF k \notin buckets THEN Capacity
  ELSE Smaller(Capacity, tokens[k] + ((now - lastRefill[k]) \div Period) * Capacity)

\* Mutant: the refill is rounded down to whole tokens.
RefilledTokens(k) ==
  IF k \notin buckets THEN Capacity
  ELSE Smaller(Capacity,
         tokens[k] + Scale * (((now - lastRefill[k]) * MaxRate) \div Period))

\* refillBucket: the tokens Allow finds, of a new bucket, which is full, or after a refill.
Refilled(k) ==
  IF k \notin buckets THEN Capacity
  ELSE Smaller(Capacity, tokens[k] + ((now - lastRefill[k]) * Capacity) \div Period)

Touch(k, left) ==
  /\ buckets' = buckets \union {k}
  /\ tokens' = [tokens EXCEPT ![k] = left]
  /\ lastRefill' = [lastRefill EXCEPT ![k] = now]
  /\ UNCHANGED <<now, since>>

\* Allow returns true.
Admit(k) ==
  /\ Refilled(k) >= Scale
  /\ Touch(k, Refilled(k) - Scale)
  /\ admitted' = [admitted EXCEPT ![k] = @ + 1]

\* Allow returns false.
Reject(k) ==
  /\ Refilled(k) < Scale
  /\ Touch(k, Refilled(k))
  /\ UNCHANGED admitted

Drop(ks) ==
  /\ buckets' = buckets \ ks
  /\ tokens' = [k \in Keys |-> IF k \in ks THEN 0 ELSE tokens[k]]
  /\ lastRefill' = [k \in Keys |-> IF k \in ks THEN 0 ELSE lastRefill[k]]
  /\ UNCHANGED now

\* Reset makes the next bucket a full one, so the observed window starts anew.
Reset(k) ==
  /\ Drop({k})
  /\ since' = [since EXCEPT ![k] = now]
  /\ admitted' = [admitted EXCEPT ![k] = 0]

\* Mutant: buckets are dropped after half a period.
StaleEarly == {k \in buckets : 2 * (now - lastRefill[k]) > Period}

Stale == {k \in buckets : now - lastRefill[k] > 2 * Period}

Cleanup == Drop(Stale) /\ UNCHANGED <<since, admitted>>

Tick ==
  /\ now < MaxTime
  /\ now' = now + 1
  /\ UNCHANGED <<buckets, tokens, lastRefill, since, admitted>>

\* Start observing k: the properties hold from every moment on.
Observe(k) ==
  /\ since' = [since EXCEPT ![k] = now]
  /\ admitted' = [admitted EXCEPT ![k] = 0]
  /\ UNCHANGED <<buckets, tokens, lastRefill, now>>

Allow(k) == Admit(k) \/ Reject(k)

Next ==
  \/ \E k \in Keys : Allow(k) \/ Reset(k) \/ Observe(k)
  \/ Cleanup \/ Tick

Spec == Init /\ [][Next]_vars

-----------------------------------------------------------------------------
\* A burst of MaxRate and after that MaxRate requests per Period: in no window,
\* whenever it starts, is a client let through more often.  Dropping idle
\* buckets (cleanup) and creating them full does not help it.
WindowBound ==
  \A k \in Keys :
    Period * admitted[k] <= Period * MaxRate + MaxRate * (now - since[k])

\* A client that has been silent for the time of one token is let through:
\* truncation takes tokens only from those that ask again sooner.
RejectedOnlyIfHasty ==
  [][\A k \in Keys : Reject(k) => (now - lastRefill[k]) * MaxRate < Period]_vars

-----------------------------------------------------------------------------
(* The inductive invariant behind WindowBound.                             *)
\* What is in the bucket and what was taken out in the window came from the
\* burst and from the time up to the last refill.
BalanceOf(k) ==
  IF k \notin buckets
  THEN Period * admitted[k] <= MaxRate * (now - since[k])
  ELSE IF lastRefill[k] < since[k]
  THEN admitted[k] = 0
  ELSE Period * (Scale * admitted[k] + tokens[k])
         <= Period * Capacity + Capacity * (lastRefill[k] - since[k])

Balance == \A k \in Keys : BalanceOf(k)

TimesOK ==
  \A k \in Keys : lastRefill[k] <= now /\ since[k] <= now

IInv == TypeOK /\ TimesOK /\ Balance
=============================================================================
