------------------------- MODULE RateLimiter_proofs -------------------------
(***************************************************************************)
(* No client is let through more often than its rate allows, for any rate, *)
(* period and token scale, and whatever truncation loses; two middlewares  *)
(* on one limiter keep that promise.  What truncation takes from a client  *)
(* that polls is one unit for each refusal.                                *)
(***************************************************************************)
EXTENDS RateLimitPolling, TLAPS

LEMMA DivBound ==
  ASSUME NEW a \in Nat, NEW p \in Nat \ {0}
  PROVE  a \div p \in Nat /\ p * (a \div p) <= a /\ a < p * (a \div p) + p
  OBVIOUS

LEMMA DivAtLeast ==
  ASSUME NEW a \in Nat, NEW p \in Nat \ {0}, NEW s \in Nat, p * s <= a
  PROVE  s <= a \div p
  OBVIOUS

LEMMA Times ==
  ASSUME NEW s \in Nat, NEW a \in Int, NEW b \in Int, a <= b
  PROVE  s * a <= s * b
  OBVIOUS

LEMMA Cancel ==
  ASSUME NEW s \in Nat \ {0}, NEW a \in Int, NEW b \in Int, s * a <= s * b
  PROVE  a <= b
  OBVIOUS

LEMMA NatProduct ==
  ASSUME NEW a \in Nat, NEW b \in Nat
  PROVE  a * b \in Nat
  OBVIOUS

-----------------------------------------------------------------------------
LEMMA CapacityOK == Capacity \in Nat \ {0} /\ Scale <= Capacity
  BY RateAssumption DEF Capacity

\* A refill neither overflows the bucket nor adds more than the elapsed time is
\* worth, and adds at least what it is worth in whole units.
LEMMA RefillOK ==
  ASSUME TypeOK, TimesOK, NEW k \in Keys
  PROVE  /\ Refilled(k) \in 0 .. Capacity
         /\ k \in buckets => Period * Refilled(k)
                               <= Period * tokens[k] + Capacity * (now - lastRefill[k])
<1> DEFINE worth == (now - lastRefill[k]) * Capacity
<1>1. now - lastRefill[k] \in Nat /\ tokens[k] \in 0 .. Capacity
  BY DEF TypeOK, TimesOK
<1>2. worth \in Nat
  BY <1>1, CapacityOK, NatProduct
<1>3. worth \div Period \in Nat /\ Period * (worth \div Period) <= worth
  BY <1>2, DivBound, RateAssumption
<1>4. Refilled(k) = IF k \notin buckets THEN Capacity
                    ELSE Smaller(Capacity, tokens[k] + worth \div Period)
  BY DEF Refilled
<1>5. worth = Capacity * (now - lastRefill[k])
  BY <1>1, CapacityOK
<1> HIDE DEF worth
<1>6. Refilled(k) \in 0 .. Capacity
  BY <1>1, <1>3, <1>4, CapacityOK DEF Smaller
<1>7. ASSUME k \in buckets PROVE Period * Refilled(k) <= Period * tokens[k] + worth
  <2>1. Refilled(k) <= tokens[k] + worth \div Period
    BY <1>1, <1>3, <1>4, <1>7, CapacityOK DEF Smaller
  <2>2. Period * Refilled(k) <= Period * (tokens[k] + worth \div Period)
    BY <1>1, <1>3, <1>6, <2>1, Times, RateAssumption
  <2>3. Period * (tokens[k] + worth \div Period)
          = Period * tokens[k] + Period * (worth \div Period)
    BY <1>1, <1>3, RateAssumption
  <2> QED BY <1>1, <1>2, <1>3, <1>6, <2>2, <2>3, NatProduct, RateAssumption
<1> QED BY <1>5, <1>6, <1>7

-----------------------------------------------------------------------------
LEMMA StepTypeOK == IInv /\ [Next]_vars => TypeOK' /\ TimesOK'
<1> SUFFICES ASSUME IInv, [Next]_vars PROVE TypeOK' /\ TimesOK'
    OBVIOUS
<1> USE RateAssumption, CapacityOK DEF IInv, TypeOK, TimesOK
<1>1. ASSUME NEW k \in Keys, Allow(k) PROVE TypeOK' /\ TimesOK'
  <2>1. Refilled(k) \in 0 .. Capacity
    BY RefillOK
  <2>2. CASE Admit(k)
    <3>1. Refilled(k) - Scale \in 0 .. Capacity
      BY <2>1, <2>2 DEF Admit
    <3> QED BY <2>2, <3>1 DEF Admit, Touch
  <2>3. CASE Reject(k)
    BY <2>1, <2>3 DEF Reject, Touch
  <2> QED BY <1>1, <2>2, <2>3 DEF Allow
<1>2. ASSUME NEW k \in Keys, Reset(k) PROVE TypeOK' /\ TimesOK'
  BY <1>2 DEF Reset, Drop
<1>3. ASSUME NEW k \in Keys, Observe(k) PROVE TypeOK' /\ TimesOK'
  BY <1>3 DEF Observe
<1>4. CASE Cleanup
  BY <1>4 DEF Cleanup, Drop
<1>5. CASE Tick
  BY <1>5 DEF Tick
<1>6. CASE UNCHANGED vars
  BY <1>6 DEF vars
<1> QED BY <1>1, <1>2, <1>3, <1>4, <1>5, <1>6 DEF Next

-----------------------------------------------------------------------------
(* The balance of one bucket across a call of Allow that leaves `left` in  *)
(* it and lets n more requests through.                                    *)
LEMMA AllowBalance ==
  ASSUME IInv, NEW k \in Keys, NEW left \in Nat, NEW n \in Nat,
         Touch(k, left), Refilled(k) = left + n * Scale,
         admitted' = [admitted EXCEPT ![k] = @ + n]
  PROVE  BalanceOf(k)'
<1> DEFINE a == admitted[k]
           lr == lastRefill[k]
           s == since[k]
           C == Capacity
<1>1. /\ a \in Nat /\ lr \in Nat /\ s \in Nat /\ now \in Nat /\ C \in Nat
      /\ lr <= now /\ s <= now /\ tokens[k] \in Nat
  BY CapacityOK DEF IInv, TypeOK, TimesOK
<1>2. /\ k \in buckets' /\ tokens'[k] = left /\ lastRefill'[k] = now
      /\ since'[k] = s /\ now' = now /\ admitted'[k] = a + n
  BY DEF Touch, IInv, TypeOK
<1>3. left + n * Scale \in 0 .. C
  BY RefillOK DEF IInv
<1>4. SUFFICES Period * (Scale * (a + n) + left) <= Period * C + C * (now - s)
  BY <1>1, <1>2 DEF BalanceOf, Capacity
<1>5. Scale * (a + n) + left = Scale * a + (left + n * Scale)
  BY <1>1, RateAssumption
<1>6. Period * (Scale * (a + n) + left) = Period * (Scale * a) + Period * Refilled(k)
  BY <1>1, <1>3, <1>5, RateAssumption, NatProduct
<1>7. Period * Refilled(k) <= Period * C
  BY <1>1, <1>3, Times, RateAssumption
<1>8. Balance /\ BalanceOf(k)
  BY DEF IInv, Balance
<1>9. Period \in Nat /\ Scale \in Nat /\ MaxRate \in Nat /\ Capacity = MaxRate * Scale
  BY RateAssumption DEF Capacity
<1>10. CASE k \notin buckets
  <2>1. Period * a <= MaxRate * (now - s)
    BY <1>8, <1>10 DEF BalanceOf
  <2>2. Scale * (Period * a) <= Scale * (MaxRate * (now - s))
    BY <1>1, <1>9, <2>1, Times, NatProduct
  <2>3. Scale * (Period * a) = Period * (Scale * a)
    BY <1>1, <1>9
  <2>4. Scale * (MaxRate * (now - s)) = C * (now - s)
    BY <1>1, <1>9
  <2> HIDE DEF C
  <2> QED BY <1>1, <1>3, <1>6, <1>7, <1>9, <2>2, <2>3, <2>4, NatProduct
<1>11. CASE k \in buckets /\ lr < s
  <2>1. a = 0
    BY <1>8, <1>11 DEF BalanceOf
  <2>2. /\ Period * (Scale * a) = 0 /\ C * (now - s) \in Nat
        /\ Period * C \in Nat /\ Period * Refilled(k) \in Nat
    BY <1>1, <1>3, <1>9, <2>1, NatProduct
  <2> HIDE DEF C
  <2> QED BY <1>6, <1>7, <2>2
<1>12. CASE k \in buckets /\ s <= lr
  <2>1. Period * (Scale * a + tokens[k]) <= Period * C + C * (lr - s)
    BY <1>1, <1>8, <1>12 DEF BalanceOf
  <2>2. Period * (Scale * a + tokens[k]) = Period * (Scale * a) + Period * tokens[k]
    BY <1>1, <1>9
  <2>3. Period * Refilled(k) <= Period * tokens[k] + C * (now - lr)
    BY <1>12, RefillOK DEF IInv
  <2>4. C * (lr - s) + C * (now - lr) = C * (now - s)
    BY <1>1
  <2>5. /\ Period * (Scale * a) \in Nat /\ Period * tokens[k] \in Nat
        /\ C * (lr - s) \in Int /\ C * (now - lr) \in Int /\ C * (now - s) \in Int
        /\ Period * C \in Nat /\ Period * Refilled(k) \in Nat
    BY <1>1, <1>3, <1>9, NatProduct
  <2> HIDE DEF C
  <2> QED BY <1>6, <2>1, <2>2, <2>3, <2>4, <2>5
<1> QED BY <1>1, <1>10, <1>11, <1>12

-----------------------------------------------------------------------------
\* A bucket that cleanup drops had been idle long enough to be full.
LEMMA CleanupBalance ==
  ASSUME IInv, Cleanup, NEW k \in Keys
  PROVE  BalanceOf(k)'
<1> DEFINE a == admitted[k]
           d == now - since[k]
<1>1. /\ a \in Nat /\ d \in Nat /\ lastRefill[k] \in Nat /\ now \in Nat
      /\ since[k] \in Nat /\ tokens[k] \in Nat /\ BalanceOf(k)
  BY CapacityOK DEF IInv, TypeOK, TimesOK, Balance
<1>2. /\ MaxRate \in Nat /\ Period \in Nat \ {0} /\ Scale \in Nat \ {0}
      /\ Capacity = MaxRate * Scale /\ Capacity \in Nat
  BY RateAssumption, CapacityOK DEF Capacity
<1>3. admitted' = admitted /\ since' = since /\ now' = now
  BY DEF Cleanup, Drop
<1>4. CASE k \notin Stale
  <2>1. /\ k \in buckets' <=> k \in buckets
        /\ tokens'[k] = tokens[k] /\ lastRefill'[k] = lastRefill[k]
    BY <1>4 DEF Cleanup, Drop, IInv, TypeOK
  <2> QED BY <1>1, <1>3, <2>1 DEF BalanceOf, Capacity
<1>5. CASE k \in Stale
  <2>1. k \in buckets /\ k \notin buckets' /\ now - lastRefill[k] > 2 * Period
    BY <1>5 DEF Cleanup, Drop, Stale
  <2>2. SUFFICES Period * a <= MaxRate * d
    BY <1>3, <2>1 DEF BalanceOf
  <2>3. CASE lastRefill[k] < since[k]
    <3>1. a = 0
      BY <1>1, <2>1, <2>3 DEF BalanceOf
    <3> QED BY <1>1, <1>2, <3>1, NatProduct
  <2>4. CASE lastRefill[k] >= since[k]
    <3> DEFINE e == lastRefill[k] - since[k]
    <3>1. e \in Nat /\ Period + e <= d
      BY <1>1, <1>2, <2>1, <2>4
    <3>2. Period * (Scale * a + tokens[k]) <= Period * Capacity + Capacity * e
      BY <1>1, <2>1, <2>4 DEF BalanceOf
    <3> HIDE DEF e, d, a
    <3>3. Period * (Scale * a + tokens[k]) = Scale * (Period * a) + Period * tokens[k]
      BY <1>1, <1>2
    <3>4. Period * Capacity + Capacity * e = Scale * (MaxRate * (Period + e))
      BY <1>2, <3>1
    <3>5. Period * tokens[k] \in Nat /\ Period * a \in Nat
          /\ MaxRate * (Period + e) \in Nat /\ MaxRate * d \in Nat
      BY <1>1, <1>2, <3>1, NatProduct
    <3>6. /\ Scale * (Period * a) \in Nat
          /\ Scale * (MaxRate * (Period + e)) \in Nat
      BY <1>2, <3>5, NatProduct
    <3>7. Scale * (Period * a) <= Scale * (MaxRate * (Period + e))
      BY <3>2, <3>3, <3>4, <3>5, <3>6
    <3>8. Period * a <= MaxRate * (Period + e)
      BY <1>2, <3>5, <3>7, Cancel
    <3>9. MaxRate * (Period + e) <= MaxRate * d
      BY <1>1, <1>2, <3>1, Times
    <3> QED BY <3>5, <3>8, <3>9
  <2> QED BY <1>1, <2>3, <2>4
<1> QED BY <1>4, <1>5

\* The balance of a bucket bounds what was taken out of it.
LEMMA BalanceBound ==
  ASSUME IInv, NEW k \in Keys
  PROVE  Period * admitted[k] <= Period * MaxRate + MaxRate * (now - since[k])
<1> DEFINE a == admitted[k]
           d == now - since[k]
<1>1. /\ a \in Nat /\ d \in Nat /\ lastRefill[k] \in Nat /\ now \in Nat
      /\ since[k] \in Nat /\ tokens[k] \in Nat /\ BalanceOf(k)
      /\ lastRefill[k] <= now
  BY CapacityOK DEF IInv, TypeOK, TimesOK, Balance
<1>2. /\ MaxRate \in Nat /\ Period \in Nat \ {0} /\ Scale \in Nat \ {0}
      /\ Capacity = MaxRate * Scale /\ Capacity \in Nat
  BY RateAssumption, CapacityOK DEF Capacity
<1>3. Period * MaxRate \in Nat /\ MaxRate * d \in Nat /\ Period * a \in Nat
  BY <1>1, <1>2, NatProduct
<1>4. CASE k \notin buckets
  BY <1>1, <1>3, <1>4 DEF BalanceOf
<1>5. CASE k \in buckets /\ lastRefill[k] < since[k]
  <2>1. a = 0
    BY <1>1, <1>5 DEF BalanceOf
  <2> QED BY <1>2, <1>3, <2>1
<1>6. CASE k \in buckets /\ lastRefill[k] >= since[k]
  <2> SUFFICES Period * a <= Period * MaxRate + MaxRate * d
      OBVIOUS
  <2> DEFINE e == lastRefill[k] - since[k]
  <2>1. e \in Nat /\ e <= d
    BY <1>1, <1>6
  <2>2. Period * (Scale * a + tokens[k]) <= Period * Capacity + Capacity * e
    BY <1>1, <1>6 DEF BalanceOf
  <2> HIDE DEF e, d, a
  <2>3. Period * (Scale * a + tokens[k]) = Scale * (Period * a) + Period * tokens[k]
    BY <1>1, <1>2
  <2>4. Period * Capacity + Capacity * e = Scale * (MaxRate * (Period + e))
    BY <1>2, <2>1
  <2>5. Period * tokens[k] \in Nat /\ MaxRate * (Period + e) \in Nat
    BY <1>1, <1>2, <2>1, NatProduct
  <2>6. Scale * (Period * a) \in Nat /\ Scale * (MaxRate * (Period + e)) \in Nat
    BY <1>2, <1>3, <2>5, NatProduct
  <2>7. Scale * (Period * a) <= Scale * (MaxRate * (Period + e))
    BY <2>2, <2>3, <2>4, <2>5, <2>6
  <2>8. Period * a <= MaxRate * (Period + e)
    BY <1>2, <1>3, <2>5, <2>7, Cancel
  <2>9. MaxRate * (Period + e) <= MaxRate * (Period + d)
    BY <1>1, <1>2, <2>1, Times
  <2>10. MaxRate * (Period + d) = Period * MaxRate + MaxRate * d
    BY <1>1, <1>2
  <2> QED BY <1>3, <2>5, <2>8, <2>9, <2>10
<1> QED BY <1>1, <1>4, <1>5, <1>6

LEMMA StepBalance == IInv /\ [Next]_vars => Balance'
<1> SUFFICES ASSUME IInv, [Next]_vars, NEW k \in Keys PROVE BalanceOf(k)'
    BY DEF Balance
<1>0. /\ TypeOK /\ TimesOK /\ BalanceOf(k)
      /\ MaxRate \in Nat /\ Period \in Nat /\ Scale \in Nat /\ Capacity \in Nat
      /\ Capacity = MaxRate * Scale
  BY CapacityOK, RateAssumption DEF IInv, Balance, Capacity
<1>1. ASSUME NEW i \in Keys, Allow(i) PROVE BalanceOf(k)'
  <2>1. CASE i = k /\ Admit(k)
    <3>1. Refilled(k) - Scale \in Nat /\ Refilled(k) = (Refilled(k) - Scale) + 1 * Scale
      BY <1>0, <2>1, RefillOK DEF Admit
    <3> QED BY <2>1, <3>1, AllowBalance DEF Admit
  <2>2. CASE i = k /\ Reject(k)
    <3>1. Refilled(k) \in Nat /\ Refilled(k) = Refilled(k) + 0 * Scale
      BY <1>0, RefillOK
    <3>2. admitted' = [admitted EXCEPT ![k] = @ + 0]
      BY <1>0, <2>2 DEF Reject, TypeOK
    <3> QED BY <2>2, <3>1, <3>2, AllowBalance DEF Reject
  <2>3. CASE i # k
    BY <1>0, <1>1, <2>3 DEF Allow, Admit, Reject, Touch, BalanceOf, TypeOK, Capacity
  <2> QED BY <1>1, <2>1, <2>2, <2>3 DEF Allow
<1>2. ASSUME NEW i \in Keys, Reset(i) PROVE BalanceOf(k)'
  <2>1. CASE i = k
    <3>1. k \notin buckets' /\ admitted'[k] = 0 /\ now' - since'[k] = 0
      BY <1>0, <1>2, <2>1 DEF Reset, Drop, TypeOK
    <3> QED BY <1>0, <3>1 DEF BalanceOf
  <2>2. CASE i # k
    BY <1>0, <1>2, <2>2 DEF Reset, Drop, BalanceOf, TypeOK, Capacity
  <2> QED BY <2>1, <2>2
<1>3. ASSUME NEW i \in Keys, Observe(i) PROVE BalanceOf(k)'
  <2>1. CASE i = k
    <3>1. /\ admitted'[k] = 0 /\ now' - since'[k] = 0 /\ since'[k] = now
          /\ tokens' = tokens /\ lastRefill' = lastRefill /\ buckets' = buckets
      BY <1>0, <1>3, <2>1 DEF Observe, TypeOK
    <3>2. lastRefill[k] <= now /\ lastRefill[k] \in Nat /\ now \in Nat
          /\ tokens[k] \in 0 .. Capacity
      BY <1>0 DEF TypeOK, TimesOK
    <3>3. Period * tokens[k] <= Period * Capacity
      BY <1>0, <3>2, Times
    <3>4. CASE k \notin buckets
      BY <1>0, <3>1, <3>4 DEF BalanceOf
    <3>5. CASE k \in buckets /\ lastRefill[k] < now
      BY <3>1, <3>5 DEF BalanceOf
    <3>6. CASE k \in buckets /\ lastRefill[k] = now
      <4>1. /\ Scale * admitted'[k] + tokens'[k] = tokens[k]
            /\ lastRefill'[k] = since'[k] /\ lastRefill'[k] - since'[k] = 0
            /\ Capacity' = Capacity
        BY <1>0, <3>1, <3>2, <3>6 DEF Capacity
      <4>2. Capacity * 0 = 0 /\ Period * Capacity \in Nat
        BY <1>0, NatProduct
      <4> HIDE DEF Capacity
      <4> QED BY <3>1, <3>2, <3>3, <3>6, <4>1, <4>2 DEF BalanceOf
    <3> QED BY <3>2, <3>4, <3>5, <3>6
  <2>2. CASE i # k
    BY <1>0, <1>3, <2>2 DEF Observe, BalanceOf, TypeOK, Capacity
  <2> QED BY <2>1, <2>2
<1>4. CASE Cleanup
  BY <1>0, <1>4, CleanupBalance DEF IInv
<1>5. CASE Tick
  <2>1. /\ buckets' = buckets /\ tokens' = tokens /\ lastRefill' = lastRefill
        /\ since' = since /\ admitted' = admitted /\ now' = now + 1
        /\ now \in Nat /\ since[k] \in Nat /\ admitted[k] \in Nat
    BY <1>0, <1>5 DEF Tick, TypeOK
  <2>2. MaxRate * (now - since[k]) <= MaxRate * (now + 1 - since[k])
    BY <1>0, <2>1, Times
  <2>3. /\ Period * admitted[k] \in Nat /\ MaxRate * (now - since[k]) \in Int
        /\ MaxRate * (now + 1 - since[k]) \in Int
    BY <1>0, <2>1, NatProduct
  <2> QED BY <1>0, <2>1, <2>2, <2>3 DEF BalanceOf, Capacity
<1>6. CASE UNCHANGED vars
  BY <1>0, <1>6 DEF vars, BalanceOf, Capacity
<1> QED BY <1>1, <1>2, <1>3, <1>4, <1>5, <1>6 DEF Next

LEMMA InitIInv == Init => IInv
<1> SUFFICES ASSUME Init PROVE IInv
    OBVIOUS
<1>1. TypeOK /\ TimesOK
  BY CapacityOK DEF Init, TypeOK, TimesOK
<1>2. ASSUME NEW k \in Keys PROVE BalanceOf(k)
  <2>1. k \notin buckets /\ admitted[k] = 0 /\ now - since[k] = 0
    BY DEF Init
  <2> QED BY <2>1, RateAssumption DEF BalanceOf
<1> QED BY <1>1, <1>2 DEF IInv, Balance

\* The buckets' contents, their times and their balance are inductive.
THEOREM Inductive == Spec => []IInv
<1>1. IInv /\ [Next]_vars => IInv'
  BY StepTypeOK, StepBalance DEF IInv
<1> QED BY InitIInv, <1>1, PTL DEF Spec

\* In every window a client is let through at most MaxRate times, and MaxRate
\* times per Period.
THEOREM Limited == Spec => []WindowBound
<1>1. IInv => WindowBound
  <2> SUFFICES ASSUME IInv, NEW k \in Keys
               PROVE  Period * admitted[k] <= Period * MaxRate + MaxRate * (now - since[k])
      BY DEF WindowBound
  <2> QED BY BalanceBound
<1> QED BY <1>1, Inductive, PTL

\* A client that has been silent for the time of one token is let through.
THEOREM Patient == Spec => RejectedOnlyIfHasty
<1>1. ASSUME IInv, NEW k \in Keys, Reject(k)
      PROVE  (now - lastRefill[k]) * MaxRate < Period
  <2> DEFINE d == now - lastRefill[k]
  <2>1. d \in Nat /\ tokens[k] \in 0 .. Capacity
    BY <1>1 DEF IInv, TypeOK, TimesOK
  <2>2. /\ MaxRate \in Nat /\ Period \in Nat \ {0} /\ Scale \in Nat \ {0}
        /\ Capacity = MaxRate * Scale /\ Capacity \in Nat /\ Scale <= Capacity
    BY RateAssumption, CapacityOK DEF Capacity
  <2>3. Refilled(k) < Scale
    BY <1>1 DEF Reject
  <2>4. k \in buckets
    BY <2>2, <2>3 DEF Refilled
  <2>5. Refilled(k) = Smaller(Capacity, tokens[k] + (d * Capacity) \div Period)
    BY <2>4 DEF Refilled
  <2> SUFFICES ASSUME d * MaxRate >= Period PROVE FALSE
      BY <2>1, <2>2
  <2> HIDE DEF d
  <2>6. d * MaxRate \in Nat /\ d * Capacity \in Nat /\ Period * Scale \in Nat
    BY <2>1, <2>2, NatProduct
  <2>7. Scale * Period <= Scale * (d * MaxRate)
    BY <2>2, <2>6, Times
  <2>8. Scale * (d * MaxRate) = d * Capacity /\ Scale * Period = Period * Scale
    BY <2>1, <2>2
  <2>9. Scale <= (d * Capacity) \div Period
    BY <2>2, <2>6, <2>7, <2>8, DivAtLeast
  <2>10. (d * Capacity) \div Period \in Nat
    BY <2>2, <2>6, DivBound
  <2> QED BY <2>1, <2>2, <2>3, <2>5, <2>9, <2>10 DEF Smaller
<1>2. IInv /\ [Next]_vars =>
        [\A k \in Keys : Reject(k) => (now - lastRefill[k]) * MaxRate < Period]_vars
  BY <1>1
<1> QED BY <1>2, Inductive, PTL DEF Spec, RejectedOnlyIfHasty

-----------------------------------------------------------------------------
(* Two middlewares.                                                        *)
\* The middlewares use the limiter only through its own operations.
THEOREM UsesLimiter == MSpec => Spec
<1>1. MInit => Init
  BY DEF MInit
<1>2. [MNext]_mvars => [Next]_vars
  BY DEF MNext, Asks, Next, RootRequest, GroupFirst, GroupFirstRejected, GroupSecond,
         GroupSecondRejected, Window, Passing, Allow, mvars
<1> QED BY <1>1, <1>2, PTL DEF MSpec, Spec

-----------------------------------------------------------------------------
(* A client that polls.                                                    *)
\* The history does not interfere with the limiter.
THEOREM PollingUsesLimiter == PSpec => Spec
<1>1. PInit => MInit
  BY DEF PInit
<1>2. [PNext]_pvars => [MNext]_mvars
  BY DEF PNext, MNext, Between, pvars
<1>3. PSpec => MSpec
  BY <1>1, <1>2, PTL DEF PSpec, MSpec
<1> QED BY <1>3, UsesLimiter

\* What a refused client finds in its bucket, and a unit for this refusal, is worth
\* more than what it found the last time and the time since.
LEMMA RefusalLoss ==
  ASSUME TypeOK, TimesOK, NEW k \in Keys, Refilled(k) < Scale
  PROVE  /\ k \in buckets /\ Refilled(k) \in Nat
         /\ Period * tokens[k] + Capacity * (now - lastRefill[k])
              < Period * Refilled(k) + Period
<1> DEFINE worth == (now - lastRefill[k]) * Capacity
<1>1. now - lastRefill[k] \in Nat /\ tokens[k] \in Nat
  BY CapacityOK DEF TypeOK, TimesOK
<1>2. worth \in Nat /\ worth = Capacity * (now - lastRefill[k])
  BY <1>1, CapacityOK, NatProduct
<1>3. k \in buckets
  BY CapacityOK, RateAssumption DEF Refilled
<1>4. Refilled(k) = Smaller(Capacity, tokens[k] + worth \div Period)
  BY <1>3 DEF Refilled
<1> HIDE DEF worth
<1>5. worth \div Period \in Nat /\ worth < Period * (worth \div Period) + Period
  BY <1>2, DivBound, RateAssumption
<1>6. Refilled(k) = tokens[k] + worth \div Period
  BY <1>1, <1>4, <1>5, CapacityOK, RateAssumption DEF Smaller
<1>7. Period * Refilled(k) = Period * tokens[k] + Period * (worth \div Period)
  BY <1>1, <1>5, <1>6, RateAssumption
<1>8. Period * tokens[k] \in Nat /\ Period * (worth \div Period) \in Nat
  BY <1>1, <1>5, NatProduct, RateAssumption
<1> QED BY <1>1, <1>2, <1>3, <1>5, <1>6, <1>7, <1>8, RateAssumption

\* The time a client has waited, in what it is worth, at a refusal.
LEMMA RefusalWorth ==
  ASSUME IInv, PInv, NEW k \in Keys, Refilled(k) < Scale
  PROVE  /\ k \in buckets /\ Refilled(k) \in Nat
         /\ Capacity * (now - letIn[k]) < Period * (Refilled(k) + polls[k] + 1)
<1> DEFINE a == Capacity * (lastRefill[k] - letIn[k])
           b == Capacity * (now - lastRefill[k])
           t == Period * tokens[k]
           r == Period * Refilled(k)
           n == Period * polls[k]
<1>1. k \in buckets /\ Refilled(k) \in Nat /\ t + b < r + Period
  BY RefusalLoss DEF IInv
<1>2. /\ lastRefill[k] \in Nat /\ letIn[k] \in Nat /\ now \in Nat /\ tokens[k] \in Nat
      /\ polls[k] \in Nat /\ Capacity \in Nat /\ Period \in Nat
  BY CapacityOK, RateAssumption DEF IInv, TypeOK, PInv, PTypeOK
<1>3. a <= Period * (tokens[k] + polls[k])
  BY <1>1 DEF PInv, Worth
<1>4. /\ Period * (tokens[k] + polls[k]) = t + n
      /\ Period * (Refilled(k) + polls[k] + 1) = r + n + Period
      /\ Capacity * (now - letIn[k]) = a + b
  BY <1>1, <1>2
<1>5. a \in Int /\ b \in Int /\ t \in Int /\ r \in Int /\ n \in Int
  BY <1>1, <1>2, NatProduct
<1> HIDE DEF a, b, t, r, n
<1> QED BY <1>1, <1>2, <1>3, <1>4, <1>5

\* Refusals and refills keep the balance of a waiting client.
LEMMA StepPInv == IInv /\ PInv /\ [PNext]_pvars => PInv'
<1> SUFFICES ASSUME IInv, PInv, [PNext]_pvars PROVE PInv'
    OBVIOUS
<1>0. /\ tokens \in [Keys -> 0 .. Capacity] /\ lastRefill \in [Keys -> Nat] /\ now \in Nat
      /\ letIn \in [Keys -> Nat] /\ polls \in [Keys -> Nat] /\ buckets \subseteq Keys
      /\ Capacity \in Nat /\ Period \in Nat /\ Capacity' = Capacity
  BY CapacityOK, RateAssumption DEF IInv, TypeOK, PInv, PTypeOK, Capacity
<1>1. ASSUME NEW k \in Keys, PAdmit(k) PROVE PInv'
  <2>1. /\ letIn' = [letIn EXCEPT ![k] = now] /\ polls' = [polls EXCEPT ![k] = 0]
        /\ lastRefill' = [lastRefill EXCEPT ![k] = now]
        /\ tokens' = [tokens EXCEPT ![k] = Refilled(k) - Scale]
        /\ buckets' = buckets \union {k} /\ Refilled(k) >= Scale
    BY <1>1 DEF PAdmit, Admit, Touch
  <2>2. Refilled(k) - Scale \in Nat
    BY <2>1, RefillOK, RateAssumption, CapacityOK DEF IInv
  <2>3. ASSUME NEW i \in buckets'
        PROVE  Capacity * (lastRefill'[i] - letIn'[i]) <= Period * (tokens'[i] + polls'[i])
    <3>1. CASE i = k
      <4>1. lastRefill'[k] - letIn'[k] = 0 /\ tokens'[k] + polls'[k] = Refilled(k) - Scale
        BY <1>0, <2>1, <2>2
      <4>2. Period * (Refilled(k) - Scale) \in Nat /\ Capacity * 0 = 0
        BY <1>0, <2>2, NatProduct
      <4> QED BY <3>1, <4>1, <4>2
    <3>2. CASE i # k
      <4>1. /\ i \in buckets /\ lastRefill'[i] = lastRefill[i] /\ letIn'[i] = letIn[i]
            /\ tokens'[i] = tokens[i] /\ polls'[i] = polls[i]
        BY <1>0, <2>1, <2>3, <3>2
      <4> QED BY <4>1 DEF PInv, Worth
    <3> QED BY <3>1, <3>2
  <2> QED BY <1>0, <2>1, <2>3 DEF PInv, PTypeOK, Worth
<1>2. ASSUME NEW k \in Keys, PReject(k) PROVE PInv'
  <2>1. /\ letIn' = letIn /\ polls' = [polls EXCEPT ![k] = @ + 1]
        /\ lastRefill' = [lastRefill EXCEPT ![k] = now]
        /\ tokens' = [tokens EXCEPT ![k] = Refilled(k)]
        /\ buckets' = buckets \union {k} /\ Refilled(k) < Scale
    BY <1>2 DEF PReject, Reject, Touch
  <2>2. /\ Refilled(k) \in Nat
        /\ Capacity * (now - letIn[k]) < Period * (Refilled(k) + polls[k] + 1)
    BY <2>1, RefusalWorth
  <2>3. ASSUME NEW i \in buckets'
        PROVE  Capacity * (lastRefill'[i] - letIn'[i]) <= Period * (tokens'[i] + polls'[i])
    <3>1. CASE i = k
      <4>1. /\ lastRefill'[k] - letIn'[k] = now - letIn[k]
            /\ tokens'[k] + polls'[k] = Refilled(k) + polls[k] + 1
        BY <1>0, <2>1, <2>2
      <4>2. /\ Capacity * (now - letIn[k]) \in Int
            /\ Period * (Refilled(k) + polls[k] + 1) \in Int
        BY <1>0, <2>2
      <4> HIDE DEF Capacity
      <4> QED BY <2>2, <3>1, <4>1, <4>2
    <3>2. CASE i # k
      <4>1. /\ i \in buckets /\ lastRefill'[i] = lastRefill[i] /\ letIn'[i] = letIn[i]
            /\ tokens'[i] = tokens[i] /\ polls'[i] = polls[i]
        BY <1>0, <2>1, <2>3, <3>2
      <4> QED BY <4>1 DEF PInv, Worth
    <3> QED BY <3>1, <3>2
  <2> QED BY <1>0, <2>1, <2>3 DEF PInv, PTypeOK, Worth
<1>3. CASE Between
  <2>1. /\ letIn' = letIn /\ polls' = polls
        /\ \A i \in buckets' : /\ i \in buckets /\ tokens'[i] = tokens[i]
                               /\ lastRefill'[i] = lastRefill[i]
    BY <1>0, <1>3 DEF Between, Window, Passing, Reset, Observe, Cleanup, Tick, Drop
  <2> QED BY <1>0, <2>1 DEF PInv, PTypeOK, Worth
<1>4. CASE UNCHANGED pvars
  BY <1>0, <1>4 DEF pvars, mvars, vars, PInv, PTypeOK, Worth
<1> QED BY <1>1, <1>2, <1>3, <1>4 DEF PNext

\* However often a client polls, each refusal keeps less than one unit from it.
THEOREM PollingCost == PSpec => PollCostsOneUnit
<1>1. PInit => PInv
  BY DEF PInit, MInit, Init, PInv, PTypeOK, Worth
<1>2. ASSUME IInv, PInv, NEW k \in Keys, PReject(k)
      PROVE  Capacity * (now - letIn[k]) < Period * (Scale + polls[k])
  <2>1. Refilled(k) < Scale
    BY <1>2 DEF PReject, Reject
  <2>2. /\ Refilled(k) \in Nat
        /\ Capacity * (now - letIn[k]) < Period * (Refilled(k) + polls[k] + 1)
    BY <1>2, <2>1, RefusalWorth
  <2>3. /\ now \in Nat /\ letIn[k] \in Nat /\ polls[k] \in Nat /\ Capacity \in Nat
        /\ Period \in Nat /\ Scale \in Nat
    BY <1>2, CapacityOK, RateAssumption DEF IInv, TypeOK, PInv, PTypeOK
  <2>4. Period * (Refilled(k) + polls[k] + 1) <= Period * (Scale + polls[k])
    BY <2>1, <2>2, <2>3, Times
  <2>5. /\ Capacity * (now - letIn[k]) \in Int
        /\ Period * (Refilled(k) + polls[k] + 1) \in Int
        /\ Period * (Scale + polls[k]) \in Int
    BY <2>2, <2>3
  <2> HIDE DEF Capacity
  <2> QED BY <2>2, <2>4, <2>5
<1>3. PSpec => []IInv
  BY PollingUsesLimiter, Inductive, PTL
<1>4. IInv /\ PInv /\ [PNext]_pvars =>
        [\A k \in Keys :
           PReject(k) => Capacity * (now - letIn[k]) < Period * (Scale + polls[k])]_pvars
  BY <1>2
<1> QED BY <1>1, <1>3, <1>4, StepPInv, PTL DEF PSpec, PollCostsOneUnit
=============================================================================
