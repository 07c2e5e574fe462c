------------------------ MODULE CircuitBreakerSerial ------------------------
(***************************************************************************)
(* As long as requests do not overlap, whichever goroutines they come      *)
(* from, CircuitBreaker implements Breaker.  RecordFailure takes effect    *)
(* when it stores lastFailure, RecordSuccess when it updates its counter,  *)
(* IsOpen when its CompareAndSwap succeeds; the atomic operations after    *)
(* that point finish what has already taken effect.                        *)
(***************************************************************************)
EXTENDS CircuitBreaker

VARIABLE overlapped \* history: two requests have been under way at a time

svars == <<vars, overlapped>>

Alone == \A p, q \in Procs : p = q \/ At(p, "idle") \/ At(q, "idle")

SerialInit == Init /\ overlapped = FALSE

Observed == overlapped' = (overlapped \/ ~Alone')

SerialNext == Next /\ Observed

SerialSpec == SerialInit /\ [][SerialNext]_svars

-----------------------------------------------------------------------------
Someone(labels) == \E p \in Procs : pc[p] \in labels

\* The failure counted by AddFailure but not yet stamped.
strikesBar ==
  IF Someone({"readClock", "storeStamp"}) THEN failures - 1
  ELSE IF Someone({"close", "closeFailures"}) THEN 0
  ELSE failures

modeBar ==
  CASE Someone({"loadTrip", "trip"}) -> "open"
    [] Someone({"close"})            -> "closed"
    [] OTHER                         -> state

passesBar ==
  IF Someone({"clearSuccesses", "close", "closeFailures", "closeSuccesses"})
  THEN 0 ELSE successes

B == INSTANCE Breaker WITH mode <- modeBar, strikes <- strikesBar,
                           passes <- passesBar, lastStrike <- lastFailure,
                           clock <- now

Seen == <<B!breaker, now>>

\* Callers that do not overlap see the promised breaker: it opens after exactly
\* Threshold uninterrupted failures, a failed probe re-opens it, and it closes
\* after HalfOpenMax successful probes (IsOpen, RecordFailure, RecordSuccess).
ImplementsBreaker == B!Init /\ [][B!Next \/ overlapped']_Seen

\* While requests do not overlap one that finds the breaker open is let through
\* only as a probe: logUnexpectedSuccess is unreachable without concurrency.
NoUnexpectedSuccess ==
  ~overlapped => \A p \in Procs : pc[p] = "handler" => state # "open"

-----------------------------------------------------------------------------
(* The inductive part: what the only caller knows of the fields at each     *)
(* step, since nobody else changes them.                                    *)
Knows(p) ==
  /\ pc[p] \in {"loadStamp", "since", "probe"} => state = "open"
  /\ pc[p] = "since" => stamp[p] = lastFailure
  /\ pc[p] = "probe" => now - lastFailure > ResetTimeout
  /\ pc[p] \in {"clearSuccesses", "addSuccess", "close"} => state = "halfOpen"
  /\ pc[p] \in {"resetFailures", "closeFailures", "closeSuccesses"} => state = "closed"
  /\ pc[p] \in {"handler", "readClock", "storeStamp", "loadTrip", "trip"} => state # "open"
  /\ pc[p] \in {"readClock", "storeStamp"} => count[p] = failures
  /\ pc[p] = "storeStamp" => lastFailure <= stamp[p] /\ stamp[p] <= now
  /\ pc[p] \in {"loadTrip", "trip"} => failures >= Threshold
  /\ pc[p] = "trip" => seen[p] = state

Sequential ==
  /\ Alone /\ lastFailure <= now
  /\ state # "closed" => failures >= Threshold
  /\ \A p \in Procs : Knows(p)

SerialInv == TypeOK /\ overlapped \in BOOLEAN /\ (~overlapped => Sequential)
=============================================================================
