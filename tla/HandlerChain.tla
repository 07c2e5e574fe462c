---------------------------- MODULE HandlerChain ----------------------------
(***************************************************************************)
(* One request running its handler chain: executeHandlerChain, the shared  *)
(* index and flags of ContextImpl (Next, Abort, AbortWithError), and the   *)
(* standard middleware that interferes with the chain.  Next is called     *)
(* from inside the handlers, so each goroutine has a stack of calls; the   *)
(* Timeout middleware at position p runs the rest of the chain in a        *)
(* goroutine of its own, thread p, against the same unsynchronised fields. *)
(*                                                                         *)
(* Kinds of function in a chain:                                           *)
(*   "app"       calls Next, Abort, ErrorResponse or AbortWithError in any *)
(*               order, panics or returns.  RequestID, Logger, Security,   *)
(*               Compression, RateLimit and a CircuitBreaker that rejects  *)
(*               do a part of this.                                        *)
(*   "preflight" CORS answering an OPTIONS request                         *)
(*   "recovery"  Recovery, or CircuitBreaker's runHandlerWithRecovery      *)
(*   "timeout"   Timeout                                                   *)
(*                                                                         *)
(* Loads and stores of handlerIdx are separate steps; stores of a          *)
(* goroutine are seen in program order.  Headers, status codes and logging *)
(* are left out, and so is the pooling of the context (see ContextPool).   *)
(***************************************************************************)
EXTENDS Integers, Sequences, FiniteSetsExt, SequencesExt

CONSTANTS MaxLength, \* longest chain
          MaxCalls   \* bound on the calls of Next and Abort a handler makes

ASSUME BoundsAssumption == MaxLength \in Nat \ {0} /\ MaxCalls \in Nat

Kinds == {"app", "preflight", "recovery", "timeout"}
Positions == 1 .. MaxLength
Threads == 0 .. MaxLength  \* 0 is the request's goroutine

VARIABLES handlers,   \* c.handlers
          handlerIdx, \* c.handlerIdx
          aborted,    \* c.aborted
          err,        \* c.err is not nil
          stack,      \* call stack of each thread
          errCh,      \* what each Timeout's errCh holds
          done,       \* Timeouts whose done channel is closed
          escaped,    \* a panic left the chain
          starts,     \* history: calls of each handler
          lateStarts, \* history: calls made after an abort
          panics      \* history: panics

flags == <<handlerIdx, aborted, err>>
channels == <<errCh, done>>
history == <<starts, lateStarts, panics>>
vars == <<handlers, flags, stack, channels, escaped, history>>

Labels == {"run", "load", "store", "test", "call", "in", "recovered", "setErr",
           "setAborted", "setIndex", "select", "send", "closeDone", "return"}

\* fn is the position of the running function, 0 for executeHandlerChain.
Frame(fn, at) == [fn |-> fn, at |-> at, idx |-> -1, calls |-> 0]

Frames == [fn : Threads, at : Labels, idx : Nat \union {-1}, calls : Nat]

TypeOK ==
  /\ handlers \in Seq(Kinds) /\ Len(handlers) \in Positions
  /\ handlerIdx \in Nat \union {-1}
  /\ aborted \in BOOLEAN /\ err \in BOOLEAN /\ escaped \in BOOLEAN
  /\ stack \in [Threads -> Seq(Frames)]
  /\ errCh \in [Positions -> {"empty", "nil", "error"}]
  /\ done \subseteq Positions
  /\ starts \in [Positions -> Nat] /\ lateStarts \in Nat /\ panics \in Nat

Chains ==
  UNION {{c \in [1 .. n -> Kinds] : c[n] = "app"} : n \in Positions}

\* Mutant: executeHandlerChain starts at 0.
InitZero ==
  /\ handlers \in Chains
  /\ handlerIdx = 0 /\ aborted = FALSE /\ err = FALSE
  /\ stack = [t \in Threads |-> IF t = 0 THEN <<Frame(0, "load")>> ELSE <<>>]
  /\ errCh = [p \in Positions |-> "empty"] /\ done = {}
  /\ escaped = FALSE
  /\ starts = [p \in Positions |-> 0] /\ lateStarts = 0 /\ panics = 0

\* buildHandlerChain and the first step of executeHandlerChain.
Init ==
  /\ handlers \in Chains
  /\ handlerIdx = -1 /\ aborted = FALSE /\ err = FALSE
  /\ stack = [t \in Threads |-> IF t = 0 THEN <<Frame(0, "load")>> ELSE <<>>]
  /\ errCh = [p \in Positions |-> "empty"] /\ done = {}
  /\ escaped = FALSE
  /\ starts = [p \in Positions |-> 0] /\ lateStarts = 0 /\ panics = 0

-----------------------------------------------------------------------------
Kind(fn) == IF fn = 0 THEN "chain" ELSE handlers[fn]

Top(t) == Last(stack[t])
At(t, label) == stack[t] # <<>> /\ Top(t).at = label

\* The stack of t with its top call changed, or at another place.
WithTop(t, frame) == [stack[t] EXCEPT ![Len(stack[t])] = frame]
Moved(t, label) == WithTop(t, [Top(t) EXCEPT !.at = label, !.idx = -1])

Goto(t, label) == stack' = [stack EXCEPT ![t] = Moved(t, label)]

\* A handler is done: the Next that called it goes on with its loop.
Popped(t) ==
  LET below == Front(stack[t])
  IN  IF below = <<>> THEN <<>>
      ELSE [below EXCEPT ![Len(below)] = [@ EXCEPT !.at = "load"]]

\* A panic in t goes to the nearest recovery, or to the deferred functions of the
\* goroutine Timeout started, or to the router's panic handler.
Recovering(t) ==
  {i \in DOMAIN stack[t] : Kind(stack[t][i].fn) = "recovery" /\ stack[t][i].at # "recovered"}

Recovers(t) ==
  /\ \E i \in Recovering(t) :
       /\ \A j \in Recovering(t) : j <= i
       /\ stack' = [stack EXCEPT ![t] =
                     Append(SubSeq(@, 1, i - 1), Frame(@[i].fn, "recovered"))]
  /\ UNCHANGED <<errCh, escaped>>

\* Mutant: the goroutine that Timeout starts does not recover.
UnrecoveredEscapes(t) ==
  /\ Recovering(t) = {}
  /\ stack' = [stack EXCEPT ![t] = <<>>] /\ escaped' = TRUE /\ UNCHANGED errCh

Unrecovered(t) ==
  /\ Recovering(t) = {}
  /\ IF t = 0
     THEN stack' = [stack EXCEPT ![t] = <<>>] /\ escaped' = TRUE /\ UNCHANGED errCh
     ELSE /\ stack' = [stack EXCEPT ![t] = <<Frame(t, "closeDone")>>]
          /\ errCh' = [errCh EXCEPT ![t] = "error"]
          /\ UNCHANGED escaped

Panic(t) == panics' = panics + 1 /\ (Recovers(t) \/ Unrecovered(t))

-----------------------------------------------------------------------------
(* Next: handlerIdx++, then call handlers until the end or an abort.       *)
LoadIndex(t) ==
  /\ At(t, "load")
  /\ stack' = [stack EXCEPT ![t] =
                 WithTop(t, [Top(t) EXCEPT !.at = "store", !.idx = handlerIdx])]
  /\ UNCHANGED <<handlers, flags, channels, escaped, history>>

StoreIndex(t) ==
  /\ At(t, "store")
  /\ handlerIdx' = Top(t).idx + 1
  /\ Goto(t, "test")
  /\ UNCHANGED <<handlers, aborted, err, channels, escaped, history>>

\* Where a function goes on after its call of Next.
AfterNext == [chain |-> "return", app |-> "run", recovery |-> "return",
              timeout |-> "send"]

\* Mutant: the loop does not look at aborted.
TestUnaborted(t) ==
  /\ At(t, "test")
  /\ Goto(t, IF handlerIdx < Len(handlers) THEN "call" ELSE AfterNext[Kind(Top(t).fn)])
  /\ UNCHANGED <<handlers, flags, channels, escaped, history>>

\* Mutant: the loop ends one function early.
TestShort(t) ==
  /\ At(t, "test")
  /\ Goto(t, IF handlerIdx < Len(handlers) - 1 /\ ~aborted
             THEN "call" ELSE AfterNext[Kind(Top(t).fn)])
  /\ UNCHANGED <<handlers, flags, channels, escaped, history>>

Test(t) ==
  /\ At(t, "test")
  /\ Goto(t, IF handlerIdx < Len(handlers) /\ ~aborted
             THEN "call" ELSE AfterNext[Kind(Top(t).fn)])
  /\ UNCHANGED <<handlers, flags, channels, escaped, history>>

\* handlerIdx is read again for the call; past the end, indexing panics.
CallHandler(t) ==
  /\ At(t, "call")
  /\ handlerIdx < Len(handlers)
  /\ stack' = [stack EXCEPT ![t] = Append(Moved(t, "in"), Frame(handlerIdx + 1, "run"))]
  /\ starts' = [starts EXCEPT ![handlerIdx + 1] = @ + 1]
  /\ lateStarts' = IF aborted THEN lateStarts + 1 ELSE lateStarts
  /\ UNCHANGED <<handlers, flags, channels, escaped, panics>>

CallOutOfRange(t) ==
  /\ At(t, "call")
  /\ handlerIdx >= Len(handlers)
  /\ Panic(t)
  /\ UNCHANGED <<handlers, flags, done, starts, lateStarts>>

-----------------------------------------------------------------------------
(* AbortWithError sets err, then does what Abort does.                     *)
AfterAbort == [app |-> "run", recovery |-> "return", timeout |-> "return"]

SetError(t) ==
  /\ At(t, "setErr")
  /\ err' = TRUE
  /\ Goto(t, "setAborted")
  /\ UNCHANGED <<handlers, handlerIdx, aborted, channels, escaped, history>>

SetAborted(t) ==
  /\ At(t, "setAborted")
  /\ aborted' = TRUE
  /\ Goto(t, "setIndex")
  /\ UNCHANGED <<handlers, handlerIdx, err, channels, escaped, history>>

\* Mutant: a negative index marks the abort.
SetIndexNegative(t) ==
  /\ At(t, "setIndex")
  /\ handlerIdx' = -2
  /\ Goto(t, AfterAbort[Kind(Top(t).fn)])
  /\ UNCHANGED <<handlers, aborted, err, channels, escaped, history>>

SetIndex(t) ==
  /\ At(t, "setIndex")
  /\ handlerIdx' = Len(handlers)
  /\ Goto(t, AfterAbort[Kind(Top(t).fn)])
  /\ UNCHANGED <<handlers, aborted, err, channels, escaped, history>>

-----------------------------------------------------------------------------
(* The functions of the chain.                                             *)
Runs(t, kind) == At(t, "run") /\ Kind(Top(t).fn) = kind

\* The application's handler may do any of this at any time, or nothing.
AppStep(t) ==
  /\ Runs(t, "app")
  /\ \/ Goto(t, "return")
     \/ /\ Top(t).calls < MaxCalls
        /\ \E label \in {"load", "setErr", "setAborted"} :
             stack' = [stack EXCEPT ![t] =
                         WithTop(t, [Top(t) EXCEPT !.at = label, !.calls = @ + 1])]
  /\ UNCHANGED <<handlers, flags, channels, escaped, history>>

AppPanic(t) ==
  /\ Runs(t, "app")
  /\ Panic(t)
  /\ UNCHANGED <<handlers, flags, done, starts, lateStarts>>

Preflight(t) ==
  /\ Runs(t, "preflight")
  /\ Goto(t, "return")
  /\ UNCHANGED <<handlers, flags, channels, escaped, history>>

Recovery(t) ==
  /\ Runs(t, "recovery")
  /\ Goto(t, "load")
  /\ UNCHANGED <<handlers, flags, channels, escaped, history>>

\* The default is to write a 500 and return; a handler given to Recovery may
\* abort.
Recovered(t) ==
  /\ At(t, "recovered")
  /\ \E label \in {"return", "setErr", "setAborted"} : Goto(t, label)
  /\ UNCHANGED <<handlers, flags, channels, escaped, history>>

Timeout(t) ==
  /\ Runs(t, "timeout")
  /\ LET p == Top(t).fn
     IN  stack' = [stack EXCEPT ![t] = Moved(t, "select"), ![p] = <<Frame(p, "load")>>]
  /\ UNCHANGED <<handlers, flags, channels, escaped, history>>

\* Mutant: after the timeout the middleware waits for the goroutine itself.
SelectTimeoutWaiting(t) ==
  /\ At(t, "select") /\ Top(t).fn \in done
  /\ Goto(t, "setErr")
  /\ UNCHANGED <<handlers, flags, channels, escaped, history>>

\* The select: the timer may have fired at any time ...
SelectTimeout(t) ==
  /\ At(t, "select")
  /\ Goto(t, "setErr")
  /\ UNCHANGED <<handlers, flags, channels, escaped, history>>

\* ... and when errCh and done are both ready, either is taken.
SelectError(t) ==
  /\ At(t, "select") /\ errCh[Top(t).fn] # "empty"
  /\ Goto(t, IF errCh[Top(t).fn] = "error" THEN "setErr" ELSE "return")
  /\ UNCHANGED <<handlers, flags, channels, escaped, history>>

SelectDone(t) ==
  /\ At(t, "select") /\ Top(t).fn \in done
  /\ Goto(t, "return")
  /\ UNCHANGED <<handlers, flags, channels, escaped, history>>

\* The goroutine: errCh <- c.Error(), then the deferred close(done).
SendError(t) ==
  /\ At(t, "send")
  /\ errCh' = [errCh EXCEPT ![t] = IF err THEN "error" ELSE "nil"]
  /\ Goto(t, "closeDone")
  /\ UNCHANGED <<handlers, flags, done, escaped, history>>

CloseDone(t) ==
  /\ At(t, "closeDone")
  /\ done' = done \union {t}
  /\ stack' = [stack EXCEPT ![t] = <<>>]
  /\ UNCHANGED <<handlers, flags, errCh, escaped, history>>

Return(t) ==
  /\ At(t, "return")
  /\ stack' = [stack EXCEPT ![t] = Popped(t)]
  /\ UNCHANGED <<handlers, flags, channels, escaped, history>>

-----------------------------------------------------------------------------
NextLoop(t) ==
  \/ LoadIndex(t) \/ StoreIndex(t) \/ Test(t) \/ CallHandler(t) \/ CallOutOfRange(t)

Abort(t) == SetError(t) \/ SetAborted(t) \/ SetIndex(t)

Middleware(t) ==
  \/ Preflight(t) \/ Recovery(t) \/ Recovered(t) \/ Timeout(t) \/ SelectTimeout(t)
  \/ SelectError(t) \/ SelectDone(t) \/ SendError(t) \/ CloseDone(t) \/ Return(t)

Framework(t) == NextLoop(t) \/ Abort(t) \/ Middleware(t)

Next == \E t \in Threads : Framework(t) \/ AppStep(t) \/ AppPanic(t)

Spec == Init /\ [][Next]_vars

\* Goroutines are scheduled and timers fire; a handler may block for ever.
Fairness == \A t \in Threads : WF_vars(Framework(t))
FairSpec == Spec /\ Fairness

-----------------------------------------------------------------------------
Finished == stack[0] = <<>>

\* However handlers call Next and Abort, and even while a goroutine that Timeout
\* gave up on still runs, every handler is called at most once and only after
\* all handlers before it.
InOrderOnce ==
  \A p \in Positions :
    starts[p] <= 1 /\ (starts[p] = 1 => \A q \in 1 .. p - 1 : starts[q] = 1)

\* The index that nested calls of Next and the goroutines of Timeouts move
\* together skips nothing: a request that ends without an abort or a panic has
\* been through its whole chain.  (Not said of preflight requests: CORS means to stop
\* those, middleware.go:177, and does not.)
NoneSkipped ==
  Finished /\ ~aborted /\ panics = 0 /\ "preflight" \notin Range(handlers) =>
    \A p \in DOMAIN handlers : starts[p] = 1

\* Abort stops the chain, up to the one call that a goroutine abandoned by
\* Timeout may already have decided on.
AbortStopsAllButOne ==
  lateStarts <= IF "timeout" \in Range(handlers) THEN 1 ELSE 0

\* With Recovery outermost the first panic does not leave the chain, not even
\* one in a goroutine that Timeout started or one of the racing index itself.
\* (Recovery does not abort: the outer Next calls the handlers after the one
\* that panicked, and nothing catches a panic of theirs.)
FirstPanicContained == handlers[1] = "recovery" /\ panics <= 1 => ~escaped

\* With Timeout outermost the request ends although handlers may block, as long
\* as none panics.
TimeoutBoundsRequest ==
  handlers[1] = "timeout" ~> Finished \/ panics > 0

-----------------------------------------------------------------------------
(* The inductive part.  As long as no abort has reached the index, one      *)
(* goroutine works on the chain and the others wait for their Timeout's.    *)
Live(t) == stack[t] # <<>> /\ Top(t).at # "closeDone"

Waits(t) ==
  /\ stack[t] # <<>> /\ Kind(Top(t).fn) = "timeout"
  /\ Top(t).at \in {"select", "setErr", "setAborted", "setIndex"}

\* Also after an abort, for the goroutine that has already decided on a call.
Calm == aborted => handlerIdx < Len(handlers) /\ \E t \in Threads : At(t, "call")

LoopLabels == {"load", "store", "test", "call", "in", "return"}
AbortLabels == {"setErr", "setAborted", "setIndex"}

\* Where a function can be.
Places(t, i) ==
  CASE i = 1 -> IF t = 0 THEN LoopLabels ELSE (LoopLabels \ {"return"}) \union {"send", "closeDone"}
    [] i > 1 /\ Kind(stack[t][i].fn) = "app" -> LoopLabels \union AbortLabels \union {"run"}
    [] i > 1 /\ Kind(stack[t][i].fn) = "preflight" -> {"run", "return"}
    [] i > 1 /\ Kind(stack[t][i].fn) = "recovery" ->
         LoopLabels \union AbortLabels \union {"run", "recovered"}
    [] OTHER -> AbortLabels \union {"run", "select", "return"}

\* Thread t runs the function at t, and calls functions after it.
GoodFrame(t, i) ==
  LET fn == stack[t][i].fn
  IN  /\ IF i = 1 THEN fn = t /\ (t # 0 => Kind(t) = "timeout") ELSE fn > t
      /\ fn <= Len(handlers) /\ (fn # 0 => starts[fn] = 1)
      /\ stack[t][i].at \in Places(t, i)
      /\ i < Len(stack[t]) => stack[t][i].at = "in"

Shape == \A t \in Threads : \A i \in DOMAIN stack[t] : GoodFrame(t, i)

\* Each thread waits for a later one that still works.
Lead ==
  \A t, u \in Threads :
    Live(t) /\ Live(u) /\ t < u => Waits(t) /\ Top(t).fn <= u /\ Live(Top(t).fn)

Untouched(p) == stack[p] = <<>> /\ errCh[p] = "empty" /\ p \notin done

\* A channel that holds something was sent on by a thread that has ended.
Signals ==
  /\ \A p \in Positions : starts[p] = 0 => Untouched(p)
  /\ Calm => \A t \in Threads :
       At(t, "run") /\ Kind(Top(t).fn) = "timeout" => Untouched(Top(t).fn)
  /\ Calm => \A p \in Positions : errCh[p] # "empty" \/ p \in done => ~Live(p)

\* The functions that the index has reached.
Reached ==
  IF \E t \in Threads : At(t, "test") \/ At(t, "call") THEN handlerIdx ELSE handlerIdx + 1

Indexed ==
  /\ \A p \in Positions : starts[p] = IF p <= Reached /\ p <= Len(handlers) THEN 1 ELSE 0
  /\ \A t \in Threads :
       /\ At(t, "store") => Top(t).idx = handlerIdx
       /\ At(t, "test") => handlerIdx >= 0
       /\ At(t, "call") => handlerIdx >= 0 /\ handlerIdx < Len(handlers)

\* An abort that has reached the index stays there while a call is under way.
Cut ==
  aborted /\ handlerIdx >= Len(handlers) /\ (\E u \in Threads : At(u, "call")) =>
    \A t \in Threads : At(t, "store") => Top(t).idx + 1 >= Len(handlers)

Late ==
  /\ \A t \in Threads : At(t, "setIndex") => aborted
  /\ Calm => lateStarts = 0
  /\ \A t \in Threads : aborted /\ At(t, "call") => "timeout" \in Range(handlers)

\* A function that returns from its Next without an abort has seen the end.
Ended ==
  /\ panics = 0 => \A t \in Threads : ~At(t, "recovered")
  /\ panics = 0 /\ ~aborted =>
    /\ \A t \in Threads :
         At(t, "return") /\ Kind(Top(t).fn) \in {"chain", "recovery"} => handlerIdx >= Len(handlers)
    /\ Finished => handlerIdx >= Len(handlers)

\* Before the first panic, Recovery at the head of the chain is there to catch it.
Guarded ==
  handlers[1] = "recovery" =>
    /\ panics <= 1 => ~escaped
    /\ panics = 0 =>
         /\ Len(stack[0]) > 1 => stack[0][2].fn = 1
         /\ Len(stack[0]) = 1 =>
              /\ starts[1] = 0 \/ aborted \/ handlerIdx >= Len(handlers)
              /\ At(0, "call") => starts[1] = 0 /\ ~aborted /\ handlerIdx = 0

\* Everything follows from a single index as long as the threads are in order.
IInv ==
  /\ TypeOK /\ Shape /\ InOrderOnce /\ (Calm => Lead) /\ Signals /\ (Calm => Indexed)
  /\ Cut /\ Late /\ AbortStopsAllButOne /\ Ended /\ Guarded

=============================================================================
