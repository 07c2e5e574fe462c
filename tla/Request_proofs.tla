--------------------------- MODULE Request_proofs ---------------------------
(***************************************************************************)
(* What is proved about a request: first the chain of one request          *)
(* (HandlerChain), then registration, dispatch and counting of all of them *)
(* (Router).                                                               *)
(*                                                                         *)
(* HandlerChain.  The inductive invariant IInv says who may touch          *)
(* handlerIdx: until an abort reaches it one goroutine works on the chain, *)
(* the others wait at a Timeout, and the index says which functions were   *)
(* called.  TypeOK, InOrderOnce, NoneSkipped, AbortStopsAllButOne and      *)
(* FirstPanicContained follow.                                             *)
(*                                                                         *)
(* Router.  RouterInv says that each router appends into an array of its   *)
(* own, that registration is over when the first request comes, and that   *)
(* what ran and what is still to run are the handlers of the route.  The   *)
(* counters are the cardinalities of the sets of requests that ended.      *)
(***************************************************************************)
EXTENDS HandlerChain, Router, SequenceTheorems, FiniteSetTheorems, TLAPS

LEMMA TopDef ==
  ASSUME TypeOK, NEW t \in Threads, stack[t] # <<>>
  PROVE  /\ Len(stack[t]) \in Nat \ {0} /\ DOMAIN stack[t] = 1 .. Len(stack[t])
         /\ Len(stack[t]) \in DOMAIN stack[t]
         /\ Top(t) = stack[t][Len(stack[t])] /\ Top(t) \in Frames
<1>1. stack[t] \in Seq(Frames)
  BY DEF TypeOK
<1>2. Len(stack[t]) \in Nat \ {0} /\ DOMAIN stack[t] = 1 .. Len(stack[t])
  BY <1>1, EmptySeq, LenProperties
<1> QED BY <1>1, <1>2, ElementOfSeq DEF Top, Last

\* A step that changes nothing but the top call of t.
Moves(t) ==
  /\ stack' \in [Threads -> Seq(Frames)] /\ stack[t] # <<>> /\ stack'[t] # <<>>
  /\ Len(stack'[t]) = Len(stack[t])
  /\ \A i \in 1 .. Len(stack[t]) - 1 : stack'[t][i] = stack[t][i]
  /\ stack'[t][Len(stack[t])] = Top(t)' /\ Top(t)'.fn = Top(t).fn
  /\ \A u \in Threads : u # t => stack'[u] = stack[u]

LEMMA MoveTop ==
  ASSUME TypeOK, NEW t \in Threads, stack[t] # <<>>, NEW f \in Frames, f.fn = Top(t).fn,
         stack' = [stack EXCEPT ![t] = WithTop(t, f)]
  PROVE  Moves(t) /\ Top(t)' = f
<1>1. stack \in [Threads -> Seq(Frames)] /\ stack[t] \in Seq(Frames)
  BY DEF TypeOK
<1>2. Len(stack[t]) \in Nat \ {0} /\ Len(stack[t]) \in 1 .. Len(stack[t])
  BY TopDef
<1>3. /\ WithTop(t, f) \in Seq(Frames) /\ Len(WithTop(t, f)) = Len(stack[t])
      /\ \A j \in 1 .. Len(stack[t]) :
           WithTop(t, f)[j] = IF j = Len(stack[t]) THEN f ELSE stack[t][j]
  BY <1>1, <1>2, ExceptSeq DEF WithTop
<1>4. stack'[t] = WithTop(t, f) /\ \A u \in Threads : u # t => stack'[u] = stack[u]
  BY <1>1
<1>5. stack'[t] # <<>>
  BY <1>2, <1>3, <1>4, EmptySeq
<1>6. Top(t)' = stack'[t][Len(stack'[t])]
  BY DEF Top, Last
<1> QED BY <1>1, <1>2, <1>3, <1>4, <1>5, <1>6 DEF Moves

LEMMA GotoTop ==
  ASSUME TypeOK, NEW t \in Threads, stack[t] # <<>>, NEW label \in Labels, Goto(t, label)
  PROVE  Moves(t) /\ Top(t)'.at = label /\ Top(t)'.idx = -1
<1> DEFINE f == [Top(t) EXCEPT !.at = label, !.idx = -1]
<1>1. f \in Frames /\ f.fn = Top(t).fn /\ f.at = label /\ f.idx = -1
  BY TopDef DEF Frames
<1>2. stack' = [stack EXCEPT ![t] = WithTop(t, f)]
  BY DEF Goto, Moved
<1> HIDE DEF f
<1> QED BY <1>1, <1>2, MoveTop

LEMMA FrameOK ==
  ASSUME NEW fn \in Threads, NEW label \in Labels
  PROVE  Frame(fn, label) \in Frames
  BY DEF Frame, Frames

\* A step that calls f from the top call of t, which goes on at label.
Pushes(t, label, f) ==
  /\ Len(stack'[t]) = Len(stack[t]) + 1
  /\ \A i \in 1 .. Len(stack[t]) - 1 : stack'[t][i] = stack[t][i]
  /\ stack'[t][Len(stack[t])].fn = Top(t).fn /\ stack'[t][Len(stack[t])].at = label
  /\ stack'[t][Len(stack[t]) + 1] = f
  /\ \A u \in Threads : u # t => stack'[u] = stack[u]

LEMMA PushTop ==
  ASSUME TypeOK, NEW t \in Threads, stack[t] # <<>>, NEW label \in Labels, NEW f \in Frames,
         stack' = [stack EXCEPT ![t] = Append(Moved(t, label), f)]
  PROVE  /\ stack' \in [Threads -> Seq(Frames)]
         /\ Len(stack'[t]) = Len(stack[t]) + 1 /\ stack'[t] # <<>>
         /\ \A i \in 1 .. Len(stack[t]) - 1 : stack'[t][i] = stack[t][i]
         /\ stack'[t][Len(stack[t])].fn = Top(t).fn /\ stack'[t][Len(stack[t])].at = label
         /\ stack'[t][Len(stack[t]) + 1] = f /\ Top(t)' = f
         /\ \A u \in Threads : u # t => stack'[u] = stack[u]
         /\ Pushes(t, label, f)
<1> DEFINE g == [Top(t) EXCEPT !.at = label, !.idx = -1]
<1>1. g \in Frames /\ g.fn = Top(t).fn /\ g.at = label
  BY TopDef DEF Frames
<1>2. stack \in [Threads -> Seq(Frames)] /\ stack[t] \in Seq(Frames)
  BY DEF TypeOK
<1>3. Len(stack[t]) \in Nat \ {0} /\ Len(stack[t]) \in 1 .. Len(stack[t])
  BY TopDef
<1>4. Moved(t, label) = [stack[t] EXCEPT ![Len(stack[t])] = g]
  BY DEF Moved, WithTop
<1> HIDE DEF g
<1>5. /\ Moved(t, label) \in Seq(Frames) /\ Len(Moved(t, label)) = Len(stack[t])
      /\ \A j \in 1 .. Len(stack[t]) :
           Moved(t, label)[j] = IF j = Len(stack[t]) THEN g ELSE stack[t][j]
  BY <1>1, <1>2, <1>3, <1>4, ExceptSeq
<1>6. /\ Append(Moved(t, label), f) \in Seq(Frames) /\ Append(Moved(t, label), f) # <<>>
      /\ Len(Append(Moved(t, label), f)) = Len(stack[t]) + 1
      /\ \A j \in 1 .. Len(stack[t]) : Append(Moved(t, label), f)[j] = Moved(t, label)[j]
      /\ Append(Moved(t, label), f)[Len(stack[t]) + 1] = f
  BY <1>5, AppendProperties
<1>7. stack'[t] = Append(Moved(t, label), f) /\ \A u \in Threads : u # t => stack'[u] = stack[u]
  BY <1>2
<1>8. Top(t)' = stack'[t][Len(stack'[t])]
  BY DEF Top, Last
<1>9. stack' \in [Threads -> Seq(Frames)]
  BY <1>2, <1>6
<1>10. /\ Len(stack'[t]) = Len(stack[t]) + 1
       /\ \A i \in 1 .. Len(stack[t]) - 1 : stack'[t][i] = stack[t][i]
       /\ stack'[t][Len(stack[t])].fn = Top(t).fn /\ stack'[t][Len(stack[t])].at = label
       /\ stack'[t][Len(stack[t]) + 1] = f
  BY <1>1, <1>3, <1>5, <1>6, <1>7
<1>11. Pushes(t, label, f)
  BY <1>7, <1>10 DEF Pushes
<1> QED BY <1>6, <1>7, <1>8, <1>9, <1>10, <1>11

\* A return drops the top call, and the call below loads the index again.
LEMMA PopTop ==
  ASSUME TypeOK, NEW t \in Threads, stack[t] # <<>>,
         stack' = [stack EXCEPT ![t] = Popped(t)]
  PROVE  /\ stack' \in [Threads -> Seq(Frames)]
         /\ Len(stack'[t]) = Len(stack[t]) - 1
         /\ stack'[t] = <<>> <=> Len(stack[t]) = 1
         /\ \A i \in 1 .. Len(stack[t]) - 2 : stack'[t][i] = stack[t][i]
         /\ Len(stack[t]) > 1 =>
              /\ stack'[t][Len(stack[t]) - 1] = Top(t)'
              /\ Top(t)'.fn = stack[t][Len(stack[t]) - 1].fn
              /\ Top(t)'.at = "load"
         /\ \A u \in Threads : u # t => stack'[u] = stack[u]
<1> DEFINE n == Len(stack[t]) - 1
           below == SubSeq(stack[t], 1, n)
           g == [below[n] EXCEPT !.at = "load"]
<1>1. stack \in [Threads -> Seq(Frames)] /\ stack[t] \in Seq(Frames)
  BY DEF TypeOK
<1>2. /\ n \in Nat /\ Len(stack[t]) \in Nat \ {0} /\ Len(stack[t]) = n + 1
      /\ \A i \in 1 .. n : stack[t][i] \in Frames
  BY <1>1, TopDef, ElementOfSeq
<1>3. /\ below \in Seq(Frames) /\ Len(below) = n
      /\ \A i \in 1 .. n : below[i] = stack[t][i]
  <2>1. \A i \in 1 .. n : below[i] = stack[t][1 + i - 1]
    BY <1>2, SubSeqProperties
  <2> QED BY <1>2, <2>1, SubSeqProperties
<1>4. stack'[t] = IF below = <<>> THEN <<>>
                  ELSE [below EXCEPT ![Len(below)] = [below[Len(below)] EXCEPT !.at = "load"]]
  BY <1>1 DEF Popped, Front
<1>5. \A u \in Threads : u # t => stack'[u] = stack[u]
  BY <1>1
<1>6. below = <<>> <=> n = 0
  BY <1>2, <1>3, EmptySeq
<1>7. CASE n = 0
  <2>1. stack'[t] = <<>> /\ stack'[t] \in Seq(Frames) /\ Len(stack'[t]) = 0
    BY <1>4, <1>6, <1>7, EmptySeq
  <2>2. stack' \in [Threads -> Seq(Frames)]
    BY <1>1, <2>1
  <2>3. Len(stack[t]) = 1
    BY <1>2, <1>7
  <2> QED BY <1>5, <2>1, <2>2, <2>3
<1>8. CASE n # 0
  <2>1. n \in 1 .. n /\ below[n] \in Frames /\ below[n].fn = stack[t][n].fn
    <3> HIDE DEF n, below, g
    <3>1. n \in 1 .. n
      BY <1>2, <1>8
    <3> QED BY <1>2, <1>3, <3>1
  <2>2. g \in Frames /\ g.fn = stack[t][n].fn /\ g.at = "load"
    BY <2>1 DEF Frames, Labels
  <2>3. stack'[t] = [below EXCEPT ![n] = g]
    BY <1>3, <1>4, <1>6, <1>8
  <2> HIDE DEF g, below, n
  <2>4. /\ stack'[t] \in Seq(Frames) /\ Len(stack'[t]) = n
        /\ \A j \in 1 .. n : stack'[t][j] = IF j = n THEN g ELSE below[j]
    <3>1. n \in 1 .. Len(below)
      BY <1>3, <2>1
    <3>2. /\ [below EXCEPT ![n] = g] \in Seq(Frames)
          /\ Len([below EXCEPT ![n] = g]) = Len(below)
          /\ \A j \in 1 .. Len(below) :
               [below EXCEPT ![n] = g][j] = IF j = n THEN g ELSE below[j]
      BY <1>3, <2>2, <3>1, ExceptSeq
    <3> QED BY <1>3, <2>3, <3>2
  <2>5. stack' \in [Threads -> Seq(Frames)]
    BY <1>1, <2>4
  <2>6. stack'[t] # <<>> /\ Top(t)' = g
    <3>1. Top(t)' = stack'[t][Len(stack'[t])]
      BY DEF Top, Last
    <3> QED BY <1>2, <1>8, <2>1, <2>4, <3>1, EmptySeq
  <2>7. \A i \in 1 .. n - 1 : stack'[t][i] = stack[t][i]
    BY <1>2, <1>3, <2>4
  <2> QED BY <1>2, <1>5, <1>8, <2>1, <2>2, <2>4, <2>5, <2>6, <2>7 DEF n
<1> QED BY <1>7, <1>8

\* A panic unwinds to the nearest recovery.
LEMMA RecoverTop ==
  ASSUME TypeOK, NEW t \in Threads, NEW i \in DOMAIN stack[t],
         stack' = [stack EXCEPT ![t] =
                    Append(SubSeq(@, 1, i - 1), Frame(@[i].fn, "recovered"))]
  PROVE  /\ stack' \in [Threads -> Seq(Frames)]
         /\ i \in 1 .. Len(stack[t]) /\ Len(stack'[t]) = i /\ stack'[t] # <<>>
         /\ \A j \in 1 .. i - 1 : stack'[t][j] = stack[t][j]
         /\ stack'[t][i] = Top(t)' /\ Top(t)'.fn = stack[t][i].fn /\ Top(t)'.at = "recovered"
         /\ \A u \in Threads : u # t => stack'[u] = stack[u]
<1> DEFINE g == Frame(stack[t][i].fn, "recovered")
           below == SubSeq(stack[t], 1, i - 1)
<1>1. stack \in [Threads -> Seq(Frames)] /\ stack[t] \in Seq(Frames)
  BY DEF TypeOK
<1>2. i \in 1 .. Len(stack[t]) /\ i \in Nat \ {0} /\ Len(stack[t]) \in Nat
  BY <1>1, LenProperties
<1>3. \A j \in 1 .. i : stack[t][j] \in Frames
  BY <1>1, <1>2, ElementOfSeq
<1>4. g \in Frames /\ g.fn = stack[t][i].fn /\ g.at = "recovered"
  BY <1>2, <1>3 DEF Frame, Frames, Labels
<1>5. /\ below \in Seq(Frames) /\ Len(below) = i - 1
      /\ \A j \in 1 .. i - 1 : below[j] = stack[t][j]
  <2>1. \A j \in 1 .. (i - 1) - 1 + 1 : below[j] = stack[t][1 + j - 1]
    BY <1>2, <1>3, SubSeqProperties
  <2> QED BY <1>2, <1>3, <2>1, SubSeqProperties
<1>6. stack'[t] = Append(below, g) /\ \A u \in Threads : u # t => stack'[u] = stack[u]
  BY <1>1
<1> HIDE DEF g, below
<1>7. /\ stack'[t] \in Seq(Frames) /\ stack'[t] # <<>> /\ Len(stack'[t]) = i
      /\ \A j \in 1 .. i - 1 : stack'[t][j] = below[j]
      /\ stack'[t][i] = g
  <2>1. /\ Append(below, g) \in Seq(Frames) /\ Append(below, g) # <<>>
        /\ Len(Append(below, g)) = Len(below) + 1
        /\ \A j \in 1 .. Len(below) : Append(below, g)[j] = below[j]
        /\ Append(below, g)[Len(below) + 1] = g
    BY <1>4, <1>5, AppendProperties
  <2>2. Len(below) + 1 = i
    BY <1>2, <1>5
  <2> QED BY <1>5, <1>6, <2>1, <2>2
<1>8. Top(t)' = stack'[t][Len(stack'[t])]
  BY DEF Top, Last
<1>9. stack' \in [Threads -> Seq(Frames)]
  BY <1>1, <1>6, <1>7
<1> QED BY <1>2, <1>4, <1>5, <1>6, <1>7, <1>8, <1>9

-----------------------------------------------------------------------------
(* Where the top call of a thread can be.                                  *)
LEMMA TopPlace ==
  ASSUME TypeOK, Shape, NEW t \in Threads, stack[t] # <<>>
  PROVE  LET top == Top(t)
             kind == Kind(Top(t).fn)
         IN  /\ top.fn \in Threads /\ top.fn <= Len(handlers)
             /\ top.fn # 0 => starts[top.fn] = 1
             /\ \/ /\ t = 0 /\ top.fn = 0 /\ Len(stack[t]) = 1
                   /\ kind = "chain" /\ top.at \in LoopLabels
                \/ /\ t # 0 /\ top.fn = t /\ Len(stack[t]) = 1 /\ kind = "timeout"
                   /\ top.at \in (LoopLabels \ {"return"}) \union {"send", "closeDone"}
                \/ /\ top.fn > t /\ Len(stack[t]) > 1
                   /\ \/ kind = "app" /\ top.at \in LoopLabels \union AbortLabels \union {"run"}
                      \/ kind = "preflight" /\ top.at \in {"run", "return"}
                      \/ /\ kind = "recovery"
                         /\ top.at \in LoopLabels \union AbortLabels \union {"run", "recovered"}
                      \/ kind = "timeout" /\ top.at \in AbortLabels \union {"run", "select", "return"}
<1> DEFINE n == Len(stack[t])
<1>1. n \in DOMAIN stack[t] /\ n \in Nat \ {0} /\ Top(t) = stack[t][n] /\ Top(t) \in Frames
  BY TopDef
<1> HIDE DEF n
<1>2. /\ IF n = 1 THEN Top(t).fn = t /\ (t # 0 => Kind(t) = "timeout") ELSE Top(t).fn > t
      /\ Top(t).fn <= Len(handlers) /\ (Top(t).fn # 0 => starts[Top(t).fn] = 1)
      /\ Top(t).at \in Places(t, n)
  BY <1>1 DEF Shape, GoodFrame
<1>3. Top(t).fn \in 0 .. MaxLength /\ t \in 0 .. MaxLength /\ MaxLength \in Nat
  BY <1>1, BoundsAssumption DEF Frames, Threads
<1>4. Top(t).fn # 0 => Kind(Top(t).fn) \in Kinds
  <2> SUFFICES ASSUME Top(t).fn # 0 PROVE handlers[Top(t).fn] \in Kinds
      BY DEF Kind
  <2>1. handlers \in Seq(Kinds) /\ Len(handlers) \in Nat
    BY BoundsAssumption DEF TypeOK, Positions
  <2>2. Top(t).fn \in 1 .. Len(handlers)
    BY <1>2, <1>3, <2>1
  <2> QED BY <2>1, <2>2, ElementOfSeq
<1>5. CASE n = 1
  BY <1>1, <1>2, <1>3, <1>5 DEF Places, Kind, Threads, n
<1>6. CASE n # 1
  <2>1. n > 1 /\ Top(t).fn > t /\ Top(t).fn # 0
    BY <1>1, <1>2, <1>3, <1>6
  <2>2. Top(t).at \in
          CASE Kind(Top(t).fn) = "app" -> LoopLabels \union AbortLabels \union {"run"}
            [] Kind(Top(t).fn) = "preflight" -> {"run", "return"}
            [] Kind(Top(t).fn) = "recovery" -> LoopLabels \union AbortLabels \union {"run", "recovered"}
            [] Kind(Top(t).fn) = "timeout" -> AbortLabels \union {"run", "select", "return"}
    BY <1>1, <1>2, <1>4, <2>1 DEF Places, Kinds
  <2> QED BY <1>2, <1>3, <1>4, <2>1, <2>2 DEF Kinds, Threads, n
<1> QED BY <1>5, <1>6

\* Most actions only move the call they belong to.
MovesTo(t, labels) == Moves(t) /\ Top(t)'.at \in labels

LEMMA Effects ==
  ASSUME TypeOK, Shape, NEW t \in Threads
  PROVE  /\ LoadIndex(t) => MovesTo(t, {"store"}) /\ Top(t)'.idx = handlerIdx
         /\ StoreIndex(t) => MovesTo(t, {"test"})
         /\ Test(t) => \/ MovesTo(t, {"call"}) /\ handlerIdx < Len(handlers) /\ ~aborted
                       \/ /\ MovesTo(t, {"return", "run", "send"})
                          /\ Top(t)'.at = AfterNext[Kind(Top(t).fn)]
                          /\ ~(handlerIdx < Len(handlers) /\ ~aborted)
         /\ SetError(t) => MovesTo(t, {"setAborted"})
         /\ SetAborted(t) => MovesTo(t, {"setIndex"})
         /\ SetIndex(t) => /\ MovesTo(t, {"run", "return"})
                           /\ Top(t)'.at = AfterAbort[Kind(Top(t).fn)]
         /\ AppStep(t) => MovesTo(t, {"return", "load", "setErr", "setAborted"})
         /\ Preflight(t) => MovesTo(t, {"return"})
         /\ Recovery(t) => MovesTo(t, {"load"})
         /\ Recovered(t) => MovesTo(t, {"return", "setErr", "setAborted"})
         /\ SelectTimeout(t) => MovesTo(t, {"setErr"})
         /\ SelectError(t) \/ SelectDone(t) => MovesTo(t, {"setErr", "return"})
         /\ SendError(t) => MovesTo(t, {"closeDone"})
<1> USE DEF MovesTo, At, Runs
<1>1. ASSUME stack[t] # <<>>, NEW label \in Labels, Goto(t, label)
      PROVE  Moves(t) /\ Top(t)'.at = label
  BY <1>1, GotoTop
<1>2. ASSUME stack[t] # <<>> PROVE Top(t) \in Frames
  BY <1>2, TopDef
<1>3. LoadIndex(t) => MovesTo(t, {"store"}) /\ Top(t)'.idx = handlerIdx
  <2> SUFFICES ASSUME LoadIndex(t) PROVE MovesTo(t, {"store"}) /\ Top(t)'.idx = handlerIdx
      OBVIOUS
  <2> DEFINE f == [Top(t) EXCEPT !.at = "store", !.idx = handlerIdx]
  <2>1. f \in Frames /\ f.fn = Top(t).fn /\ f.at = "store" /\ f.idx = handlerIdx
    BY <1>2 DEF LoadIndex, Frames, Labels, TypeOK
  <2>2. stack' = [stack EXCEPT ![t] = WithTop(t, f)]
    BY DEF LoadIndex
  <2> HIDE DEF f
  <2> QED BY <2>1, <2>2, MoveTop DEF LoadIndex
<1>4. StoreIndex(t) => MovesTo(t, {"test"})
  BY <1>1 DEF StoreIndex, Labels
<1>5. Test(t) => \/ MovesTo(t, {"call"}) /\ handlerIdx < Len(handlers) /\ ~aborted
                 \/ /\ MovesTo(t, {"return", "run", "send"})
                    /\ Top(t)'.at = AfterNext[Kind(Top(t).fn)]
                    /\ ~(handlerIdx < Len(handlers) /\ ~aborted)
  <2> SUFFICES ASSUME Test(t)
               PROVE  \/ MovesTo(t, {"call"}) /\ handlerIdx < Len(handlers) /\ ~aborted
                      \/ /\ MovesTo(t, {"return", "run", "send"})
                         /\ Top(t)'.at = AfterNext[Kind(Top(t).fn)]
                         /\ ~(handlerIdx < Len(handlers) /\ ~aborted)
      OBVIOUS
  <2>1. stack[t] # <<>> /\ AfterNext[Kind(Top(t).fn)] \in {"return", "run", "send"}
    BY TopPlace DEF Test, AfterNext, LoopLabels, AbortLabels
  <2>2. CASE handlerIdx < Len(handlers) /\ ~aborted
    <3>1. Goto(t, "call")
      BY <2>2 DEF Test
    <3> QED BY <1>1, <2>1, <2>2, <3>1 DEF Labels
  <2>3. CASE ~(handlerIdx < Len(handlers) /\ ~aborted)
    <3>1. Goto(t, AfterNext[Kind(Top(t).fn)])
      BY <2>3 DEF Test
    <3> QED BY <1>1, <2>1, <2>3, <3>1 DEF Labels
  <2> QED BY <2>2, <2>3
<1>6. SetError(t) => MovesTo(t, {"setAborted"})
  BY <1>1 DEF SetError, Labels
<1>7. SetAborted(t) => MovesTo(t, {"setIndex"})
  BY <1>1 DEF SetAborted, Labels
<1>8. SetIndex(t) => MovesTo(t, {"run", "return"}) /\ Top(t)'.at = AfterAbort[Kind(Top(t).fn)]
  <2> SUFFICES ASSUME SetIndex(t)
               PROVE  /\ MovesTo(t, {"run", "return"})
                      /\ Top(t)'.at = AfterAbort[Kind(Top(t).fn)]
      OBVIOUS
  <2>1. stack[t] # <<>> /\ AfterAbort[Kind(Top(t).fn)] \in {"return", "run"}
    BY TopPlace DEF SetIndex, AfterAbort, LoopLabels, AbortLabels
  <2>2. Goto(t, AfterAbort[Kind(Top(t).fn)])
    BY DEF SetIndex
  <2> QED BY <1>1, <2>1, <2>2 DEF Labels
<1>9. AppStep(t) => MovesTo(t, {"return", "load", "setErr", "setAborted"})
  <2>1. ASSUME AppStep(t), Goto(t, "return") PROVE Moves(t) /\ Top(t)'.at = "return"
    BY <1>1, <2>1 DEF AppStep, Labels
  <2>2. ASSUME AppStep(t), NEW label \in {"load", "setErr", "setAborted"},
               stack' = [stack EXCEPT ![t] =
                          WithTop(t, [Top(t) EXCEPT !.at = label, !.calls = @ + 1])]
        PROVE  Moves(t) /\ Top(t)'.at = label
    <3> DEFINE c == Top(t).calls + 1
               f == [Top(t) EXCEPT !.at = label, !.calls = c]
    <3>1. stack[t] # <<>> /\ Top(t) \in Frames
      BY <1>2, <2>2 DEF AppStep
    <3>2. c \in Nat
      BY <3>1 DEF Frames
    <3>3. stack' = [stack EXCEPT ![t] = WithTop(t, f)]
      BY <2>2
    <3> HIDE DEF c
    <3>4. f \in Frames /\ f.fn = Top(t).fn /\ f.at = label
      BY <3>1, <3>2 DEF Frames, Labels
    <3> HIDE DEF f
    <3> QED BY <3>1, <3>3, <3>4, MoveTop
  <2> QED BY <2>1, <2>2 DEF AppStep
<1>10. Preflight(t) => MovesTo(t, {"return"})
  BY <1>1 DEF Preflight, Labels
<1>11. Recovery(t) => MovesTo(t, {"load"})
  BY <1>1 DEF Recovery, Labels
<1>12. Recovered(t) => MovesTo(t, {"return", "setErr", "setAborted"})
  BY <1>1 DEF Recovered, Labels
<1>13. SelectTimeout(t) => MovesTo(t, {"setErr"})
  BY <1>1 DEF SelectTimeout, Labels
<1>14. SelectError(t) \/ SelectDone(t) => MovesTo(t, {"setErr", "return"})
  BY <1>1 DEF SelectError, SelectDone, Labels
<1>15. SendError(t) => MovesTo(t, {"closeDone"})
  BY <1>1 DEF SendError, Labels
<1> QED BY <1>3, <1>4, <1>5, <1>6, <1>7, <1>8, <1>9, <1>10, <1>11, <1>12, <1>13, <1>14, <1>15

Mover(t) ==
  \/ LoadIndex(t) \/ StoreIndex(t) \/ Test(t) \/ SetError(t) \/ SetAborted(t) \/ SetIndex(t)
  \/ AppStep(t) \/ Preflight(t) \/ Recovery(t) \/ Recovered(t)
  \/ SelectTimeout(t) \/ SelectError(t) \/ SelectDone(t) \/ SendError(t)

\* They move it to a place its function has.
LEMMA Movers ==
  ASSUME TypeOK, Shape, NEW t \in Threads, Mover(t)
  PROVE  MovesTo(t, Places(t, Len(stack[t])))
<1> USE DEF MovesTo, Mover, Runs, At, LoopLabels, AbortLabels
<1>1. stack[t] # <<>> /\ Moves(t)
  BY Effects DEF Moves
<1>2. Top(t) = stack[t][Len(stack[t])] /\ Len(stack[t]) \in Nat \ {0}
  BY <1>1, TopDef
<1> DEFINE kind == Kind(Top(t).fn)  places == Places(t, Len(stack[t]))
<1>3. \/ t = 0 /\ kind = "chain" /\ Top(t).at \in LoopLabels /\ places = LoopLabels
      \/ /\ kind = "timeout" /\ Top(t).at \in places
         /\ places = (LoopLabels \ {"return"}) \union {"send", "closeDone"}
      \/ /\ kind = "app" /\ Top(t).at \in places
         /\ places = LoopLabels \union AbortLabels \union {"run"}
      \/ kind = "preflight" /\ Top(t).at \in places /\ places = {"run", "return"}
      \/ /\ kind = "recovery" /\ Top(t).at \in places
         /\ places = LoopLabels \union AbortLabels \union {"run", "recovered"}
      \/ /\ kind = "timeout" /\ Top(t).at \in places
         /\ places = AbortLabels \union {"run", "select", "return"}
  BY <1>1, <1>2, TopPlace DEF Places
<1> HIDE DEF kind, places
<1>4. CASE Test(t)
  BY <1>3, <1>4, Effects DEF Test, AfterNext, kind, places
<1>5. CASE SetIndex(t)
  BY <1>3, <1>5, Effects DEF SetIndex, AfterAbort, kind, places
<1>6. CASE LoadIndex(t) \/ StoreIndex(t) \/ SetError(t) \/ SetAborted(t)
  BY <1>3, <1>6, Effects DEF LoadIndex, StoreIndex, SetError, SetAborted, places
<1>7. CASE AppStep(t) \/ Preflight(t) \/ Recovery(t)
  BY <1>3, <1>7, Effects DEF AppStep, Preflight, Recovery, kind, places
<1>8. CASE Recovered(t) \/ SendError(t)
  BY <1>3, <1>8, Effects DEF Recovered, SendError, places
<1>9. CASE SelectTimeout(t) \/ SelectError(t) \/ SelectDone(t)
  BY <1>3, <1>9, Effects DEF SelectTimeout, SelectError, SelectDone, places
<1> QED BY <1>4, <1>5, <1>6, <1>7, <1>8, <1>9 DEF places

\* A stack of one call.
LEMMA OneFrame ==
  ASSUME NEW f \in Frames
  PROVE  <<f>> \in Seq(Frames) /\ Len(<<f>>) = 1 /\ <<f>> # <<>> /\ <<f>>[1] = f /\ Last(<<f>>) = f
<1>1. <<f>> \in Seq(Frames) /\ Len(<<f>>) = 1 /\ <<f>>[1] = f
  OBVIOUS
<1>2. <<f>> # <<>>
  BY <1>1, EmptySeq
<1> QED BY <1>1, <1>2 DEF Last

\* A Timeout starts its thread, which is a later one.
LEMMA TimeoutTop ==
  ASSUME TypeOK, Shape, NEW t \in Threads, Timeout(t), NEW p, p = Top(t).fn
  PROVE  /\ p \in Positions /\ p > t /\ Kind(p) = "timeout" /\ Len(stack[t]) > 1
         /\ stack' \in [Threads -> Seq(Frames)]
         /\ stack'[t] # <<>> /\ Len(stack'[t]) = Len(stack[t])
         /\ \A i \in 1 .. Len(stack[t]) - 1 : stack'[t][i] = stack[t][i]
         /\ stack'[t][Len(stack[t])] = Top(t)' /\ Top(t)'.fn = p /\ Top(t)'.at = "select"
         /\ stack'[p] # <<>> /\ Len(stack'[p]) = 1 /\ stack'[p][1] = Frame(p, "load")
         /\ Top(p)' = Frame(p, "load")
         /\ \A u \in Threads : u # t /\ u # p => stack'[u] = stack[u]
<1> DEFINE g == [Top(t) EXCEPT !.at = "select", !.idx = -1]
           n == Len(stack[t])
<1>1. stack[t] # <<>> /\ Top(t).at = "run" /\ Kind(p) = "timeout"
  BY DEF Timeout, Runs, At
<1>2. p \in Threads /\ p > t /\ n > 1 /\ p \in Positions
  BY <1>1, TopPlace, BoundsAssumption DEF LoopLabels, Threads, Positions
<1>3. n \in Nat \ {0} /\ n \in 1 .. n /\ Top(t) \in Frames
  BY <1>1, TopDef
<1>4. g \in Frames /\ g.fn = p /\ g.at = "select"
  BY <1>3 DEF Frames, Labels
<1>5. stack \in [Threads -> Seq(Frames)] /\ stack[t] \in Seq(Frames)
  BY DEF TypeOK
<1>6. Moved(t, "select") = [stack[t] EXCEPT ![n] = g]
  BY DEF Moved, WithTop
<1>7. stack' = [stack EXCEPT ![t] = Moved(t, "select"), ![p] = <<Frame(p, "load")>>]
  BY DEF Timeout
<1>8. Frame(p, "load") \in Frames
  BY <1>2, FrameOK DEF Labels
<1> HIDE DEF g, n
<1>9. /\ Moved(t, "select") \in Seq(Frames) /\ Len(Moved(t, "select")) = n
      /\ \A j \in 1 .. n : Moved(t, "select")[j] = IF j = n THEN g ELSE stack[t][j]
  BY <1>3, <1>4, <1>5, <1>6, ExceptSeq DEF n
<1>10. t # p
  BY <1>2 DEF Threads
<1>11. /\ stack'[t] = Moved(t, "select") /\ stack'[p] = <<Frame(p, "load")>>
       /\ \A u \in Threads : u # t /\ u # p => stack'[u] = stack[u]
       /\ stack' \in [Threads -> Seq(Frames)]
  BY <1>2, <1>5, <1>7, <1>8, <1>9, <1>10, OneFrame
<1>12. stack'[t] # <<>> /\ Top(t)' = g /\ stack'[t][n] = g
  <2>1. Top(t)' = stack'[t][Len(stack'[t])]
    BY DEF Top, Last
  <2> QED BY <1>3, <1>9, <1>11, <2>1, EmptySeq
<1>13. \A i \in 1 .. n - 1 : stack'[t][i] = stack[t][i]
  BY <1>3, <1>9, <1>11
<1>14. /\ stack'[p] # <<>> /\ Len(stack'[p]) = 1 /\ stack'[p][1] = Frame(p, "load")
       /\ Top(p)' = Frame(p, "load")
  <2>1. Top(p)' = Last(stack'[p])
    BY DEF Top
  <2> QED BY <1>8, <1>11, <2>1, OneFrame
<1> QED BY <1>1, <1>2, <1>4, <1>9, <1>11, <1>12, <1>13, <1>14 DEF n

\* What a panic in t leaves of its stack.
LEMMA PanicTop ==
  ASSUME TypeOK, Shape, NEW t \in Threads, stack[t] # <<>>, Panic(t)
  PROVE  /\ stack' \in [Threads -> Seq(Frames)]
         /\ \A u \in Threads : u # t => stack'[u] = stack[u]
         /\ \/ /\ UNCHANGED <<errCh, escaped>>
               /\ \E i \in 1 .. Len(stack[t]) :
                    /\ Kind(stack[t][i].fn) = "recovery" /\ i > 1
                    /\ Len(stack'[t]) = i /\ stack'[t] # <<>>
                    /\ \A j \in 1 .. i - 1 : stack'[t][j] = stack[t][j]
                    /\ stack'[t][i] = Top(t)' /\ Top(t)'.fn = stack[t][i].fn
                    /\ Top(t)'.at = "recovered"
            \/ /\ t = 0 /\ Recovering(0) = {} /\ stack'[t] = <<>>
               /\ escaped' = TRUE /\ UNCHANGED errCh
            \/ /\ t \in Positions /\ stack'[t] # <<>> /\ Len(stack'[t]) = 1
               /\ stack'[t][1] = Frame(t, "closeDone") /\ Top(t)' = Frame(t, "closeDone")
               /\ errCh' = [errCh EXCEPT ![t] = "error"] /\ UNCHANGED escaped
<1>1. stack \in [Threads -> Seq(Frames)]
  BY DEF TypeOK
<1>2. CASE Recovers(t)
  <2>1. PICK i \in Recovering(t) :
          stack' = [stack EXCEPT ![t] = Append(SubSeq(@, 1, i - 1), Frame(@[i].fn, "recovered"))]
    BY <1>2 DEF Recovers
  <2>2. i \in DOMAIN stack[t] /\ Kind(stack[t][i].fn) = "recovery"
    BY <2>1 DEF Recovering
  <2>3. i \in 1 .. Len(stack[t])
    BY <2>2, TopDef
  <2>4. i # 1
    <3> SUFFICES ASSUME i = 1 PROVE FALSE
        OBVIOUS
    <3>1. stack[t][i].fn = t /\ (t # 0 => Kind(t) = "timeout")
      BY <2>2 DEF Shape, GoodFrame
    <3> QED BY <2>2, <3>1 DEF Kind
  <2>5. i > 1
    BY <2>3, <2>4
  <2>6. UNCHANGED <<errCh, escaped>>
    BY <1>2 DEF Recovers
  <2> QED BY <2>1, <2>2, <2>3, <2>5, <2>6, RecoverTop
<1>3. CASE Unrecovered(t)
  <2>1. CASE t = 0
    <3>1. stack'[t] = <<>> /\ \A u \in Threads : u # t => stack'[u] = stack[u]
      BY <1>1, <1>3, <2>1 DEF Unrecovered
    <3>2. stack' \in [Threads -> Seq(Frames)]
      BY <1>1, <1>3, <2>1, EmptySeq DEF Unrecovered
    <3> QED BY <1>3, <2>1, <3>1, <3>2 DEF Unrecovered
  <2>2. CASE t # 0
    <3>1. t \in Positions
      BY <2>2, BoundsAssumption DEF Threads, Positions
    <3>2. Frame(t, "closeDone") \in Frames
      BY FrameOK DEF Labels
    <3>3. /\ stack'[t] = <<Frame(t, "closeDone")>>
          /\ \A u \in Threads : u # t => stack'[u] = stack[u]
          /\ stack' \in [Threads -> Seq(Frames)]
      BY <1>1, <1>3, <2>2, <3>2, OneFrame DEF Unrecovered
    <3>4. Top(t)' = Last(stack'[t])
      BY DEF Top
    <3> QED BY <1>3, <2>2, <3>1, <3>2, <3>3, <3>4, OneFrame DEF Unrecovered
  <2> QED BY <2>1, <2>2
<1> QED BY <1>2, <1>3 DEF Panic

-----------------------------------------------------------------------------
LEMMA StepTypeOK == TypeOK /\ Shape /\ [Next]_vars => TypeOK'
<1> SUFFICES ASSUME TypeOK, Shape, [Next]_vars PROVE TypeOK'
    OBVIOUS
<1> USE DEF flags, channels, history
<1>1. ASSUME NEW t \in Threads, Mover(t) PROVE TypeOK'
  <2>1. stack' \in [Threads -> Seq(Frames)]
    BY <1>1, Movers DEF MovesTo, Moves
  <2>2. CASE StoreIndex(t)
    <3>1. Top(t).idx + 1 \in Nat \union {-1}
      BY <2>2, TopDef DEF StoreIndex, At, Frames
    <3> QED BY <2>1, <2>2, <3>1 DEF StoreIndex, TypeOK
  <2>3. CASE SetIndex(t)
    <3>1. Len(handlers) \in Nat
      BY DEF TypeOK
    <3> QED BY <2>1, <2>3, <3>1 DEF SetIndex, TypeOK
  <2>4. CASE SetError(t) \/ SetAborted(t)
    BY <2>1, <2>4 DEF SetError, SetAborted, TypeOK
  <2>5. CASE SendError(t)
    BY <2>1, <2>5 DEF SendError, TypeOK
  <2>6. CASE UNCHANGED <<handlers, flags, channels, escaped, history>>
    BY <2>1, <2>6 DEF TypeOK
  <2> QED BY <1>1, <2>2, <2>3, <2>4, <2>5, <2>6
          DEF Mover, LoadIndex, Test, AppStep, Preflight, Recovery, Recovered, SelectTimeout,
              SelectError, SelectDone
<1>2. ASSUME NEW t \in Threads, CallHandler(t) PROVE TypeOK'
  <2>1. handlerIdx + 1 \in Threads
    BY <1>2, BoundsAssumption DEF CallHandler, TypeOK, Positions, Threads
  <2>2. stack' \in [Threads -> Seq(Frames)]
    <3>1. Frame(handlerIdx + 1, "run") \in Frames
      BY <2>1, FrameOK DEF Labels
    <3> QED BY <1>2, <3>1, PushTop DEF CallHandler, At, Labels
  <2>3. starts' \in [Positions -> Nat]
    <3>1. \A p \in Positions : starts[p] + 1 \in Nat
      BY DEF TypeOK
    <3> QED BY <1>2, <3>1 DEF CallHandler, TypeOK
  <2>4. lateStarts' \in Nat
    BY <1>2 DEF CallHandler, TypeOK
  <2> QED BY <1>2, <2>2, <2>3, <2>4 DEF CallHandler, TypeOK
<1>3. ASSUME NEW t \in Threads, CallOutOfRange(t) \/ AppPanic(t) PROVE TypeOK'
  <2>1. stack[t] # <<>> /\ Panic(t) /\ UNCHANGED <<handlers, flags, done, starts, lateStarts>>
    BY <1>3 DEF CallOutOfRange, AppPanic, Runs, At
  <2>2. stack' \in [Threads -> Seq(Frames)]
    BY <2>1, PanicTop
  <2>3. errCh' \in [Positions -> {"empty", "nil", "error"}]
    BY <2>1 DEF Panic, Recovers, Unrecovered, TypeOK
  <2>4. escaped' = escaped \/ escaped' = TRUE
    BY <2>1 DEF Panic, Recovers, Unrecovered
  <2>5. panics' \in Nat
    BY <2>1 DEF Panic, TypeOK
  <2> QED BY <2>1, <2>2, <2>3, <2>4, <2>5 DEF TypeOK
<1>4. ASSUME NEW t \in Threads, Timeout(t) PROVE TypeOK'
  <2>1. stack' \in [Threads -> Seq(Frames)]
    BY <1>4, TimeoutTop
  <2> QED BY <1>4, <2>1 DEF Timeout, TypeOK
<1>5. ASSUME NEW t \in Threads, CloseDone(t) PROVE TypeOK'
  <2>1. t \in Positions
    BY <1>5, TopPlace, BoundsAssumption
       DEF CloseDone, At, LoopLabels, AbortLabels, Threads, Positions
  <2>2. stack' \in [Threads -> Seq(Frames)]
    BY <1>5, EmptySeq DEF CloseDone, TypeOK
  <2> QED BY <1>5, <2>1, <2>2 DEF CloseDone, TypeOK
<1>6. ASSUME NEW t \in Threads, Return(t) PROVE TypeOK'
  <2>1. stack' \in [Threads -> Seq(Frames)]
    BY <1>6, PopTop DEF Return, At
  <2> QED BY <1>6, <2>1 DEF Return, TypeOK
<1>7. CASE UNCHANGED vars
  BY <1>7 DEF vars, TypeOK
<1> QED BY <1>1, <1>2, <1>3, <1>4, <1>5, <1>6, <1>7
        DEF Next, Framework, NextLoop, Abort, Middleware, Mover

\* A call happens only while the index is in order, of the next function.
LEMMA Calling ==
  ASSUME TypeOK, Calm => Indexed, NEW t \in Threads, CallHandler(t)
  PROVE  /\ Calm /\ Indexed /\ handlerIdx \in Nat /\ handlerIdx + 1 \in Positions
         /\ handlerIdx + 1 <= Len(handlers)
         /\ \A p \in Positions : starts[p] = IF p <= handlerIdx THEN 1 ELSE 0
<1>1. At(t, "call") /\ handlerIdx < Len(handlers)
  BY DEF CallHandler
<1>2. Calm /\ Indexed
  BY <1>1 DEF Calm
<1>3. Reached = handlerIdx /\ handlerIdx >= 0
  BY <1>1, <1>2 DEF Reached, Indexed
<1>4. \A p \in Positions : starts[p] = IF p <= handlerIdx THEN 1 ELSE 0
  BY <1>1, <1>2, <1>3 DEF Indexed, TypeOK, Positions
<1> QED BY <1>1, <1>2, <1>3, <1>4, BoundsAssumption DEF TypeOK, Positions

LEMMA KeptFrame ==
  ASSUME TypeOK, Shape, NEW u \in Threads, NEW i \in DOMAIN stack[u],
         handlers' = handlers, \A p \in Positions : starts[p] = 1 => starts'[p] = 1,
         stack'[u][i].fn = stack[u][i].fn, stack'[u][i].at \in Places(u, i),
         i < Len(stack'[u]) => stack'[u][i].at = "in"
  PROVE  GoodFrame(u, i)'
<1>1. GoodFrame(u, i)
  BY DEF Shape, GoodFrame
<1>2. stack[u] \in Seq(Frames) /\ i \in 1 .. Len(stack[u])
  BY LenProperties DEF TypeOK
<1>3. stack[u][i].fn \in Threads
  <2>1. stack[u][i] \in Frames
    BY <1>2, ElementOfSeq
  <2> QED BY <2>1 DEF Frames
<1>4. stack[u][i].fn # 0 => stack[u][i].fn \in Positions
  BY <1>3, BoundsAssumption DEF Threads, Positions
<1>5. Places(u, i)' = Places(u, i)
  BY DEF Places, Kind
<1> QED BY <1>1, <1>4, <1>5 DEF GoodFrame, Kind

\* Frames stay where the functions they belong to can be.
LEMMA StepShape == TypeOK /\ Shape /\ (Calm => Indexed) /\ [Next]_vars => Shape'
<1> SUFFICES ASSUME TypeOK, Shape, Calm => Indexed, [Next]_vars,
                    NEW u \in Threads, NEW i \in DOMAIN stack'[u]
             PROVE  GoodFrame(u, i)'
    BY DEF Shape, GoodFrame
<1> USE DEF flags, channels, history
<1>1. /\ DOMAIN stack'[u] = 1 .. Len(stack'[u]) /\ DOMAIN stack[u] = 1 .. Len(stack[u])
      /\ Len(stack[u]) \in Nat /\ Len(stack'[u]) \in Nat /\ i \in 1 .. Len(stack'[u])
  <2>1. stack'[u] \in Seq(Frames) /\ stack[u] \in Seq(Frames)
    BY StepTypeOK DEF TypeOK
  <2> QED BY <2>1, LenProperties
<1>2. \A j \in DOMAIN stack[u] :
        stack[u][j].at \in Places(u, j) /\ (j < Len(stack[u]) => stack[u][j].at = "in")
  BY DEF Shape, GoodFrame
<1>3. ASSUME handlers' = handlers, \A p \in Positions : starts[p] = 1 => starts'[p] = 1,
             stack'[u] = stack[u]
      PROVE  GoodFrame(u, i)'
  BY <1>2, <1>3, KeptFrame
<1>4. ASSUME NEW t \in Threads, Mover(t) PROVE GoodFrame(u, i)'
  <2>1. MovesTo(t, Places(t, Len(stack[t]))) /\ UNCHANGED <<handlers, starts>>
    BY <1>4, Movers
       DEF Mover, LoadIndex, StoreIndex, Test, SetError, SetAborted, SetIndex, AppStep,
           Preflight, Recovery, Recovered, SelectTimeout, SelectError, SelectDone, SendError
  <2>2. CASE u # t
    BY <1>3, <2>1, <2>2 DEF MovesTo, Moves
  <2>3. CASE u = t
    <3>1. i \in DOMAIN stack[t] /\ stack[t] # <<>>
      BY <1>1, <2>1, <2>3 DEF MovesTo, Moves
    <3>2. CASE i = Len(stack[t])
      BY <2>1, <2>3, <3>1, <3>2, KeptFrame, TopDef DEF MovesTo, Moves
    <3>3. CASE i # Len(stack[t])
      <4>1. stack'[t][i] = stack[t][i]
        BY <1>1, <2>1, <2>3, <3>3 DEF MovesTo, Moves
      <4>2. stack[t][i].at \in Places(t, i) /\ stack[t][i].at = "in"
        BY <1>1, <1>2, <2>3, <3>1, <3>3
      <4> QED BY <2>1, <2>3, <3>1, <4>1, <4>2, KeptFrame
    <3> QED BY <3>2, <3>3
  <2> QED BY <2>2, <2>3
<1>5. ASSUME NEW t \in Threads, CallHandler(t) PROVE GoodFrame(u, i)'
  <2> DEFINE n == Len(stack[t])
             f == Frame(handlerIdx + 1, "run")
  <2>1. /\ handlers' = handlers /\ starts'[handlerIdx + 1] = 1
        /\ \A p \in Positions : starts[p] = 1 => starts'[p] = 1
    <3> DEFINE h == handlerIdx + 1
    <3>1. h \in Positions /\ starts[h] = 0
      BY <1>5, Calling
    <3>2. handlers' = handlers /\ starts' = [starts EXCEPT ![h] = starts[h] + 1]
      BY <1>5 DEF CallHandler
    <3> HIDE DEF h
    <3>3. starts'[h] = 1 /\ \A p \in Positions : p # h => starts'[p] = starts[p]
      BY <3>1, <3>2 DEF TypeOK
    <3> QED BY <3>1, <3>2, <3>3 DEF h
  <2>2. f \in Frames /\ f.fn = handlerIdx + 1 /\ f.at = "run"
    <3>1. handlerIdx + 1 \in Threads
      BY <1>5, Calling DEF Positions, Threads
    <3> QED BY <3>1, FrameOK DEF Frame, Labels
  <2>3. /\ stack[t] # <<>> /\ Top(t).at = "call"
        /\ stack' = [stack EXCEPT ![t] = Append(Moved(t, "in"), f)]
    BY <1>5 DEF CallHandler, At
  <2> HIDE DEF f
  <2>4. /\ Len(stack'[t]) = n + 1
        /\ \A j \in 1 .. n - 1 : stack'[t][j] = stack[t][j]
        /\ stack'[t][n].fn = Top(t).fn /\ stack'[t][n].at = "in"
        /\ stack'[t][n + 1] = f
        /\ \A v \in Threads : v # t => stack'[v] = stack[v]
    <3>1. Pushes(t, "in", f)
      BY <2>2, <2>3, PushTop DEF Labels
    <3> QED BY <3>1 DEF Pushes
  <2>5. n \in Nat \ {0} /\ n \in DOMAIN stack[t] /\ Top(t) = stack[t][n]
    BY <2>3, TopDef
  <2>6. CASE u # t
    BY <1>3, <2>1, <2>4, <2>6
  <2>7. CASE u = t /\ i < n
    <3>1. stack'[t][i] = stack[t][i] /\ i \in DOMAIN stack[t]
      BY <1>1, <2>4, <2>5, <2>7
    <3> QED BY <1>2, <2>1, <2>7, <3>1, KeptFrame
  <2>8. CASE u = t /\ i = n
    <3>1. "in" \in Places(t, n)
      <4>1. Top(t).at \in Places(t, n)
        BY <1>2, <2>5, <2>8
      <4> QED BY <2>3, <4>1 DEF Places, LoopLabels, AbortLabels
    <3> QED BY <2>1, <2>4, <2>5, <2>8, <3>1, KeptFrame
  <2>9. CASE u = t /\ i = n + 1
    <3>1. t # 0 => starts[t] = 1 /\ t \in Positions
      <4>1. 1 \in DOMAIN stack[t] /\ stack[t][1].fn = t
        BY <2>3, TopDef DEF Shape, GoodFrame
      <4> QED BY <4>1, BoundsAssumption DEF Shape, GoodFrame, Threads, Positions
    <3>2. t <= handlerIdx
      BY <1>5, <3>1, Calling DEF Threads
    <3>3. handlerIdx + 1 > t /\ handlerIdx + 1 <= Len(handlers) /\ i # 1 /\ handlerIdx + 1 # 0
      BY <1>5, <2>5, <2>9, <3>2, Calling, BoundsAssumption DEF Threads
    <3>4. "run" \in Places(t, i)'
      <4>1. i > 1 /\ stack'[t][i].fn = handlerIdx + 1
        BY <2>2, <2>4, <2>5, <2>9
      <4> QED BY <4>1 DEF Places, AbortLabels
    <3> QED BY <2>1, <2>2, <2>4, <2>9, <3>3, <3>4 DEF GoodFrame
  <2> QED BY <1>1, <2>4, <2>5, <2>6, <2>7, <2>8, <2>9
<1>6. ASSUME NEW t \in Threads, CallOutOfRange(t) \/ AppPanic(t) PROVE GoodFrame(u, i)'
  <2>1. stack[t] # <<>> /\ Panic(t) /\ UNCHANGED <<handlers, starts>>
    BY <1>6 DEF CallOutOfRange, AppPanic, Runs, At
  <2>2. CASE u # t
    BY <1>3, <2>1, <2>2, PanicTop
  <2>3. CASE u = t /\ \E k \in 1 .. Len(stack[t]) :
                 /\ Kind(stack[t][k].fn) = "recovery" /\ k > 1
                 /\ Len(stack'[t]) = k /\ stack'[t] # <<>>
                 /\ \A j \in 1 .. k - 1 : stack'[t][j] = stack[t][j]
                 /\ stack'[t][k] = Top(t)' /\ Top(t)'.fn = stack[t][k].fn
                 /\ Top(t)'.at = "recovered"
    <3>1. PICK k \in 1 .. Len(stack[t]) :
                 /\ Kind(stack[t][k].fn) = "recovery" /\ k > 1
                 /\ Len(stack'[t]) = k
                 /\ \A j \in 1 .. k - 1 : stack'[t][j] = stack[t][j]
                 /\ stack'[t][k].fn = stack[t][k].fn /\ stack'[t][k].at = "recovered"
      BY <2>3
    <3>2. i \in DOMAIN stack[t]
      BY <1>1, <2>3, <3>1
    <3>3. CASE i < k
      BY <1>1, <1>2, <2>1, <2>3, <3>1, <3>2, <3>3, KeptFrame
    <3>4. CASE i = k
      <4>1. "recovered" \in Places(t, k)
        BY <3>1 DEF Places
      <4> QED BY <2>1, <2>3, <3>1, <3>2, <3>4, <4>1, KeptFrame
    <3> QED BY <1>1, <2>3, <3>1, <3>3, <3>4
  <2>4. CASE u = t /\ stack'[t] = <<>>
    BY <1>1, <2>4, EmptySeq
  <2>5. CASE u = t /\ t \in Positions /\ Len(stack'[t]) = 1 /\ stack'[t][1] = Frame(t, "closeDone")
    <3>1. i = 1 /\ ~(i < Len(stack'[t])) /\ stack'[t][i].fn = t /\ stack'[t][i].at = "closeDone"
      BY <1>1, <2>5 DEF Frame
    <3>2. 1 \in DOMAIN stack[t] /\ stack[t][1].fn = t
      BY <2>1, TopDef DEF Shape, GoodFrame
    <3>3. "closeDone" \in Places(t, 1)
      BY <2>5, BoundsAssumption DEF Places, Positions
    <3> QED BY <2>1, <2>5, <3>1, <3>2, <3>3, KeptFrame
  <2> QED BY <2>1, <2>2, <2>3, <2>4, <2>5, PanicTop
<1>7. ASSUME NEW t \in Threads, Timeout(t) PROVE GoodFrame(u, i)'
  <2> DEFINE n == Len(stack[t])
  <2>1. PICK p : p = Top(t).fn
    OBVIOUS
  <2>2. /\ p \in Positions /\ p > t /\ Kind(p) = "timeout" /\ n > 1
        /\ Len(stack'[t]) = n
        /\ \A j \in 1 .. n - 1 : stack'[t][j] = stack[t][j]
        /\ stack'[t][n].fn = p /\ stack'[t][n].at = "select"
        /\ Len(stack'[p]) = 1 /\ stack'[p][1] = Frame(p, "load")
        /\ \A v \in Threads : v # t /\ v # p => stack'[v] = stack[v]
    BY <1>7, <2>1, TimeoutTop
  <2>3. UNCHANGED <<handlers, starts>> /\ stack[t] # <<>> /\ Kind(Top(t).fn) = "timeout"
    BY <1>7 DEF Timeout, Runs, At
  <2>4. n \in Nat \ {0} /\ n \in DOMAIN stack[t] /\ Top(t) = stack[t][n]
    BY <2>3, TopDef
  <2>5. CASE u # t /\ u # p
    BY <1>3, <2>2, <2>3, <2>5
  <2>6. CASE u = t /\ i < n
    <3>1. stack'[t][i] = stack[t][i] /\ i \in DOMAIN stack[t]
      BY <1>1, <2>2, <2>4, <2>6
    <3> QED BY <1>2, <2>3, <2>6, <3>1, KeptFrame
  <2>7. CASE u = t /\ i = n
    <3>1. "select" \in Places(t, n)
      BY <2>2, <2>3, <2>4 DEF Places
    <3> QED BY <2>1, <2>2, <2>3, <2>4, <2>7, <3>1, KeptFrame
  <2>8. CASE u = p
    <3>1. /\ i = 1 /\ ~(i < Len(stack'[p]))
          /\ stack'[p][i].fn = p /\ stack'[p][i].at = "load"
      <4>1. i \in 1 .. 1
        BY <1>1, <2>2, <2>8
      <4> QED BY <2>2, <4>1 DEF Frame
    <3>2. p <= Len(handlers) /\ starts[p] = 1
      BY <2>1, <2>2, <2>3, TopPlace, BoundsAssumption DEF Positions
    <3>3. "load" \in Places(p, 1)'
      BY <2>2, BoundsAssumption DEF Places, LoopLabels, Positions
    <3> QED BY <2>2, <2>3, <2>8, <3>1, <3>2, <3>3 DEF GoodFrame, Kind
  <2> QED BY <1>1, <2>2, <2>5, <2>6, <2>7, <2>8
<1>8. ASSUME NEW t \in Threads, CloseDone(t) PROVE GoodFrame(u, i)'
  <2>1. UNCHANGED <<handlers, starts>> /\ stack' = [stack EXCEPT ![t] = <<>>]
    BY <1>8 DEF CloseDone
  <2>2. CASE u = t
    BY <1>1, <2>1, <2>2, EmptySeq DEF TypeOK
  <2> QED BY <1>3, <2>1, <2>2 DEF TypeOK
<1>9. ASSUME NEW t \in Threads, Return(t) PROVE GoodFrame(u, i)'
  <2> DEFINE n == Len(stack[t])
  <2>1. UNCHANGED <<handlers, starts>> /\ stack[t] # <<>>
    BY <1>9 DEF Return, At
  <2>2. /\ Len(stack'[t]) = n - 1
        /\ \A j \in 1 .. n - 2 : stack'[t][j] = stack[t][j]
        /\ n > 1 => stack'[t][n - 1].fn = stack[t][n - 1].fn /\ stack'[t][n - 1].at = "load"
        /\ \A v \in Threads : v # t => stack'[v] = stack[v]
    BY <1>9, <2>1, PopTop DEF Return
  <2>3. n \in Nat \ {0}
    BY <2>1, TopDef
  <2>4. CASE u # t
    BY <1>3, <2>1, <2>2, <2>4
  <2>5. CASE u = t /\ i < n - 1
    <3>1. stack'[t][i] = stack[t][i] /\ i \in DOMAIN stack[t]
      BY <1>1, <2>2, <2>3, <2>5
    <3> QED BY <1>2, <2>1, <2>5, <3>1, KeptFrame
  <2>6. CASE u = t /\ i = n - 1
    <3>1. i \in DOMAIN stack[t] /\ n > 1
      BY <1>1, <2>3, <2>6
    <3>2. "load" \in Places(t, i)
      <4>1. "in" \in Places(t, i)
        BY <1>2, <2>3, <2>6, <3>1
      <4> QED BY <4>1 DEF Places, LoopLabels, AbortLabels
    <3> QED BY <2>1, <2>2, <2>6, <3>1, <3>2, KeptFrame
  <2> QED BY <1>1, <2>2, <2>3, <2>4, <2>5, <2>6
<1>10. CASE UNCHANGED vars
  BY <1>3, <1>10 DEF vars
<1> QED BY <1>4, <1>5, <1>6, <1>7, <1>8, <1>9, <1>10
        DEF Next, Framework, NextLoop, Abort, Middleware, Mover

-----------------------------------------------------------------------------
(* What a step of thread t does to the top calls.                          *)
Acts(t) == Framework(t) \/ AppStep(t) \/ AppPanic(t)

LEMMA Same ==
  ASSUME NEW u, handlers' = handlers, stack'[u] = stack[u]
  PROVE  /\ Top(u)' = Top(u) /\ (Live(u)' <=> Live(u)) /\ (Waits(u)' <=> Waits(u))
         /\ \A label : At(u, label)' <=> At(u, label)
<1>1. Top(u)' = Top(u)
  BY DEF Top
<1> QED BY <1>1 DEF Live, Waits, At, Kind

LEMMA Acting ==
  ASSUME TypeOK, Shape, NEW t \in Threads, Acts(t)
  PROVE  /\ stack[t] # <<>> /\ handlers' = handlers
         /\ Live(t) \/ CloseDone(t)
         /\ \A u \in Threads : u # t =>
              \/ stack'[u] = stack[u]
              \/ Timeout(t) /\ u = Top(t).fn /\ stack'[u] # <<>> /\ Top(u)' = Frame(u, "load")
<1>1. CASE Mover(t)
  <2>1. Moves(t)
    BY <1>1, Movers DEF MovesTo
  <2>2. handlers' = handlers
    BY <1>1 DEF Mover, LoadIndex, StoreIndex, Test, SetError, SetAborted, SetIndex, AppStep,
           Preflight, Recovery, Recovered, SelectTimeout, SelectError, SelectDone, SendError
  <2>3. Live(t)
    BY <1>1 DEF Live, At, Runs, Mover, LoadIndex, StoreIndex, Test, SetError, SetAborted,
           SetIndex, AppStep, Preflight, Recovery, Recovered, SelectTimeout, SelectError,
           SelectDone, SendError
  <2> QED BY <2>1, <2>2, <2>3 DEF Moves
<1>2. CASE CallHandler(t)
  BY <1>2 DEF CallHandler, At, Live, TypeOK
<1>3. CASE CallOutOfRange(t) \/ AppPanic(t)
  BY <1>3, PanicTop DEF CallOutOfRange, AppPanic, Runs, At, Live
<1>4. CASE Timeout(t)
  BY <1>4, TimeoutTop DEF Timeout, Runs, At, Live
<1>5. CASE CloseDone(t)
  BY <1>5 DEF CloseDone, At, TypeOK
<1>6. CASE Return(t)
  BY <1>6 DEF Return, At, Live, TypeOK
<1> QED BY <1>1, <1>2, <1>3, <1>4, <1>5, <1>6
        DEF Acts, Framework, NextLoop, Abort, Middleware, Mover

\* Who can arrive where.
LEMMA Arrivals ==
  ASSUME TypeOK, Shape, NEW t \in Threads, Acts(t)
  PROVE  /\ At(t, "call")' => Test(t) /\ ~aborted /\ handlerIdx < Len(handlers)
         /\ At(t, "store")' => LoadIndex(t) /\ Top(t)'.idx = handlerIdx
         /\ At(t, "test")' => StoreIndex(t)
         /\ At(t, "setIndex")' => SetAborted(t)
         /\ At(t, "recovered")' => panics' = panics + 1
         /\ At(t, "run")' => CallHandler(t) \/ Kind(Top(t).fn)' = "app"
         /\ At(t, "return")' /\ Kind(Top(t).fn)' \in {"chain", "recovery"} =>
              \/ Test(t) /\ ~(handlerIdx < Len(handlers) /\ ~aborted)
              \/ At(t, "recovered") \/ SetIndex(t)
<1> USE DEF MovesTo
<1>1. Kind(Top(t).fn)' = IF Top(t)'.fn = 0 THEN "chain" ELSE handlers[Top(t)'.fn]
  BY Acting DEF Kind
<1>2. CASE Mover(t)
  <2>1. Kind(Top(t).fn)' = Kind(Top(t).fn) /\ stack[t] # <<>>
    BY <1>1, <1>2, Movers DEF Moves, Kind
  <2>2. CASE Test(t)
    <3>1. AfterNext[Kind(Top(t).fn)] = "run" => Kind(Top(t).fn) = "app"
      BY <2>1, <2>2, TopPlace DEF AfterNext, Test, At, LoopLabels, AbortLabels
    <3> QED BY <2>1, <2>2, <3>1, Effects DEF At
  <2>3. CASE SetIndex(t)
    <3>1. AfterAbort[Kind(Top(t).fn)] = "run" => Kind(Top(t).fn) = "app"
      BY <2>1, <2>3, TopPlace DEF AfterAbort, SetIndex, At, LoopLabels, AbortLabels
    <3> QED BY <2>1, <2>3, <3>1, Effects DEF At
  <2>4. CASE LoadIndex(t) \/ StoreIndex(t) \/ SetError(t) \/ SetAborted(t)
    BY <2>4, Effects DEF At
  <2>5. CASE AppStep(t) \/ Preflight(t) \/ Recovery(t)
    BY <2>1, <2>5, Effects DEF At, AppStep, Preflight, Recovery, Runs
  <2>6. CASE Recovered(t) \/ SendError(t)
    BY <2>6, Effects DEF At, Recovered
  <2>7. CASE SelectTimeout(t) \/ SelectError(t) \/ SelectDone(t)
    <3>1. Kind(Top(t).fn) = "timeout"
      BY <2>1, <2>7, TopPlace
         DEF SelectTimeout, SelectError, SelectDone, At, LoopLabels, AbortLabels
    <3> QED BY <2>1, <2>7, <3>1, Effects DEF At
  <2> QED BY <1>2, <2>2, <2>3, <2>4, <2>5, <2>6, <2>7 DEF Mover
<1>3. CASE CallHandler(t)
  <2>1. handlerIdx + 1 \in Threads
    BY <1>3, BoundsAssumption DEF CallHandler, TypeOK, Positions, Threads
  <2>2. Frame(handlerIdx + 1, "run") \in Frames /\ Frame(handlerIdx + 1, "run").at = "run"
    BY <2>1, FrameOK DEF Labels, Frame
  <2> DEFINE f == Frame(handlerIdx + 1, "run")
  <2>3. stack[t] # <<>> /\ stack' = [stack EXCEPT ![t] = Append(Moved(t, "in"), f)]
    BY <1>3 DEF CallHandler, At
  <2> HIDE DEF f
  <2>4. Top(t)' = f
    BY <2>2, <2>3, PushTop DEF Labels, f
  <2>5. Top(t)'.at = "run"
    BY <2>2, <2>4 DEF f
  <2> QED BY <1>3, <2>5 DEF At
<1>4. CASE CallOutOfRange(t) \/ AppPanic(t)
  <2>1. stack[t] # <<>> /\ Panic(t)
    BY <1>4 DEF CallOutOfRange, AppPanic, Runs, At
  <2>2. stack'[t] = <<>> \/ Top(t)'.at \in {"recovered", "closeDone"}
    <3>1. Frame(t, "closeDone").at = "closeDone"
      BY DEF Frame
    <3> QED BY <2>1, <3>1, PanicTop
  <2>3. panics' = panics + 1
    BY <2>1 DEF Panic
  <2> QED BY <2>2, <2>3 DEF At
<1>5. CASE Timeout(t)
  BY <1>5, TimeoutTop DEF At
<1>6. CASE CloseDone(t)
  BY <1>6 DEF CloseDone, At, TypeOK
<1>7. CASE Return(t)
  <2>1. stack'[t] = <<>> \/ Top(t)'.at = "load"
    <3>1. stack[t] # <<>> /\ Len(stack[t]) \in Nat \ {0}
      BY <1>7, TopDef DEF Return, At
    <3>2. /\ stack'[t] = <<>> <=> Len(stack[t]) = 1
          /\ Len(stack[t]) > 1 => Top(t)'.at = "load"
      BY <1>7, <3>1, PopTop DEF Return
    <3>3. \A n \in Nat \ {0} : n = 1 \/ n > 1
      OBVIOUS
    <3> QED BY <3>1, <3>2, <3>3
  <2> QED BY <2>1 DEF At
<1> QED BY <1>2, <1>3, <1>4, <1>5, <1>6, <1>7
        DEF Acts, Framework, NextLoop, Abort, Middleware, Mover

\* What a step leaves of the flags.
LEMMA FlagsKept ==
  ASSUME NEW t \in Threads, Acts(t)
  PROVE  /\ aborted' = aborted \/ (SetAborted(t) /\ aborted' = TRUE)
         /\ StoreIndex(t) \/ SetIndex(t) \/ handlerIdx' = handlerIdx
         /\ starts' = starts \/ CallHandler(t)
         /\ lateStarts' = lateStarts \/ CallHandler(t)
         /\ panics' = panics \/ (panics' = panics + 1 /\ Panic(t))
<1> USE DEF flags, channels, history
<1>1. CASE NextLoop(t)
  BY <1>1 DEF NextLoop, LoadIndex, StoreIndex, Test, CallHandler, CallOutOfRange, Panic
<1>2. CASE Abort(t)
  BY <1>2 DEF Abort, SetError, SetAborted, SetIndex
<1>3. CASE Middleware(t)
  BY <1>3 DEF Middleware, Preflight, Recovery, Recovered, Timeout, SelectTimeout,
              SelectError, SelectDone, SendError, CloseDone, Return
<1>4. CASE AppStep(t) \/ AppPanic(t)
  BY <1>4 DEF AppStep, AppPanic, Panic
<1> QED BY <1>1, <1>2, <1>3, <1>4 DEF Acts, Framework

LEMMA StartsGrow ==
  ASSUME TypeOK, NEW t \in Threads, Acts(t)
  PROVE  \A p \in Positions : starts'[p] >= starts[p]
<1>1. CASE starts' = starts
  BY <1>1 DEF TypeOK
<1>2. CASE CallHandler(t)
  <2> DEFINE h == handlerIdx + 1
  <2>1. starts' = [starts EXCEPT ![h] = starts[h] + 1]
    BY <1>2 DEF CallHandler
  <2> HIDE DEF h
  <2>2. \A p \in Positions : starts'[p] = starts[p] \/ starts'[p] = starts[p] + 1
    BY <2>1 DEF TypeOK
  <2> QED BY <2>2 DEF TypeOK
<1> QED BY <1>1, <1>2, FlagsKept

-----------------------------------------------------------------------------
(* The threads in order.                                                   *)
LEMMA WaitsLive == \A t : Waits(t) => Live(t)
BY DEF Waits, Live

\* The thread that works is the last one, and the only one.
LEMMA Ahead ==
  ASSUME Lead, NEW t \in Threads, Live(t), ~Waits(t), NEW u \in Threads, u # t, Live(u)
  PROVE  u < t /\ Waits(u)
BY DEF Lead, Threads

Busy == LoopLabels \union {"run", "recovered", "send"}

LEMMA BusyLive ==
  ASSUME NEW t, NEW label \in Busy, At(t, label)
  PROVE  Live(t) /\ ~Waits(t)
BY DEF Busy, LoopLabels, At, Live, Waits

LEMMA Alone ==
  ASSUME Lead, NEW t \in Threads, Live(t), ~Waits(t), NEW u \in Threads, u # t,
         NEW label \in Busy
  PROVE  ~At(u, label)
BY Ahead, BusyLive

\* The stack of the last thread changes.
LEMMA LeadLast ==
  ASSUME TypeOK, Shape, Lead, NEW t \in Threads, Live(t),
         \A u \in Threads : Live(u) => u <= t,
         handlers' = handlers, \A u \in Threads : u # t => stack'[u] = stack[u]
  PROVE  Lead'
<1> SUFFICES ASSUME NEW a \in Threads, NEW b \in Threads, Live(a)', Live(b)', a < b
             PROVE  (Waits(a) /\ Top(a).fn <= b /\ Live(Top(a).fn))'
    BY DEF Lead
<1>1. b <= t
  BY Same DEF Threads
<1>2. a # t /\ Live(a) /\ Live(b) /\ Top(a)' = Top(a) /\ (Waits(a)' <=> Waits(a))
  <2>1. a # t
    BY <1>1 DEF Threads
  <2> QED BY <2>1, Same
<1>3. Waits(a) /\ Top(a).fn <= b /\ Live(Top(a).fn)
  BY <1>2 DEF Lead
<1>4. PICK p : p = Top(a).fn
  OBVIOUS
<1>5. Live(p)'
  <2>1. p \in Threads
    BY <1>2, <1>4, TopPlace DEF Live
  <2>2. p = t => b = t
    BY <1>1, <1>3, <1>4 DEF Threads
  <2> QED BY <1>3, <1>4, <2>1, <2>2, Same
<1> QED BY <1>2, <1>3, <1>4, <1>5

\* The threads stay where they were, or go on waiting.
LEMMA LeadSame ==
  ASSUME TypeOK, Shape, Lead,
         \A u \in Threads : /\ Live(u)' <=> Live(u)
                            /\ Waits(u) => Waits(u)' /\ Top(u)'.fn = Top(u).fn
  PROVE  Lead'
<1> SUFFICES ASSUME NEW a \in Threads, NEW b \in Threads, Live(a)', Live(b)', a < b
             PROVE  (Waits(a) /\ Top(a).fn <= b /\ Live(Top(a).fn))'
    BY DEF Lead
<1>1. Waits(a) /\ Top(a).fn <= b /\ Live(Top(a).fn)
  BY DEF Lead
<1>2. PICK p : p = Top(a).fn
  OBVIOUS
<1>3. p \in Threads
  BY <1>1, <1>2, TopPlace DEF Waits
<1>4. Waits(a)' /\ Top(a)'.fn = p /\ p <= b /\ Live(p)'
  BY <1>1, <1>2, <1>3
<1> QED BY <1>4

\* A Timeout starts its thread and waits for it.
LEMMA LeadStart ==
  ASSUME TypeOK, Shape, Lead, NEW t \in Threads, Timeout(t)
  PROVE  Lead'
<1>1. PICK p : p = Top(t).fn
  OBVIOUS
<1>2. /\ p \in Positions /\ p > t /\ Kind(p) = "timeout"
      /\ stack'[t] # <<>> /\ Top(t)'.fn = p /\ Top(t)'.at = "select"
      /\ stack'[p] # <<>> /\ Top(p)' = Frame(p, "load")
      /\ \A u \in Threads : u # t /\ u # p => stack'[u] = stack[u]
  BY <1>1, TimeoutTop
<1>3. handlers' = handlers /\ Live(t) /\ ~Waits(t)
  BY BusyLive DEF Timeout, Runs, At, Busy, flags, channels, history
<1>4. \A u \in Threads : Live(u) => u <= t
  BY <1>3, Ahead DEF Threads
<1>5. Waits(t)' /\ Live(t)' /\ Live(p)'
  BY <1>2, <1>3 DEF Waits, Live, Kind, Frame
<1>6. p \in Threads
  BY <1>2, BoundsAssumption DEF Threads, Positions
<1> SUFFICES ASSUME NEW a \in Threads, NEW b \in Threads, Live(a)', Live(b)', a < b
             PROVE  (Waits(a) /\ Top(a).fn <= b /\ Live(Top(a).fn))'
    BY DEF Lead
<1>7. a <= t
  <2>1. a # p /\ (a # t => Live(a))
    <3>1. a = p => b # t /\ b # p /\ ~(b <= t)
      BY <1>2 DEF Threads, Positions
    <3> QED BY <1>2, <1>3, <1>4, <3>1, Same
  <2> QED BY <1>4, <2>1 DEF Threads
<1>8. CASE a = t
  <2>1. b = p
    <3>1. b # t /\ ~(b <= t)
      BY <1>8 DEF Threads
    <3> QED BY <1>2, <1>3, <1>4, <3>1, Same
  <2> QED BY <1>2, <1>5, <1>8, <2>1 DEF Threads
<1>9. CASE a # t
  <2>1. a < t /\ a # p
    BY <1>2, <1>7, <1>9 DEF Threads, Positions
  <2>2. Live(a) /\ Top(a)' = Top(a) /\ (Waits(a)' <=> Waits(a))
    BY <1>2, <1>3, <1>9, <2>1, Same
  <2>3. Waits(a) /\ Top(a).fn <= t /\ Live(Top(a).fn)
    BY <1>3, <2>1, <2>2 DEF Lead
  <2>4. PICK q : q = Top(a).fn
    OBVIOUS
  <2>5. q \in Threads /\ q <= t /\ Live(q)
    BY <2>2, <2>3, <2>4, TopPlace DEF Live
  <2>6. Live(q)'
    <3>1. q # p
      BY <1>2, <2>5 DEF Threads, Positions
    <3> QED BY <1>2, <1>3, <1>5, <2>5, <3>1, Same
  <2>7. q <= b
    <3>1. CASE b = p \/ b = t
      BY <1>2, <2>5, <3>1 DEF Threads, Positions
    <3>2. CASE b # p /\ b # t
      <4>1. Live(b)
        BY <1>2, <1>3, <3>2, Same
      <4> QED BY <2>2, <2>4, <4>1 DEF Lead
    <3> QED BY <3>1, <3>2
  <2> QED BY <2>2, <2>3, <2>4, <2>6, <2>7
<1> QED BY <1>8, <1>9

\* The threads that do not act stay, but for the one that Timeout starts.
LEMMA Elsewhere ==
  ASSUME TypeOK, Shape, NEW t \in Threads, Acts(t), NEW u \in Threads, u # t,
         NEW label, label # "load", At(u, label)'
  PROVE  At(u, label) /\ stack'[u] = stack[u]
<1>1. stack'[u] = stack[u]
  <2> SUFFICES ASSUME stack'[u] # stack[u] PROVE FALSE
      OBVIOUS
  <2>1. Top(u)' = Frame(u, "load")
    BY Acting
  <2> QED BY <2>1 DEF At, Frame
<1> QED BY <1>1, Acting, Same

\* A call is decided on while there is no abort.
LEMMA CallKept ==
  ASSUME TypeOK, Shape, NEW t \in Threads, Acts(t), aborted, NEW u \in Threads, At(u, "call")'
  PROVE  At(u, "call") /\ u # t
BY Arrivals, Elsewhere

LEMMA CalmBack ==
  ASSUME TypeOK, Shape, Cut, NEW t \in Threads, Acts(t), Calm'
  PROVE  Calm
<1> SUFFICES ASSUME aborted PROVE handlerIdx < Len(handlers) /\ \E u \in Threads : At(u, "call")
    BY DEF Calm
<1>1. aborted' /\ handlers' = handlers
  BY FlagsKept, Acting
<1>2. handlerIdx' < Len(handlers)
  BY <1>1 DEF Calm
<1>3. PICK u \in Threads : At(u, "call")'
  BY <1>1 DEF Calm
<1>4. At(u, "call") /\ u # t
  BY <1>3, CallKept
<1>5. handlerIdx < Len(handlers)
  <2> SUFFICES ASSUME ~(handlerIdx < Len(handlers)) PROVE FALSE
      OBVIOUS
  <2>1. Len(handlers) \in Nat /\ handlerIdx \in Int
    BY DEF TypeOK
  <2>2. \A v \in Threads : At(v, "store") => Top(v).idx + 1 >= Len(handlers)
    BY <1>4, <2>1 DEF Cut
  <2>3. CASE StoreIndex(t)
    <3>1. Top(t).idx + 1 >= Len(handlers) /\ handlerIdx' = Top(t).idx + 1 /\ Top(t).idx \in Int
      BY <2>2, <2>3, TopDef DEF StoreIndex, At, Frames
    <3> QED BY <1>2, <2>1, <3>1
  <2>4. CASE SetIndex(t)
    BY <1>2, <2>1, <2>4 DEF SetIndex
  <2>5. CASE handlerIdx' = handlerIdx
    BY <1>2, <2>1, <2>5
  <2> QED BY <2>3, <2>4, <2>5, FlagsKept
<1> QED BY <1>4, <1>5

LEMMA StepLead ==
  ASSUME IInv, NEW t \in Threads, Acts(t), Calm'
  PROVE  Lead'
<1>1. TypeOK /\ Shape /\ Cut /\ Late /\ Signals
  BY DEF IInv
<1>2. Calm /\ Lead
  BY <1>1, CalmBack DEF IInv
<1>3. stack[t] # <<>> /\ handlers' = handlers
  BY <1>1, Acting
<1>4. CASE Timeout(t)
  BY <1>1, <1>2, <1>4, LeadStart
<1>5. CASE CloseDone(t)
  <2>1. ~Live(t) /\ ~Live(t)' /\ \A u \in Threads : u # t => stack'[u] = stack[u]
    BY <1>1, <1>5 DEF CloseDone, At, Live, TypeOK
  <2> QED BY <1>1, <1>2, <1>3, <2>1, LeadSame, Same, WaitsLive
<1>6. CASE SetIndex(t)
  <2>1. aborted' /\ handlerIdx' = Len(handlers) /\ Len(handlers) \in Nat
    BY <1>1, <1>6 DEF SetIndex, Late, TypeOK
  <2> QED BY <1>3, <2>1 DEF Calm
<1>7. ASSUME ~Timeout(t), Live(t), \A u \in Threads : Live(u) => u <= t
      PROVE  Lead'
  BY <1>1, <1>2, <1>3, <1>7, Acting, LeadLast
<1>8. CASE SelectError(t) \/ SelectDone(t)
  <2>1. At(t, "select")
    BY <1>8 DEF SelectError, SelectDone
  <2>2. PICK p : p = Top(t).fn
    OBVIOUS
  <2>3. Kind(p) = "timeout" /\ p \in Positions
    BY <1>1, <1>3, <2>1, <2>2, TopPlace, BoundsAssumption
       DEF At, LoopLabels, AbortLabels, Threads, Positions
  <2>4. Live(t) /\ Waits(t)
    BY <1>3, <2>1, <2>2, <2>3 DEF Live, Waits, At
  <2>5. ~Live(p)
    BY <1>1, <1>2, <1>8, <2>2, <2>3 DEF Signals, SelectError, SelectDone
  <2>6. \A u \in Threads : Live(u) => u <= t
    BY <1>2, <2>2, <2>4, <2>5 DEF Lead, Threads
  <2>7. ~Timeout(t)
    BY <2>1 DEF Timeout, Runs, At
  <2> QED BY <1>7, <2>4, <2>6, <2>7
<1>9. CASE SelectTimeout(t) \/ ((SetError(t) \/ SetAborted(t)) /\ Waits(t))
  <2>1. MovesTo(t, {"setErr", "setAborted", "setIndex"})
    BY <1>1, <1>9, Effects DEF MovesTo
  <2>2. Waits(t)
    <3>1. SelectTimeout(t) => Kind(Top(t).fn) = "timeout" /\ At(t, "select")
      BY <1>1, <1>3, TopPlace DEF SelectTimeout, At, LoopLabels, AbortLabels
    <3> QED BY <1>9, <3>1 DEF Waits, At
  <2>3. /\ Top(t)'.fn = Top(t).fn /\ stack'[t] # <<>>
        /\ Top(t)'.at \in {"setErr", "setAborted", "setIndex"}
        /\ \A u \in Threads : u # t => stack'[u] = stack[u]
    BY <2>1 DEF MovesTo, Moves
  <2>4. Waits(t)' /\ Live(t)' /\ Live(t)
    BY <1>3, <2>2, <2>3 DEF Waits, Live, Kind
  <2> QED BY <1>1, <1>2, <1>3, <2>2, <2>3, <2>4, LeadSame, Same
<1>10. CASE ~Timeout(t) /\ Live(t) /\ ~Waits(t)
  <2>1. \A u \in Threads : Live(u) => u <= t
    BY <1>2, <1>10, Ahead DEF Threads
  <2> QED BY <1>7, <1>10, <2>1
<1>11. Live(t) \/ CloseDone(t)
  BY <1>1, Acting
<1>12. Waits(t) => SelectTimeout(t) \/ SelectError(t) \/ SelectDone(t) \/ Abort(t)
  BY DEF Waits, Acts, Framework, NextLoop, Middleware, LoadIndex, StoreIndex, Test, CallHandler,
         CallOutOfRange, Preflight, Recovery, Recovered, Timeout, SendError, CloseDone, Return,
         AppStep, AppPanic, Runs, At
<1> QED BY <1>4, <1>5, <1>6, <1>8, <1>9, <1>10, <1>11, <1>12 DEF Abort

-----------------------------------------------------------------------------
(* The channels of the Timeouts.                                           *)
LEMMA ChannelsKept ==
  ASSUME TypeOK, Shape, NEW t \in Threads, Acts(t), NEW p \in Positions
  PROVE  /\ p # t => errCh'[p] = errCh[p] /\ (p \in done' <=> p \in done)
         /\ errCh'[p] # errCh[p] => stack'[p] # <<>> /\ Top(p)'.at = "closeDone"
         /\ p \in done' /\ p \notin done => stack'[p] = <<>>
<1> USE DEF flags, channels, history
<1>1. CASE UNCHANGED channels
  BY <1>1
<1>2. CASE SendError(t)
  <2>1. errCh' = [errCh EXCEPT ![t] = IF err THEN "error" ELSE "nil"] /\ done' = done
    BY <1>2 DEF SendError
  <2>2. p # t => errCh'[p] = errCh[p]
    BY <2>1 DEF TypeOK
  <2>3. stack'[t] # <<>> /\ Top(t)'.at = "closeDone"
    BY <1>2, Effects DEF MovesTo, Moves
  <2> QED BY <2>1, <2>2, <2>3
<1>3. CASE CloseDone(t)
  BY <1>3 DEF CloseDone, TypeOK
<1>4. CASE CallOutOfRange(t) \/ AppPanic(t)
  <2>1. stack[t] # <<>> /\ Panic(t) /\ done' = done
    BY <1>4 DEF CallOutOfRange, AppPanic, Runs, At
  <2>2. \/ errCh' = errCh
        \/ /\ stack'[t] # <<>> /\ Top(t)' = Frame(t, "closeDone")
           /\ errCh' = [errCh EXCEPT ![t] = "error"]
    BY <2>1, PanicTop
  <2>3. p # t => errCh'[p] = errCh[p]
    BY <2>2 DEF TypeOK
  <2>4. errCh' # errCh => stack'[t] # <<>> /\ Top(t)'.at = "closeDone"
    BY <2>2 DEF Frame
  <2> QED BY <2>1, <2>3, <2>4
<1> QED BY <1>1, <1>2, <1>3, <1>4
        DEF Acts, Framework, NextLoop, Abort, Middleware, LoadIndex, StoreIndex, Test, CallHandler,
            SetError, SetAborted, SetIndex, Preflight, Recovery, Recovered, Timeout,
            SelectTimeout, SelectError, SelectDone, Return, AppStep

\* Nobody touches the thread of a Timeout before that Timeout runs.
LEMMA StaysUntouched ==
  ASSUME TypeOK, Shape, NEW t \in Threads, Acts(t), NEW p \in Positions, Untouched(p),
         ~(Timeout(t) /\ p = Top(t).fn)
  PROVE  Untouched(p)'
<1>1. p # t
  BY Acting DEF Untouched
<1>2. stack'[p] = stack[p]
  BY <1>1, Acting, BoundsAssumption DEF Threads, Positions
<1> QED BY <1>1, <1>2, ChannelsKept DEF Untouched

LEMMA StepSignals ==
  ASSUME IInv, NEW t \in Threads, Acts(t)
  PROVE  Signals'
<1>1. TypeOK /\ Shape /\ Cut /\ Late /\ Signals /\ (Calm => Lead /\ Indexed)
  BY DEF IInv
<1>2. stack[t] # <<>> /\ handlers' = handlers
  BY <1>1, Acting
<1>3. ASSUME NEW p \in Positions, starts'[p] = 0
      PROVE  Untouched(p)'
  <2>1. starts[p] = 0 /\ Untouched(p)
    <3>1. starts'[p] >= starts[p] /\ starts[p] \in Nat
      BY <1>1, StartsGrow DEF TypeOK
    <3> QED BY <1>1, <1>3, <3>1 DEF Signals
  <2>2. ~(Timeout(t) /\ p = Top(t).fn)
    BY <1>1, <1>2, <2>1, TopPlace, BoundsAssumption DEF Positions
  <2> QED BY <1>1, <2>1, <2>2, StaysUntouched
<1>4. ASSUME Calm', NEW u \in Threads, At(u, "run")', Kind(Top(u).fn)' = "timeout"
      PROVE  Untouched(Top(u).fn)'
  <2>1. Calm /\ Lead /\ Indexed
    BY <1>1, <1>4, CalmBack
  <2>2. PICK p : p = Top(u)'.fn
    OBVIOUS
  <2>4. CASE u = t
    <3>1. CallHandler(t)
      BY <1>1, <1>4, <2>4, Arrivals
    <3> DEFINE f == Frame(handlerIdx + 1, "run")
    <3>2. handlerIdx + 1 \in Positions /\ starts[handlerIdx + 1] = 0 /\ handlerIdx \in Nat
      BY <1>1, <3>1, Calling
    <3>3. f \in Frames /\ f.fn = handlerIdx + 1
      <4>1. handlerIdx + 1 \in Threads
        BY <3>2, BoundsAssumption DEF Threads, Positions
      <4> QED BY <4>1, FrameOK DEF Labels, Frame
    <3>4. stack' = [stack EXCEPT ![t] = Append(Moved(t, "in"), f)]
      BY <3>1 DEF CallHandler
    <3> HIDE DEF f
    <3>5. Top(t)' = f
      BY <1>1, <1>2, <3>3, <3>4, PushTop DEF Labels
    <3>6. p \in Positions /\ Untouched(p)
      BY <1>1, <2>2, <2>4, <3>2, <3>3, <3>5 DEF Signals
    <3>7. ~Timeout(t)
      BY <3>1 DEF CallHandler, Timeout, Runs, At
    <3> QED BY <1>1, <2>2, <3>6, <3>7, StaysUntouched
  <2>5. CASE u # t
    <3>1. At(u, "run") /\ stack'[u] = stack[u]
      BY <1>1, <1>4, <2>5, Elsewhere
    <3>2. Top(u)' = Top(u)
      BY <1>2, <3>1, Same
    <3>3. Kind(p) = "timeout" /\ Untouched(p)
      BY <1>1, <1>2, <1>4, <2>1, <2>2, <3>1, <3>2 DEF Signals, Kind
    <3>4. p \in Positions
      <4>1. p \in Threads /\ p # 0
        BY <1>1, <2>2, <3>1, <3>2, <3>3, TopPlace DEF At, Kind
      <4> QED BY <4>1, BoundsAssumption DEF Threads, Positions
    <3>5. ~Timeout(t)
      <4> SUFFICES ASSUME Timeout(t) PROVE FALSE
          OBVIOUS
      <4>1. At(t, "run")
        BY DEF Timeout, Runs
      <4> QED BY <2>1, <2>5, <3>1, <4>1, BusyLive, Alone DEF Busy
    <3> QED BY <1>1, <2>2, <3>3, <3>4, <3>5, StaysUntouched
  <2> QED BY <2>4, <2>5
<1>5. ASSUME Calm', NEW p \in Positions, errCh'[p] # "empty" \/ p \in done', Live(p)'
      PROVE  FALSE
  <2>1. Calm
    BY <1>1, <1>5, CalmBack
  <2>2. p \in Threads
    BY BoundsAssumption DEF Threads, Positions
  <2>3. errCh'[p] = errCh[p] /\ (p \in done' => p \in done)
    BY <1>1, <1>5, ChannelsKept DEF Live
  <2>4. ~Live(p)
    BY <1>1, <1>5, <2>1, <2>3 DEF Signals
  <2>5. stack'[p] # stack[p]
    BY <1>2, <1>5, <2>4, Same
  <2>6. p # t
    <3>1. CloseDone(t) => stack'[t] = <<>>
      BY <1>1 DEF CloseDone, TypeOK
    <3> QED BY <1>1, <1>5, <2>4, <3>1, Acting DEF Live
  <2>7. Timeout(t) /\ p = Top(t).fn
    BY <1>1, <2>2, <2>5, <2>6, Acting
  <2>8. At(t, "run") /\ Kind(Top(t).fn) = "timeout"
    BY <2>7 DEF Timeout, Runs
  <2>9. Untouched(p)
    BY <1>1, <2>1, <2>7, <2>8 DEF Signals
  <2> QED BY <1>5, <2>3, <2>9 DEF Untouched
<1> QED BY <1>3, <1>4, <1>5 DEF Signals

-----------------------------------------------------------------------------
(* The index.                                                              *)
LEMMA IndexedSame ==
  ASSUME Indexed, handlers' = handlers, handlerIdx' = handlerIdx, starts' = starts,
         \A u \in Threads : /\ At(u, "test")' <=> At(u, "test")
                            /\ At(u, "call")' <=> At(u, "call")
                            /\ At(u, "store")' => Top(u)'.idx = handlerIdx
  PROVE  Indexed'
<1>1. Reached' = Reached
  BY DEF Reached
<1> QED BY <1>1 DEF Indexed

LEMMA StepIndexed ==
  ASSUME IInv, NEW t \in Threads, Acts(t), Calm'
  PROVE  Indexed'
<1>1. TypeOK /\ Shape /\ Cut /\ Late
  BY DEF IInv
<1>2. Calm /\ Lead /\ Indexed
  BY <1>1, CalmBack DEF IInv
<1>3. stack[t] # <<>> /\ handlers' = handlers
  BY <1>1, Acting
<1>4. Len(handlers) \in Nat /\ handlerIdx \in Int
  BY <1>1 DEF TypeOK
<1>5. ASSUME NEW label \in {"store", "test", "call"}, At(t, label)
      PROVE  /\ \A u \in Threads : u # t => ~At(u, "store") /\ ~At(u, "test") /\ ~At(u, "call")
             /\ \A u \in Threads : u # t =>
                  ~At(u, "store")' /\ ~At(u, "test")' /\ ~At(u, "call")'
  <2>1. Live(t) /\ ~Waits(t)
    BY <1>5, BusyLive DEF Busy, LoopLabels
  <2>2. \A u \in Threads : u # t => ~At(u, "store") /\ ~At(u, "test") /\ ~At(u, "call")
    BY <1>2, <2>1, Alone DEF Busy, LoopLabels
  <2> QED BY <1>1, <2>2, Elsewhere
<1>6. CASE StoreIndex(t)
  <2>1. At(t, "store") /\ handlerIdx' = Top(t).idx + 1 /\ starts' = starts /\ At(t, "test")'
    BY <1>1, <1>6, Effects DEF StoreIndex, history, MovesTo, Moves, At
  <2>2. handlerIdx' = handlerIdx + 1
    BY <1>2, <2>1 DEF Indexed
  <2>3. \A u \in Threads : ~At(u, "test") /\ ~At(u, "call")
    BY <1>5, <2>1 DEF At
  <2>4. Reached = handlerIdx + 1 /\ Reached' = handlerIdx + 1
    BY <2>1, <2>2, <2>3 DEF Reached
  <2>5. \A u \in Threads : ~At(u, "store")' /\ ~At(u, "call")'
    BY <1>5, <2>1 DEF At
  <2>6. handlerIdx' >= 0
    BY <1>1, <2>2 DEF TypeOK
  <2>7. \A p \in Positions : starts'[p] = IF p <= Reached' /\ p <= Len(handlers)' THEN 1 ELSE 0
    BY <1>2, <1>3, <2>1, <2>4 DEF Indexed
  <2> QED BY <2>5, <2>6, <2>7 DEF Indexed
<1>7. CASE Test(t)
  <2>1. At(t, "test") /\ handlerIdx' = handlerIdx /\ starts' = starts /\ aborted' = aborted
    BY <1>7 DEF Test, flags, history
  <2>2. \A u \in Threads : ~At(u, "call")
    BY <1>5, <2>1 DEF At
  <2>3. ~aborted /\ Reached = handlerIdx /\ handlerIdx >= 0
    BY <1>2, <2>1, <2>2 DEF Calm, Reached, Indexed
  <2>4. \A u \in Threads : ~At(u, "store")' /\ ~At(u, "test")' /\ (u # t => ~At(u, "call")')
    BY <1>1, <1>5, <1>7, <2>1, Arrivals DEF Test, StoreIndex, LoadIndex, At
  <2>5. CASE At(t, "call")'
    <3>1. handlerIdx < Len(handlers)
      BY <1>1, <2>5, Arrivals
    <3>2. Reached' = handlerIdx
      BY <2>1, <2>5 DEF Reached
    <3>3. \A p \in Positions : starts'[p] = IF p <= Reached' /\ p <= Len(handlers)' THEN 1 ELSE 0
      BY <1>2, <1>3, <2>1, <2>3, <3>2 DEF Indexed
    <3> QED BY <1>3, <2>1, <2>3, <2>4, <3>1, <3>3 DEF Indexed
  <2>6. CASE ~At(t, "call")'
    <3>1. handlerIdx >= Len(handlers)
      <4>1. MovesTo(t, {"call"}) => At(t, "call")'
        BY DEF MovesTo, Moves, At
      <4>2. ~(handlerIdx < Len(handlers))
        BY <1>1, <1>7, <2>3, <2>6, <4>1, Effects
      <4> QED BY <1>4, <4>2
    <3>2. Reached' = handlerIdx + 1
      BY <2>1, <2>4, <2>6 DEF Reached
    <3>3. \A p \in Positions : starts'[p] = IF p <= Reached' /\ p <= Len(handlers)' THEN 1 ELSE 0
      <4>1. \A p \in Positions : p <= handlerIdx + 1 /\ p <= Len(handlers)
                                <=> p <= handlerIdx /\ p <= Len(handlers)
        BY <1>4, <3>1 DEF Positions
      <4>2. \A p \in Positions : starts[p] = IF p <= handlerIdx /\ p <= Len(handlers) THEN 1 ELSE 0
        BY <1>2, <2>3 DEF Indexed
      <4> QED BY <1>3, <2>1, <3>2, <4>1, <4>2
    <3> QED BY <2>4, <2>6, <3>3 DEF Indexed
  <2> QED BY <2>5, <2>6
<1>8. CASE CallHandler(t)
  <2> DEFINE h == handlerIdx + 1
  <2>1. At(t, "call") /\ handlerIdx' = handlerIdx /\ starts' = [starts EXCEPT ![h] = starts[h] + 1]
    BY <1>8 DEF CallHandler, flags
  <2>2. /\ h \in Positions /\ h <= Len(handlers)
        /\ \A p \in Positions : starts[p] = IF p <= handlerIdx THEN 1 ELSE 0
    BY <1>1, <1>2, <1>8, Calling
  <2>3. \A u \in Threads : ~At(u, "store")' /\ ~At(u, "test")' /\ ~At(u, "call")'
    BY <1>1, <1>5, <1>8, <2>1, Arrivals DEF CallHandler, Test, StoreIndex, LoadIndex, At
  <2>4. Reached' = h
    BY <2>1, <2>3 DEF Reached
  <2>5. \A p \in Positions : starts'[p] = IF p = h THEN starts[h] + 1 ELSE starts[p]
    <3> HIDE DEF h
    <3> QED BY <1>1, <2>1, <2>2 DEF TypeOK
  <2>6. \A p \in Positions : starts'[p] = IF p <= h /\ p <= Len(handlers) THEN 1 ELSE 0
    BY <1>4, <2>2, <2>5 DEF Positions
  <2> HIDE DEF h
  <2> QED BY <1>3, <2>3, <2>4, <2>6 DEF Indexed
<1>9. CASE CallOutOfRange(t) \/ SetIndex(t)
  <2>1. ~CallOutOfRange(t)
    BY <1>2, <1>4 DEF CallOutOfRange, Indexed
  <2>2. ~SetIndex(t)
    BY <1>1, <1>3, <1>4 DEF SetIndex, Late, Calm
  <2> QED BY <1>9, <2>1, <2>2
<1>10. CASE ~StoreIndex(t) /\ ~Test(t) /\ ~CallHandler(t) /\ ~CallOutOfRange(t) /\ ~SetIndex(t)
  <2>1. handlerIdx' = handlerIdx /\ starts' = starts
    BY <1>10, FlagsKept
  <2>2. ~At(t, "test") /\ ~At(t, "call")
    BY <1>10 DEF Acts, Framework, NextLoop, Abort, Middleware, LoadIndex, SetError, SetAborted,
          Preflight, Recovery, Recovered, Timeout, SelectTimeout, SelectError, SelectDone,
          SendError, CloseDone, Return, AppStep, AppPanic, Runs, At
  <2>3. ~At(t, "test")' /\ ~At(t, "call")' /\ (At(t, "store")' => Top(t)'.idx = handlerIdx)
    BY <1>1, <1>10, Arrivals
  <2>4. ASSUME NEW u \in Threads, u # t
        PROVE  /\ At(u, "test")' <=> At(u, "test")
               /\ At(u, "call")' <=> At(u, "call")
               /\ At(u, "store")' => Top(u)'.idx = handlerIdx
    <3>1. CASE stack'[u] = stack[u]
      BY <1>2, <1>3, <3>1, Same DEF Indexed
    <3>2. CASE stack'[u] # stack[u]
      <4>1. Timeout(t) /\ Top(u)' = Frame(u, "load")
        BY <1>1, <2>4, <3>2, Acting
      <4>2. Live(t) /\ ~Waits(t)
        BY <4>1, BusyLive DEF Timeout, Runs, Busy
      <4> QED BY <1>2, <2>4, <4>1, <4>2, Alone DEF At, Frame, Busy, LoopLabels
    <3> QED BY <3>1, <3>2
  <2> QED BY <1>2, <1>3, <2>1, <2>2, <2>3, <2>4, IndexedSame
<1> QED BY <1>6, <1>7, <1>8, <1>9, <1>10

-----------------------------------------------------------------------------
(* The history of the calls and the aborts.                                *)
LEMMA StepInOrderOnce ==
  ASSUME IInv, NEW t \in Threads, Acts(t)
  PROVE  InOrderOnce'
<1>1. TypeOK /\ InOrderOnce /\ (Calm => Indexed)
  BY DEF IInv
<1>2. CASE starts' = starts
  BY <1>1, <1>2 DEF InOrderOnce
<1>3. CASE CallHandler(t)
  <2> DEFINE h == handlerIdx + 1
  <2>1. /\ h \in Positions /\ handlerIdx \in Nat
        /\ \A p \in Positions : starts[p] = IF p <= handlerIdx THEN 1 ELSE 0
    BY <1>1, <1>3, Calling
  <2>2. starts' = [starts EXCEPT ![h] = starts[h] + 1]
    BY <1>3 DEF CallHandler
  <2>3. \A p \in Positions : starts'[p] = IF p = h THEN starts[h] + 1 ELSE starts[p]
    <3> HIDE DEF h
    <3> QED BY <1>1, <2>1, <2>2 DEF TypeOK
  <2>4. \A p \in Positions : starts'[p] = IF p <= h THEN 1 ELSE 0
    BY <2>1, <2>3 DEF Positions
  <2> HIDE DEF h
  <2>5. \A p \in Positions : \A q \in 1 .. p - 1 : q \in Positions /\ q <= p
    BY BoundsAssumption DEF Positions
  <2>6. \A p \in Positions : starts'[p] = 1 => p <= h
    BY <2>4
  <2>7. ASSUME NEW p \in Positions, starts'[p] = 1, NEW q \in 1 .. p - 1
        PROVE  starts'[q] = 1
    <3>1. q \in Positions /\ q <= p /\ p <= h
      BY <2>5, <2>6, <2>7
    <3>2. q <= h
      BY <2>1, <3>1 DEF Positions
    <3> QED BY <2>4, <3>1, <3>2
  <2>8. \A p \in Positions : starts'[p] <= 1
    BY <2>4
  <2> QED BY <2>7, <2>8 DEF InOrderOnce
<1> QED BY <1>2, <1>3, FlagsKept

LEMMA StepCut ==
  ASSUME IInv, NEW t \in Threads, Acts(t)
  PROVE  Cut'
<1>1. TypeOK /\ Shape /\ Cut /\ (Calm => Lead /\ Indexed)
  BY DEF IInv
<1>2. handlers' = handlers /\ Len(handlers) \in Nat /\ handlerIdx \in Int
  BY <1>1, Acting DEF TypeOK
<1> SUFFICES ASSUME aborted', handlerIdx' >= Len(handlers), NEW u \in Threads, At(u, "call")',
                    NEW v \in Threads, At(v, "store")'
             PROVE  Top(v)'.idx + 1 >= Len(handlers)
    BY <1>2 DEF Cut
<1>3. At(u, "call")
  <2>1. u = t => ~aborted /\ Test(t)
    BY <1>1, Arrivals
  <2>2. Test(t) => aborted' = aborted
    BY DEF Test, flags
  <2> QED BY <1>1, <2>1, <2>2, Elsewhere
<1>4. Live(u) /\ ~Waits(u)
  BY <1>3, BusyLive DEF Busy, LoopLabels
<1>5. u # v
  <2>1. u = v => ~At(u, "store")'
    BY DEF At
  <2> QED BY <2>1
<1>6. CASE aborted /\ handlerIdx >= Len(handlers)
  <2>1. CASE v = t
    BY <1>1, <1>2, <1>6, <2>1, Arrivals
  <2>2. CASE v # t
    <3>1. At(v, "store") /\ Top(v)' = Top(v)
      BY <1>1, <1>2, <2>2, Elsewhere, Same
    <3> QED BY <1>1, <1>3, <1>6, <3>1 DEF Cut
  <2> QED BY <2>1, <2>2
<1>7. CASE ~(aborted /\ handlerIdx >= Len(handlers))
  <2>1. Calm
    BY <1>2, <1>3, <1>7 DEF Calm
  <2>2. handlerIdx < Len(handlers)
    BY <1>1, <1>3, <2>1 DEF Indexed
  <2>3. StoreIndex(t) \/ SetIndex(t)
    <3>1. handlerIdx' # handlerIdx
      BY <1>2, <2>2
    <3> QED BY <3>1, FlagsKept
  <2>4. At(v, "store")
    BY <1>1, <2>3, Arrivals, Elsewhere DEF LoadIndex, StoreIndex, SetIndex, At
  <2> QED BY <1>1, <1>4, <1>5, <2>1, <2>4, Alone DEF Busy, LoopLabels
<1> QED BY <1>6, <1>7

LEMMA StepLate ==
  ASSUME IInv, NEW t \in Threads, Acts(t)
  PROVE  Late'
<1>1. TypeOK /\ Shape /\ Cut /\ Late /\ (Calm => Lead /\ Indexed)
  BY DEF IInv
<1>2. handlers' = handlers
  BY <1>1, Acting
<1>3. ASSUME NEW u \in Threads, At(u, "setIndex")'
      PROVE  aborted'
  <2>1. CASE u = t
    BY <1>1, <1>3, <2>1, Arrivals DEF SetAborted
  <2>2. CASE u # t
    <3>1. aborted
      BY <1>1, <1>3, <2>2, Elsewhere DEF Late
    <3> QED BY <3>1, FlagsKept
  <2> QED BY <2>1, <2>2
<1>4. ASSUME Calm'
      PROVE  lateStarts' = 0
  <2>1. Calm /\ Lead /\ lateStarts = 0
    BY <1>1, <1>4, CalmBack DEF Late
  <2>2. CASE lateStarts' = lateStarts
    BY <2>1, <2>2
  <2>3. CASE CallHandler(t)
    <3>1. ~aborted
      <4> SUFFICES ASSUME aborted PROVE FALSE
          OBVIOUS
      <4>1. aborted'
        BY FlagsKept
      <4>2. PICK u \in Threads : At(u, "call")'
        BY <1>4, <4>1 DEF Calm
      <4>3. At(u, "call") /\ u # t
        BY <1>1, <4>2, CallKept
      <4>4. Live(t) /\ ~Waits(t)
        BY <2>3, BusyLive DEF CallHandler, Busy, LoopLabels
      <4> QED BY <2>1, <4>3, <4>4, Alone DEF Busy, LoopLabels
    <3> QED BY <2>1, <2>3, <3>1 DEF CallHandler
  <2> QED BY <2>2, <2>3, FlagsKept
<1>5. ASSUME NEW u \in Threads, aborted', At(u, "call")'
      PROVE  "timeout" \in Range(handlers)
  <2>1. At(u, "call") /\ (u = t => ~aborted /\ Test(t))
    BY <1>1, <1>5, Arrivals, Elsewhere DEF Test, flags
  <2>2. CASE aborted
    BY <1>1, <2>1, <2>2 DEF Late
  <2>3. CASE ~aborted
    <3>1. SetAborted(t)
      BY <1>5, <2>3, FlagsKept
    <3>2. Calm /\ Lead
      BY <1>1, <2>3 DEF Calm
    <3>3. Live(u) /\ ~Waits(u) /\ u # t
      BY <2>1, <3>1, BusyLive DEF Busy, LoopLabels, SetAborted, At
    <3>4. Live(t)
      BY <3>1 DEF SetAborted, At, Live
    <3>5. Waits(t)
      BY <3>2, <3>3, <3>4, Ahead
    <3>6. PICK p : p = Top(t).fn
      OBVIOUS
    <3>7. p \in Threads /\ p <= Len(handlers) /\ p # 0 /\ handlers[p] = "timeout"
      BY <1>1, <3>5, <3>6, TopPlace DEF Waits, Kind
    <3>8. p \in DOMAIN handlers
      <4>1. DOMAIN handlers = 1 .. Len(handlers) /\ Len(handlers) \in Nat
        BY <1>1, LenProperties DEF TypeOK
      <4> QED BY <3>7, <4>1, BoundsAssumption DEF Threads
    <3> QED BY <3>7, <3>8 DEF Range
  <2> QED BY <2>2, <2>3
<1> QED BY <1>2, <1>3, <1>4, <1>5 DEF Late

LEMMA StepAbort ==
  ASSUME IInv, NEW t \in Threads, Acts(t)
  PROVE  AbortStopsAllButOne'
<1>1. TypeOK /\ Shape /\ Late /\ AbortStopsAllButOne /\ (Calm => Indexed)
  BY DEF IInv
<1>2. handlers' = handlers
  BY <1>1, Acting
<1>3. CASE lateStarts' = lateStarts
  BY <1>1, <1>2, <1>3 DEF AbortStopsAllButOne
<1>4. CASE CallHandler(t)
  <2>1. lateStarts = 0
    BY <1>1, <1>4, Calling DEF Late
  <2>2. aborted => "timeout" \in Range(handlers)
    BY <1>1, <1>4 DEF Late, CallHandler
  <2>3. lateStarts' = IF aborted THEN 1 ELSE 0
    BY <1>4, <2>1 DEF CallHandler
  <2> QED BY <1>2, <2>2, <2>3 DEF AbortStopsAllButOne
<1> QED BY <1>3, <1>4, FlagsKept

-----------------------------------------------------------------------------
(* The bottom of the request's own stack.                                  *)
Bottom ==
  /\ stack'[0] = <<>> => stack[0] = <<>> \/ (Return(0) /\ Len(stack[0]) = 1)
  /\ Len(stack'[0]) = 1 => Len(stack[0]) = 1 \/ (Return(0) /\ Len(stack[0]) = 2)
  /\ Len(stack'[0]) > 1 =>
       \/ Len(stack[0]) > 1 /\ stack'[0][2].fn = stack[0][2].fn
       \/ CallHandler(0) /\ Len(stack[0]) = 1 /\ stack'[0][2].fn = handlerIdx + 1

LEMMA StepBottom ==
  ASSUME TypeOK, Shape, NEW t \in Threads, Acts(t), panics' = panics
  PROVE  Bottom
<1>1. 0 \in Threads /\ Len(stack[0]) \in Nat /\ panics \in Nat
  BY BoundsAssumption, LenProperties DEF Threads, TypeOK
<1>2. CASE t # 0
  <2>1. stack'[0] = stack[0]
    <3>1. Timeout(t) => Top(t).fn # 0
      BY TimeoutTop DEF Positions
    <3> QED BY <1>1, <1>2, <3>1, Acting
  <2>2. stack[0] # <<>> => Len(stack[0]) \in Nat \ {0}
    BY <1>1, TopDef
  <2> QED BY <2>1 DEF Bottom
<1>3. CASE t = 0
  <2>1. stack[0] # <<>> /\ Len(stack[0]) \in Nat \ {0}
    BY <1>1, <1>3, Acting, TopDef
  <2>2. Top(0) = stack[0][Len(stack[0])]
    BY <1>1, <2>1, TopDef
  <2>3. ASSUME stack'[0] # <<>>, Len(stack'[0]) = Len(stack[0]),
               \A i \in 1 .. Len(stack[0]) - 1 : stack'[0][i] = stack[0][i],
               stack'[0][Len(stack[0])].fn = Top(0).fn
        PROVE  Bottom
    <3>1. Len(stack'[0]) > 1 => stack'[0][2].fn = stack[0][2].fn
      <4>1. CASE Len(stack[0]) = 2
        BY <2>2, <2>3, <4>1
      <4>2. CASE Len(stack[0]) > 2
        <5>1. 2 \in 1 .. Len(stack[0]) - 1
          BY <2>1, <4>2
        <5> QED BY <2>3, <5>1
      <4>3. \A n \in Nat : n > 1 => n = 2 \/ n > 2
        OBVIOUS
      <4> QED BY <1>1, <2>3, <4>1, <4>2, <4>3
    <3> QED BY <2>3, <3>1 DEF Bottom
  <2>4. CASE Mover(0)
    BY <1>1, <2>3, <2>4, Movers DEF MovesTo, Moves
  <2>5. CASE Timeout(0)
    BY <1>1, <2>3, <2>5, TimeoutTop
  <2>6. CASE CallHandler(0)
    <3> DEFINE f == Frame(handlerIdx + 1, "run")
    <3>1. handlerIdx + 1 \in Threads
      BY <2>6, BoundsAssumption DEF CallHandler, TypeOK, Positions, Threads
    <3>2. f \in Frames /\ f.fn = handlerIdx + 1
      BY <3>1, FrameOK DEF Labels, Frame
    <3>3. stack' = [stack EXCEPT ![0] = Append(Moved(0, "in"), f)]
      BY <2>6 DEF CallHandler
    <3> HIDE DEF f
    <3>4. /\ Len(stack'[0]) = Len(stack[0]) + 1 /\ stack'[0] # <<>>
          /\ \A i \in 1 .. Len(stack[0]) - 1 : stack'[0][i] = stack[0][i]
          /\ stack'[0][Len(stack[0])].fn = Top(0).fn
          /\ stack'[0][Len(stack[0]) + 1] = f
      BY <1>1, <2>1, <3>2, <3>3, PushTop DEF Labels
    <3>5. CASE Len(stack[0]) = 1
      <4>1. Len(stack'[0]) = 2 /\ stack'[0][2].fn = handlerIdx + 1
        BY <3>2, <3>4, <3>5
      <4> QED BY <2>6, <3>4, <3>5, <4>1 DEF Bottom
    <3>6. CASE Len(stack[0]) > 1
      <4>1. stack'[0][2].fn = stack[0][2].fn
        <5>1. CASE Len(stack[0]) = 2
          BY <2>2, <3>4, <5>1
        <5>2. CASE Len(stack[0]) > 2
          <6>1. 2 \in 1 .. Len(stack[0]) - 1
            BY <2>1, <5>2
          <6> QED BY <3>4, <6>1
        <5>3. \A n \in Nat : n > 1 => n = 2 \/ n > 2
          OBVIOUS
        <5> QED BY <1>1, <3>6, <5>1, <5>2, <5>3
      <4>2. Len(stack'[0]) # 1
        BY <1>1, <3>4, <3>6
      <4> QED BY <3>4, <3>6, <4>1, <4>2 DEF Bottom
    <3>7. \A n \in Nat \ {0} : n = 1 \/ n > 1
      OBVIOUS
    <3> QED BY <2>1, <3>5, <3>6, <3>7
  <2>7. ~CallOutOfRange(0) /\ ~AppPanic(0)
    <3>1. CallOutOfRange(0) \/ AppPanic(0) => panics' = panics + 1
      BY DEF CallOutOfRange, AppPanic, Panic
    <3>2. panics + 1 # panics
      BY <1>1
    <3> QED BY <3>1, <3>2
  <2>8. ~CloseDone(0)
    BY <1>1, TopPlace DEF CloseDone, At, LoopLabels, AbortLabels
  <2>9. CASE Return(0)
    <3>1. /\ Len(stack'[0]) = Len(stack[0]) - 1
          /\ stack'[0] = <<>> <=> Len(stack[0]) = 1
          /\ \A i \in 1 .. Len(stack[0]) - 2 : stack'[0][i] = stack[0][i]
          /\ Len(stack[0]) > 1 =>
               stack'[0][Len(stack[0]) - 1].fn = stack[0][Len(stack[0]) - 1].fn
      BY <1>1, <2>1, <2>9, PopTop DEF Return
    <3>2. ASSUME Len(stack'[0]) > 1
          PROVE  Len(stack[0]) > 1 /\ stack'[0][2].fn = stack[0][2].fn
      <4>1. Len(stack[0]) > 2
        BY <1>1, <3>1, <3>2
      <4>2. CASE Len(stack[0]) = 3
        BY <3>1, <4>2
      <4>3. CASE Len(stack[0]) > 3
        <5>1. 2 \in 1 .. Len(stack[0]) - 2
          BY <1>1, <4>3
        <5> QED BY <1>1, <3>1, <4>3, <5>1
      <4>4. \A n \in Nat : n > 2 => n > 1 /\ (n = 3 \/ n > 3)
        OBVIOUS
      <4> QED BY <1>1, <4>1, <4>2, <4>3, <4>4
    <3>3. Len(stack'[0]) = 1 => Len(stack[0]) = 2
      <4>1. Len(stack'[0]) = Len(stack[0]) - 1
        BY <3>1
      <4>2. \A n \in Nat : n - 1 = 1 => n = 2
        OBVIOUS
      <4> QED BY <1>1, <4>1, <4>2
    <3> QED BY <2>9, <3>1, <3>2, <3>3 DEF Bottom
  <2> QED BY <1>3, <2>4, <2>5, <2>6, <2>7, <2>8, <2>9
          DEF Acts, Framework, NextLoop, Abort, Middleware, Mover
<1> QED BY <1>2, <1>3

\* Without an abort the index only grows.
LEMMA IndexGrows ==
  ASSUME IInv, NEW t \in Threads, Acts(t), ~aborted
  PROVE  handlerIdx' >= handlerIdx
<1>1. TypeOK /\ Shape /\ Late /\ Indexed
  BY DEF IInv, Calm
<1>2. CASE StoreIndex(t)
  <2>1. handlerIdx' = handlerIdx + 1
    BY <1>1, <1>2 DEF StoreIndex, Indexed
  <2> QED BY <1>1, <2>1 DEF TypeOK
<1>3. CASE SetIndex(t)
  BY <1>1, <1>3 DEF SetIndex, Late
<1>4. CASE handlerIdx' = handlerIdx
  BY <1>1, <1>4 DEF TypeOK
<1> QED BY <1>2, <1>3, <1>4, FlagsKept

LEMMA StepEnded ==
  ASSUME IInv, NEW t \in Threads, Acts(t)
  PROVE  Ended'
<1>1. TypeOK /\ Shape /\ Late /\ Ended
  BY DEF IInv
<1>2. handlers' = handlers /\ Len(handlers) \in Nat /\ handlerIdx \in Int /\ panics \in Nat
  BY <1>1, Acting DEF TypeOK
<1> SUFFICES ASSUME panics' = 0 PROVE Ended'
    BY DEF Ended
<1>3. panics = 0 /\ panics' = panics
  <2>1. panics + 1 # 0
    BY <1>2
  <2> QED BY <2>1, FlagsKept
<1>4. ASSUME NEW u \in Threads, At(u, "recovered")'
      PROVE  FALSE
  <2>1. panics' # panics + 1
    BY <1>3
  <2> QED BY <1>1, <1>3, <1>4, <2>1, Arrivals, Elsewhere DEF Ended
<1>5. ASSUME ~aborted'
      PROVE  ~aborted /\ handlerIdx' >= handlerIdx /\ handlerIdx' \in Int
  <2>1. ~aborted
    BY <1>5, FlagsKept
  <2>2. handlerIdx' \in Int
    <3>1. StoreIndex(t) => handlerIdx' = Top(t).idx + 1 /\ Top(t).idx \in Int
      BY <1>1, TopDef DEF StoreIndex, At, Frames
    <3>2. SetIndex(t) => handlerIdx' = Len(handlers)
      BY DEF SetIndex
    <3>3. StoreIndex(t) => handlerIdx' \in Int
      BY <3>1
    <3>4. SetIndex(t) => handlerIdx' \in Int
      BY <1>2, <3>2
    <3> QED BY <1>2, <3>3, <3>4, FlagsKept
  <2> QED BY <2>1, <2>2, IndexGrows
<1>6. ASSUME ~aborted', NEW u \in Threads, At(u, "return")',
             Kind(Top(u).fn)' \in {"chain", "recovery"}
      PROVE  handlerIdx' >= Len(handlers)
  <2>1. handlerIdx >= Len(handlers)
    <3>1. CASE u = t
      <4>1. ~SetIndex(t)
        BY <1>1, <1>5, <1>6 DEF SetIndex, Late
      <4>2. ~At(t, "recovered")
        BY <1>1, <1>3 DEF Ended
      <4> QED BY <1>1, <1>2, <1>5, <1>6, <3>1, <4>1, <4>2, Arrivals
    <3>2. CASE u # t
      <4>1. At(u, "return") /\ Top(u)' = Top(u)
        BY <1>1, <1>2, <1>6, <3>2, Elsewhere, Same
      <4>2. Kind(Top(u).fn) \in {"chain", "recovery"}
        BY <1>2, <1>6, <4>1 DEF Kind
      <4> QED BY <1>1, <1>3, <1>5, <1>6, <4>1, <4>2 DEF Ended
    <3> QED BY <3>1, <3>2
  <2> QED BY <1>2, <1>5, <1>6, <2>1
<1>7. ASSUME ~aborted', Finished'
      PROVE  handlerIdx' >= Len(handlers)
  <2>1. handlerIdx >= Len(handlers)
    <3>1. CASE Finished
      BY <1>1, <1>3, <1>5, <1>7, <3>1 DEF Ended
    <3>2. CASE ~Finished
      <4>1. Return(0) /\ Len(stack[0]) = 1 /\ 0 \in Threads
        BY <1>1, <1>3, <1>7, <3>2, StepBottom, BoundsAssumption DEF Bottom, Finished, Threads
      <4>2. At(0, "return") /\ Kind(Top(0).fn) = "chain"
        <5>1. At(0, "return") /\ stack[0] # <<>>
          BY <4>1 DEF Return, At
        <5>2. ~(Len(stack[0]) > 1)
          BY <4>1
        <5> QED BY <1>1, <4>1, <5>1, <5>2, TopPlace
      <4> QED BY <1>1, <1>3, <1>5, <1>7, <4>1, <4>2 DEF Ended
    <3> QED BY <3>1, <3>2
  <2> QED BY <1>2, <1>5, <1>7, <2>1
<1> QED BY <1>2, <1>4, <1>6, <1>7 DEF Ended

\* A thread runs nothing before its function was called.
LEMMA Started ==
  ASSUME TypeOK, Shape, NEW t \in Threads, t # 0, stack[t] # <<>>
  PROVE  t \in Positions /\ starts[t] = 1
<1>1. 1 \in DOMAIN stack[t]
  BY TopDef
<1>2. stack[t][1].fn = t /\ starts[t] = 1
  BY <1>1 DEF Shape, GoodFrame
<1> QED BY <1>2, BoundsAssumption DEF Threads, Positions

LEMMA StepGuarded ==
  ASSUME IInv, NEW t \in Threads, Acts(t)
  PROVE  Guarded'
<1>1. TypeOK /\ Shape /\ Late /\ Ended /\ Guarded /\ InOrderOnce /\ (Calm => Lead /\ Indexed)
  BY DEF IInv
<1>2. /\ handlers' = handlers /\ Len(handlers) \in Nat \ {0} /\ handlerIdx \in Int
      /\ panics \in Nat
  <2>1. Len(handlers) \in Nat \ {0}
    BY <1>1, BoundsAssumption DEF TypeOK, Positions
  <2> QED BY <1>1, <2>1, Acting DEF TypeOK
<1>3. 0 \in Threads /\ 1 \in Positions
  BY BoundsAssumption DEF Threads, Positions
<1> SUFFICES ASSUME handlers[1] = "recovery" PROVE Guarded'
    BY <1>2 DEF Guarded
<1>4. ASSUME panics' <= 1
      PROVE  ~escaped'
  <2>1. panics <= 1
    <3>1. CASE panics' = panics
      BY <1>4, <3>1
    <3>2. CASE panics' = panics + 1
      BY <1>2, <1>4, <3>2
    <3> QED BY <3>1, <3>2, FlagsKept
  <2>2. ~escaped
    BY <1>1, <2>1 DEF Guarded
  <2>3. CASE Panic(t)
    <3> SUFFICES ASSUME escaped' # escaped PROVE FALSE
        BY <2>2
    <3>1. stack[t] # <<>> /\ t = 0 /\ Recovering(0) = {}
      BY <1>1, <2>3, Acting, PanicTop
    <3>2. panics = 0
      BY <1>2, <1>4, <2>3 DEF Panic
    <3>3. Len(stack[0]) \in Nat \ {0} /\ DOMAIN stack[0] = 1 .. Len(stack[0])
      BY <1>1, <1>3, <3>1, TopDef
    <3>4. Len(stack[0]) = 1
      <4>0. \A n \in Nat \ {0} : (n = 1 \/ n > 1) /\ (n > 1 => 2 < n \/ 2 = n)
        OBVIOUS
      <4> SUFFICES ASSUME Len(stack[0]) > 1 PROVE FALSE
          BY <3>3, <4>0
      <4>1. stack[0][2].fn = 1 /\ 2 \in DOMAIN stack[0]
        BY <1>1, <3>2, <3>3 DEF Guarded
      <4>2. stack[0][2].at # "recovered"
        <5>1. CASE 2 < Len(stack[0])
          BY <1>1, <1>3, <4>1, <5>1 DEF Shape, GoodFrame
        <5>2. CASE 2 = Len(stack[0])
          BY <1>1, <1>3, <3>1, <3>2, <5>2, TopDef DEF Ended, At
        <5> QED BY <3>3, <4>0, <5>1, <5>2
      <4>3. 2 \in Recovering(0)
        BY <4>1, <4>2 DEF Recovering, Kind
      <4> QED BY <3>1, <4>3
    <3>5. At(0, "call") /\ handlerIdx >= Len(handlers)
      <4>1. Kind(Top(0).fn) # "app"
        <5>1. ~(Len(stack[0]) > 1)
          BY <3>4
        <5> QED BY <1>1, <1>3, <3>1, <5>1, TopPlace
      <4>2. ~AppPanic(0)
        BY <4>1 DEF AppPanic, Runs
      <4>3. CallOutOfRange(0)
        BY <1>2, <2>3, <3>1, <4>2
           DEF Acts, Framework, NextLoop, Abort, Middleware, LoadIndex, StoreIndex, Test,
               CallHandler, SetError, SetAborted, SetIndex, Preflight, Recovery, Recovered,
               Timeout, SelectTimeout, SelectError, SelectDone, SendError, CloseDone, Return,
               AppStep, Panic, flags, channels, history
      <4> QED BY <4>3 DEF CallOutOfRange
    <3> QED BY <1>1, <1>2, <3>2, <3>4, <3>5 DEF Guarded
  <2>4. CASE ~Panic(t)
    <3>1. escaped' = escaped
      BY <2>4 DEF Acts, Framework, NextLoop, Abort, Middleware, LoadIndex, StoreIndex, Test,
            CallHandler, CallOutOfRange, SetError, SetAborted, SetIndex, Preflight, Recovery,
            Recovered, Timeout, SelectTimeout, SelectError, SelectDone, SendError, CloseDone,
            Return, AppStep, AppPanic
    <3> QED BY <2>2, <3>1
  <2> QED BY <2>3, <2>4
<1>5. ASSUME panics' = 0
      PROVE  panics = 0 /\ panics' = panics /\ Bottom
  <2>1. panics + 1 # 0
    BY <1>2
  <2> QED BY <1>1, <1>5, <2>1, FlagsKept, StepBottom
<1>6. ASSUME panics' = 0, Len(stack'[0]) > 1
      PROVE  stack'[0][2].fn = 1
  <2>1. CASE Len(stack[0]) > 1 /\ stack'[0][2].fn = stack[0][2].fn
    BY <1>1, <1>5, <1>6, <2>1 DEF Guarded
  <2>2. CASE CallHandler(0) /\ Len(stack[0]) = 1 /\ stack'[0][2].fn = handlerIdx + 1
    <3>1. handlerIdx = 0
      BY <1>1, <1>5, <1>6, <2>2 DEF Guarded, CallHandler
    <3> QED BY <2>2, <3>1
  <2> QED BY <1>5, <1>6, <2>1, <2>2 DEF Bottom
\* Only the request's own goroutine calls the first function.
<1>7. ASSUME starts[1] = 0
      PROVE  t = 0
  <2> SUFFICES ASSUME t # 0 PROVE FALSE
      OBVIOUS
  <2>1. t \in Positions /\ starts[t] = 1
    BY <1>1, Acting, Started
  <2>2. t # 1 => 1 \in 1 .. t - 1
    BY <2>1 DEF Positions
  <2>3. starts[1] = 1
    BY <1>1, <2>1, <2>2 DEF InOrderOnce
  <2> QED BY <1>7, <2>3
<1>8. ASSUME panics' = 0, Len(stack'[0]) = 1
      PROVE  starts'[1] = 0 \/ aborted' \/ handlerIdx' >= Len(handlers)
  <2> SUFFICES ASSUME ~aborted' PROVE starts'[1] = 0 \/ handlerIdx' >= Len(handlers)
      OBVIOUS
  <2>1. ~aborted
    BY FlagsKept
  <2>2. handlerIdx >= Len(handlers) => handlerIdx' >= Len(handlers)
    <3>1. handlerIdx' >= handlerIdx
      BY <2>1, IndexGrows
    <3>2. handlerIdx' \in Int
      <4>1. StoreIndex(t) => Top(t).idx + 1 \in Int /\ handlerIdx' = Top(t).idx + 1
        BY <1>1, TopDef DEF StoreIndex, At, Frames
      <4>2. SetIndex(t) => handlerIdx' = Len(handlers) /\ Len(handlers) \in Int
        BY <1>2 DEF SetIndex
      <4> QED BY <1>2, <4>1, <4>2, FlagsKept
    <3> QED BY <1>2, <3>1, <3>2
  <2>3. CASE Len(stack[0]) = 1
    <3>1. starts[1] = 0 \/ handlerIdx >= Len(handlers)
      BY <1>1, <1>5, <1>8, <2>1, <2>3 DEF Guarded
    <3>2. starts[1] = 0 => starts'[1] = 0
      <4> SUFFICES ASSUME starts[1] = 0, CallHandler(t) PROVE FALSE
          BY FlagsKept
      <4>1. t = 0
        BY <1>7
      <4> DEFINE f == Frame(handlerIdx + 1, "run")
      <4>2. handlerIdx + 1 \in Threads
        BY <1>1, BoundsAssumption DEF CallHandler, TypeOK, Positions, Threads
      <4>3. f \in Frames
        BY <4>2, FrameOK DEF Labels
      <4>4. stack[0] # <<>> /\ stack' = [stack EXCEPT ![0] = Append(Moved(0, "in"), f)]
        BY <4>1 DEF CallHandler, At
      <4> HIDE DEF f
      <4>5. Len(stack'[0]) = Len(stack[0]) + 1
        BY <1>1, <1>3, <4>3, <4>4, PushTop DEF Labels
      <4> QED BY <1>8, <2>3, <4>5
    <3> QED BY <2>2, <3>1, <3>2
  <2>4. CASE Return(0) /\ Len(stack[0]) = 2
    <3>1. At(0, "return") /\ stack[0] # <<>> /\ Top(0) = stack[0][2]
      BY <1>1, <1>3, <2>4, TopDef DEF Return, At
    <3>2. stack[0][2].fn = 1
      BY <1>1, <1>5, <1>8, <2>4 DEF Guarded
    <3>3. Kind(Top(0).fn) = "recovery"
      BY <3>1, <3>2 DEF Kind
    <3> QED BY <1>1, <1>3, <1>5, <1>8, <2>1, <2>2, <3>1, <3>3 DEF Ended
  <2> QED BY <1>5, <1>8, <2>3, <2>4 DEF Bottom
<1>9. ASSUME panics' = 0, Len(stack'[0]) = 1, At(0, "call")'
      PROVE  starts'[1] = 0 /\ ~aborted' /\ handlerIdx' = 0
  <2>1. CASE t = 0
    <3>1. Test(0) /\ ~aborted /\ handlerIdx < Len(handlers)
      BY <1>1, <1>9, <2>1, Arrivals
    <3>2. Indexed /\ At(0, "test") /\ UNCHANGED <<starts, aborted, handlerIdx>>
      BY <1>1, <3>1 DEF Calm, Test, flags, history
    <3>3. Len(stack[0]) = 1
      BY <1>5, <1>9, <3>1 DEF Bottom, Test, Return, At
    <3>4. starts[1] = 0
      <4>1. ~(handlerIdx >= Len(handlers))
        BY <1>2, <3>1
      <4> QED BY <1>1, <1>5, <1>9, <3>1, <3>3, <4>1 DEF Guarded
    <3>5. handlerIdx >= 0 /\ (Reached = handlerIdx \/ Reached = handlerIdx + 1)
      BY <1>3, <3>2 DEF Indexed, Reached
    <3>6. ~(1 <= Reached /\ 1 <= Len(handlers))
      BY <1>3, <3>2, <3>4 DEF Indexed
    <3>7. handlerIdx = 0
      BY <1>2, <3>5, <3>6
    <3> QED BY <3>1, <3>2, <3>4, <3>7
  <2>2. CASE t # 0
    <3>1. At(0, "call") /\ stack'[0] = stack[0]
      BY <1>1, <1>3, <1>9, <2>2, Elsewhere
    <3>2. starts[1] = 0
      BY <1>1, <1>5, <1>9, <3>1 DEF Guarded
    <3> QED BY <1>7, <2>2, <3>2
  <2> QED BY <2>1, <2>2
<1> QED BY <1>2, <1>4, <1>6, <1>8, <1>9 DEF Guarded

-----------------------------------------------------------------------------
LEMMA InitIInv == Init => IInv
<1> SUFFICES ASSUME Init PROVE IInv
    OBVIOUS
<1> DEFINE first == Frame(0, "load")
<1>1. /\ 0 \in Threads /\ first \in Frames /\ first.fn = 0 /\ first.at = "load"
      /\ \A p \in Positions : p \in Threads /\ p # 0
  <2>1. 0 \in Threads /\ \A p \in Positions : p \in Threads /\ p # 0
    BY BoundsAssumption DEF Threads, Positions
  <2> QED BY <2>1, FrameOK DEF Labels, Frame
<1>2. stack = [t \in Threads |-> IF t = 0 THEN <<first>> ELSE <<>>]
  BY DEF Init
<1> HIDE DEF first
<1>3. /\ stack[0] = <<first>> /\ \A t \in Threads : t # 0 => stack[t] = <<>>
      /\ stack[0] # <<>> /\ Len(stack[0]) = 1 /\ stack[0][1] = first /\ Top(0) = first
  BY <1>1, <1>2, OneFrame DEF Top
<1>4. handlers \in Seq(Kinds) /\ Len(handlers) \in Positions
  <2>1. PICK n \in Positions : handlers \in [1 .. n -> Kinds]
    BY DEF Init, Chains
  <2>2. n \in Nat
    BY BoundsAssumption DEF Positions
  <2>3. handlers \in Seq(Kinds)
    BY <2>1, <2>2, IsASeq
  <2>4. Len(handlers) \in Nat /\ DOMAIN handlers = 1 .. Len(handlers) /\ DOMAIN handlers = 1 .. n
    BY <2>1, <2>3, LenProperties
  <2>5. Len(handlers) = n
    <3>1. ASSUME NEW a \in Nat, NEW b \in Nat, 1 .. a = 1 .. b, a > b
          PROVE  FALSE
      <4>1. a \in 1 .. a /\ a \notin 1 .. b
        BY <3>1
      <4> QED BY <3>1, <4>1
    <3>2. \A a, b \in Nat : a = b \/ a > b \/ b > a
      OBVIOUS
    <3> QED BY <2>2, <2>4, <3>1, <3>2
  <2> QED BY <2>1, <2>3, <2>5
<1>5. TypeOK
  <2>1. stack \in [Threads -> Seq(Frames)]
    BY <1>1, <1>2, OneFrame, EmptySeq
  <2>2. /\ handlerIdx = -1 /\ aborted = FALSE /\ err = FALSE /\ escaped = FALSE
        /\ errCh = [p \in Positions |-> "empty"] /\ done = {}
        /\ starts = [p \in Positions |-> 0] /\ lateStarts = 0 /\ panics = 0
    BY DEF Init
  <2> QED BY <1>4, <2>1, <2>2 DEF TypeOK
<1>6. /\ handlerIdx = -1 /\ aborted = FALSE /\ done = {} /\ escaped = FALSE
      /\ lateStarts = 0 /\ panics = 0
      /\ \A p \in Positions : errCh[p] = "empty" /\ starts[p] = 0
  BY DEF Init
<1>7. \A t \in Threads : \A label : At(t, label) => t = 0 /\ label = "load"
  BY <1>1, <1>3 DEF At
<1>8. \A t \in Threads : Live(t) => t = 0
  BY <1>3 DEF Live
<1>9. Shape
  <2> SUFFICES ASSUME NEW t \in Threads, NEW i \in DOMAIN stack[t] PROVE GoodFrame(t, i)
      BY DEF Shape
  <2>1. t = 0 /\ i = 1
    <3>1. DOMAIN stack[t] = 1 .. Len(stack[t]) /\ (t # 0 => stack[t] = <<>>)
      BY <1>3, <1>5, LenProperties DEF TypeOK
    <3>2. t = 0
      BY <3>1, EmptySeq
    <3> QED BY <1>3, <3>1, <3>2
  <2>2. stack[t][i] = first /\ Len(stack[t]) = 1
    BY <1>3, <2>1
  <2>3. first.at \in Places(t, i)
    BY <1>1, <2>1 DEF Places, LoopLabels
  <2>4. 0 <= Len(handlers)
    BY <1>4, BoundsAssumption DEF Positions
  <2> QED BY <1>1, <2>1, <2>2, <2>3, <2>4 DEF GoodFrame
<1>10. InOrderOnce
  BY <1>6 DEF InOrderOnce
<1>11. Lead
  BY <1>8 DEF Lead
<1>12. Signals
  BY <1>1, <1>3, <1>6, <1>7 DEF Signals, Untouched
<1>13. Indexed
  <2>1. Reached = 0
    BY <1>6, <1>7 DEF Reached
  <2> QED BY <1>6, <1>7, <2>1 DEF Indexed, Positions
<1>14. Cut /\ Late /\ AbortStopsAllButOne
  BY <1>6, <1>7 DEF Cut, Late, AbortStopsAllButOne
<1>15. Ended
  BY <1>3, <1>7 DEF Ended, Finished
<1>16. Guarded
  <2>1. 1 \in Positions
    BY BoundsAssumption DEF Positions
  <2> QED BY <1>1, <1>3, <1>6, <1>7, <2>1 DEF Guarded
<1> QED BY <1>5, <1>9, <1>10, <1>11, <1>12, <1>13, <1>14, <1>15, <1>16 DEF IInv

LEMMA StepIInv == IInv /\ [Next]_vars => IInv'
<1>1. ASSUME IInv, NEW t \in Threads, Acts(t)
      PROVE  IInv'
  <2>1. TypeOK' /\ Shape'
    <3>1. Next
      BY <1>1 DEF Next, Acts
    <3> QED BY <1>1, <3>1, StepTypeOK, StepShape DEF IInv
  <2> QED BY <1>1, <2>1, StepInOrderOnce, StepLead, StepSignals, StepIndexed, StepCut, StepLate,
             StepAbort, StepEnded, StepGuarded DEF IInv
<1>2. ASSUME IInv, UNCHANGED vars
      PROVE  IInv'
  <2> USE <1>2 DEF IInv, vars, flags, channels, history
  <2>1. \A u : /\ Top(u)' = Top(u) /\ (Live(u)' <=> Live(u)) /\ (Waits(u)' <=> Waits(u))
               /\ \A label : At(u, label)' <=> At(u, label)
    BY Same
  <2>2. TypeOK' /\ Shape'
    BY StepTypeOK, StepShape
  <2>3. Calm' => Calm
    BY <2>1 DEF Calm
  <2>4. InOrderOnce' /\ AbortStopsAllButOne'
    BY DEF InOrderOnce, AbortStopsAllButOne
  <2>5. Calm' => Lead'
    BY <2>1, <2>3 DEF Lead
  <2>6. Signals'
    BY <2>1, <2>3 DEF Signals, Untouched, Kind
  <2>7. Calm' => Indexed'
    BY <2>1, <2>3, IndexedSame DEF Indexed
  <2>8. Cut' /\ Late'
    BY <2>1, <2>3 DEF Cut, Late
  <2>9. Ended'
    BY <2>1 DEF Ended, Kind, Finished
  <2>10. Guarded'
    BY <2>1 DEF Guarded
  <2> QED BY <2>2, <2>4, <2>5, <2>6, <2>7, <2>8, <2>9, <2>10
<1> QED BY <1>1, <1>2 DEF Next, Acts

\* Until an abort reaches the index one goroutine works on the chain, and the index
\* says which functions were called.
THEOREM ChainInductive == Spec => []IInv
<1> QED BY InitIInv, StepIInv, PTL DEF Spec

\* The stacks, flags and channels have their types.
THEOREM ChainTypes == Spec => []TypeOK
<1>1. IInv => TypeOK
  BY DEF IInv
<1> QED BY <1>1, ChainInductive, PTL

\* No handler is called twice or out of order.
THEOREM OrderKept == Spec => []InOrderOnce
<1>1. IInv => InOrderOnce
  BY DEF IInv
<1> QED BY <1>1, ChainInductive, PTL

\* A chain without a preflight request that ends without an abort or a panic has
\* called every function.
THEOREM ChainComplete == Spec => []NoneSkipped
<1>1. IInv => NoneSkipped
  <2> SUFFICES ASSUME IInv, Finished, ~aborted, panics = 0,
                      "preflight" \notin Range(handlers), NEW p \in DOMAIN handlers
               PROVE  starts[p] = 1
      BY DEF NoneSkipped
  <2>1. TypeOK /\ Indexed /\ handlerIdx >= Len(handlers)
    BY DEF IInv, Calm, Ended
  <2>2. p \in 1 .. Len(handlers) /\ Len(handlers) \in Positions /\ handlerIdx \in Int
    BY <2>1, LenProperties DEF TypeOK
  <2>3. p \in Positions /\ p <= Reached /\ p <= Len(handlers)
    BY <2>1, <2>2, BoundsAssumption DEF Positions, Reached
  <2> QED BY <2>1, <2>3 DEF Indexed
<1> QED BY <1>1, ChainInductive, PTL

\* An abort stops the chain up to one call, and at once when there is no Timeout.
THEOREM AbortStops == Spec => []AbortStopsAllButOne
<1>1. IInv => AbortStopsAllButOne
  BY DEF IInv
<1> QED BY <1>1, ChainInductive, PTL

\* Recovery at the head of the chain contains the first panic.
THEOREM PanicContained == Spec => []FirstPanicContained
<1>1. IInv => FirstPanicContained
  BY DEF IInv, Guarded, FirstPanicContained
<1> QED BY <1>1, ChainInductive, PTL

-----------------------------------------------------------------------------
(* Router: sequences.                                                      *)

\* The first n elements of a sequence.
LEMMA FirstElements ==
  ASSUME NEW S, NEW s \in Seq(S), NEW n \in 0 .. Len(s)
  PROVE  /\ SubSeq(s, 1, n) \in Seq(S) /\ Len(SubSeq(s, 1, n)) = n
         /\ \A i \in 1 .. n : SubSeq(s, 1, n)[i] = s[i]
<1>1. \A i \in 1 .. n : s[i] \in S
  BY ElementOfSeq
<1> QED BY <1>1, SubSeqProperties, LenProperties

\* append into an array with room keeps what the slice had and adds the items.
LEMMA AppendsInPlace ==
  ASSUME NEW S, NEW s \in Seq(S), NEW n \in Nat, NEW items \in Seq(S),
         n + Len(items) <= Len(s)
  PROVE  LET t == [i \in DOMAIN s |-> IF i > n /\ i <= n + Len(items) THEN items[i - n] ELSE s[i]]
         IN  /\ t \in Seq(S) /\ Len(t) = Len(s)
             /\ SubSeq(t, 1, n + Len(items)) = SubSeq(s, 1, n) \o items
<1> DEFINE m == Len(items)
           t == [i \in DOMAIN s |-> IF i > n /\ i <= n + m THEN items[i - n] ELSE s[i]]
           a == SubSeq(s, 1, n)
           b == SubSeq(t, 1, n + m)
<1>1. m \in Nat /\ Len(s) \in Nat /\ DOMAIN s = 1 .. Len(s) /\ n \in 0 .. Len(s) /\ n + m \in 0 .. Len(s)
  BY LenProperties
<1>2. /\ \A i \in 1 .. Len(s) : s[i] \in S
      /\ \A i \in 1 .. m : items[i] \in S
  BY ElementOfSeq
<1>3. \A i \in 1 .. Len(s) : t[i] \in S
  BY <1>1, <1>2
<1>4. t \in Seq(S) /\ Len(t) = Len(s)
  BY <1>1, <1>3, LenProperties, SeqDef
<1>5. a \in Seq(S) /\ Len(a) = n /\ \A i \in 1 .. n : a[i] = s[i]
  BY <1>1, FirstElements
<1> HIDE DEF m, t, a
<1>6. b \in Seq(S) /\ Len(b) = n + m /\ \A i \in 1 .. n + m : b[i] = t[i]
  BY <1>1, <1>4, FirstElements
<1>7. /\ a \o items \in Seq(S) /\ Len(a \o items) = n + m
      /\ \A i \in 1 .. n + m : (a \o items)[i] = IF i <= n THEN a[i] ELSE items[i - n]
  BY <1>1, <1>5, ConcatProperties DEF m
<1>8. \A i \in 1 .. n + m : t[i] = IF i <= n THEN s[i] ELSE items[i - n]
  <2> SUFFICES ASSUME NEW i \in 1 .. n + m
               PROVE  t[i] = IF i <= n THEN s[i] ELSE items[i - n]
      OBVIOUS
  <2>1. i \in DOMAIN s /\ i \in Int /\ i <= n + m /\ (i <= n <=> ~(i > n))
    BY <1>1
  <2>2. t[i] = IF i > n /\ i <= n + m THEN items[i - n] ELSE s[i]
    BY <2>1 DEF t
  <2> QED BY <2>1, <2>2
<1> HIDE DEF b
<1>9. b = a \o items
  <2>1. \A i \in 1 .. n + m : b[i] = (a \o items)[i]
    <3> SUFFICES ASSUME NEW i \in 1 .. n + m PROVE b[i] = (a \o items)[i]
        OBVIOUS
    <3>1. i <= n => i \in 1 .. n
      BY <1>1
    <3> QED BY <3>1, <1>5, <1>6, <1>7, <1>8
  <2> QED BY <2>1, <1>6, <1>7, SeqEqual
<1> QED BY <1>4, <1>9 DEF a, b, t, m

\* append that grows copies the slice and adds the items.
LEMMA AppendsGrowing ==
  ASSUME NEW S, NEW u \in Seq(S), NEW g \in Nat, Len(u) <= g, NEW d \in S
  PROVE  LET t == [i \in 1 .. g |-> IF i <= Len(u) THEN u[i] ELSE d]
         IN  t \in Seq(S) /\ Len(t) = g /\ SubSeq(t, 1, Len(u)) = u
<1> DEFINE n == Len(u)
           t == [i \in 1 .. g |-> IF i <= n THEN u[i] ELSE d]
           b == SubSeq(t, 1, n)
<1>1. n \in Nat /\ n \in 0 .. g /\ \A i \in 1 .. n : u[i] \in S
  BY LenProperties, ElementOfSeq
<1>2. \A i \in 1 .. g : t[i] \in S
  BY <1>1
<1>3. t \in Seq(S) /\ Len(t) = g
  BY <1>1, <1>2, LenProperties, SeqDef
<1>4. \A i \in 1 .. n : t[i] = u[i]
  BY <1>1
<1> HIDE DEF t, n
<1>5. b \in Seq(S) /\ Len(b) = n /\ \A i \in 1 .. n : b[i] = t[i]
  BY <1>1, <1>3, FirstElements
<1> HIDE DEF b
<1>6. b = u
  BY <1>1, <1>4, <1>5, SeqEqual DEF n
<1> QED BY <1>3, <1>6 DEF b, t, n

-----------------------------------------------------------------------------
(* Registration.                                                           *)

LEMMA Sliced ==
  ASSUME RouterTypeOK, Owned, NEW r \in Routers
  PROVE  /\ heap[r] \in Seq(Functions) /\ middleware[r].len \in 0 .. Len(heap[r])
         /\ middleware[r].array = r /\ expected[r] \in Seq(Functions)
         /\ SubSeq(heap[r], 1, middleware[r].len) = expected[r]
         /\ Len(expected[r]) = middleware[r].len
<1>1. /\ heap[r] \in Seq(Functions) /\ middleware[r].array = r /\ expected[r] \in Seq(Functions)
      /\ middleware[r].len \in Nat /\ middleware[r].len <= Len(heap[r])
      /\ SubSeq(heap[r], 1, middleware[r].len) = expected[r]
  BY DEF RouterTypeOK, Owned, Arrays, Slices, Elements
<1>2. middleware[r].len \in 0 .. Len(heap[r])
  BY <1>1, LenProperties
<1> QED BY <1>1, <1>2, FirstElements

\* What one request needs, and all requests together.
Sound(q) == Closed(q) /\ Chained(q) /\ Split(q)
Ends == EndsFinite /\ EndsCounted

\* Nothing is said about requests before the first of them.
LEMMA RegistrationKeeps ==
  ASSUME RouterInv, calls < MaxRegistrations, req' = req, counters' = counters
  PROVE  (\A q \in Requests : Sound(q)') /\ Ends'
<1>1. \A q \in Requests : req[q].pc = "none"
  BY RouterBounds DEF RouterInv, Closed, RouterTypeOK
<1>2. \A q \in Requests : Sound(q)'
  BY <1>1 DEF Sound, Closed, Chained, Split
<1> DEFINE over == {q \in Requests : req[q].pc = "done"}
           zero == [error |-> 0, panic |-> 0, duration |-> 0]
<1>4. over = {} /\ over' = {}
  BY <1>1
<1>5. counters = zero
  <2>1. /\ {q \in over \ {q \in over : req[q].panicked} : req[q].status >= 400} = {}
        /\ {q \in over : req[q].panicked} = {}
    BY <1>4
  <2> QED BY <2>1, <1>4, FS_EmptySet DEF RouterInv, EndsCounted
<1>6. EndsCounted'
  <2>1. /\ {q \in over' \ {q \in over' : req'[q].panicked} : req'[q].status >= 400} = {}
        /\ {q \in over' : req'[q].panicked} = {}
    BY <1>4
  <2>2. counters' = zero
    BY <1>5
  <2> QED BY <2>1, <2>2, <1>4, FS_EmptySet DEF EndsCounted
<1>7. EndsFinite'
  BY <1>4, FS_EmptySet DEF EndsFinite
<1> QED BY <1>2, <1>6, <1>7 DEF Ends

LEMMA UseOwned ==
  ASSUME RouterInv, NEW r \in Routers, NEW n \in 1 .. 2, Use(r, n)
  PROVE  RouterTypeOK' /\ Owned'
<1> DEFINE items == [i \in 1 .. n |-> Mw(r, Len(expected[r]) + i)]
           s == heap[r]
           len == middleware[r].len
           m == len + Len(items)
           filler == Mw(r, 0)
           g == IF m > 2 * Len(s) THEN m ELSE 2 * Len(s)
           placed == [i \in DOMAIN s |-> IF i > len /\ i <= len + Len(items) THEN items[i - len] ELSE s[i]]
           u == SubSeq(s, 1, len) \o items
           grown == [i \in 1 .. g |-> IF i <= Len(u) THEN u[i] ELSE filler]
           t == IF m <= Len(s) THEN placed ELSE grown
<1>1. RouterTypeOK /\ Owned
  BY DEF RouterInv
<1>2. /\ s \in Seq(Functions) /\ len \in 0 .. Len(s) /\ Len(s) \in Nat
      /\ middleware[r].array = r /\ expected[r] \in Seq(Functions) /\ Len(expected[r]) \in Nat
      /\ SubSeq(s, 1, len) = expected[r] /\ Len(expected[r]) = len /\ len \in Nat
  BY <1>1, Sliced, LenProperties
<1>3. items \in Seq(Functions) /\ Len(items) = n /\ Len(items) \in Nat /\ m \in Nat
  <2>1. \A k \in Nat : Mw(r, k) \in Functions
    BY DEF Mw, Functions, Arrays
  <2>2. \A i \in 1 .. n : items[i] \in Functions
    BY <2>1, <1>2
  <2>3. items \in Seq(Functions) /\ Len(items) = n
    BY <2>2, LenProperties, SeqDef
  <2> QED BY <2>3, <1>2
<1>4. filler \in Functions
  BY DEF Mw, Functions, Arrays
<1>5. u \in Seq(Functions) /\ Len(u) = m /\ u = expected[r] \o items
  <2>1. u = expected[r] \o items
    BY <1>2
  <2> HIDE DEF items, s, len, u
  <2>2. u \in Seq(Functions) /\ Len(u) = Len(expected[r]) + Len(items)
    BY <2>1, <1>2, <1>3, ConcatProperties
  <2> QED BY <2>1, <2>2, <1>2
<1>6. heap' = [heap EXCEPT ![r] = t]
  <2>1. heap' = Appended(middleware[r], items, r)
    BY DEF Use
  <2>2. Elements(middleware[r]) = SubSeq(s, 1, len)
    BY <1>2 DEF Elements
  <2> HIDE DEF items
  <2>3. CASE m <= Len(s)
    <3>1. Appended(middleware[r], items, r) = [heap EXCEPT ![r] = placed]
      BY <2>3, <1>2 DEF Appended
    <3> QED BY <2>3, <2>1, <3>1
  <2>4. CASE ~(m <= Len(s))
    <3>1. Appended(middleware[r], items, r) = [heap EXCEPT ![r] = grown]
      BY <2>4, <2>2, <1>2, <1>5 DEF Appended
    <3> QED BY <2>4, <2>1, <3>1
  <2> QED BY <2>3, <2>4
<1>7. middleware' = [middleware EXCEPT ![r] = Slice(r, m)]
  BY <1>2 DEF Use, AppendedTo
<1>8. expected' = [expected EXCEPT ![r] = u]
  BY <1>5 DEF Use
<1> HIDE DEF items, s, len, filler
<1>9. m <= Len(s) => placed \in Seq(Functions) /\ Len(placed) = Len(s) /\ SubSeq(placed, 1, m) = u
  <2> SUFFICES ASSUME m <= Len(s)
               PROVE  placed \in Seq(Functions) /\ Len(placed) = Len(s) /\ SubSeq(placed, 1, m) = u
      OBVIOUS
  <2>1. len \in Nat /\ s \in Seq(Functions) /\ items \in Seq(Functions) /\ len + Len(items) <= Len(s)
    BY <1>2, <1>3
  <2> QED BY ONLY <2>1, AppendsInPlace
<1>10. ~(m <= Len(s)) => grown \in Seq(Functions) /\ Len(grown) = g /\ SubSeq(grown, 1, m) = u
  <2> HIDE DEF m, u
  <2>1. g \in Nat /\ m <= g
    BY <1>2, <1>3
  <2>2. g \in Nat /\ Len(u) <= g /\ u \in Seq(Functions) /\ filler \in Functions
    BY <2>1, <1>4, <1>5
  <2> HIDE DEF g
  <2>3. grown \in Seq(Functions) /\ Len(grown) = g /\ SubSeq(grown, 1, Len(u)) = u
    BY ONLY <2>2, AppendsGrowing
  <2> QED BY <2>3, <1>5
<1> HIDE DEF placed, grown, m, u
<1>11. t \in Seq(Functions) /\ m <= Len(t) /\ SubSeq(t, 1, m) = u
  <2>1. m <= g
    BY <1>2, <1>3
  <2> QED BY <1>9, <1>10, <2>1
<1> HIDE DEF t
<1>12. RouterTypeOK'
  <2>1. heap' \in [Arrays -> Seq(Functions)] /\ expected' \in [Routers -> Seq(Functions)]
    BY <1>1, <1>5, <1>6, <1>8, <1>11 DEF RouterTypeOK, Arrays
  <2>2. /\ middleware' \in [Routers -> Slices]
        /\ \A q \in Routers : middleware'[q].len <= Len(heap'[middleware'[q].array])
    <3>1. Slice(r, m) \in Slices
      BY <1>3 DEF Slice, Slices, Arrays
    <3>2. \A q \in Routers : middleware'[q].len <= Len(heap'[middleware'[q].array])
      <4> SUFFICES ASSUME NEW q \in Routers PROVE middleware'[q].len <= Len(heap'[middleware'[q].array])
          OBVIOUS
      <4>1. CASE q = r
        BY <4>1, <1>1, <1>6, <1>7, <1>11 DEF RouterTypeOK, Slice, Arrays
      <4>2. CASE q # r
        BY <4>2, <1>1, <1>6, <1>7 DEF RouterTypeOK, Owned, Arrays
      <4> QED BY <4>1, <4>2
    <3> QED BY <3>1, <3>2, <1>1, <1>7 DEF RouterTypeOK
  <2>3. calls' \in 0 .. MaxRegistrations
    BY <1>1, RouterBounds DEF Use, Registering, RouterTypeOK
  <2> QED BY <1>1, <2>1, <2>2, <2>3 DEF Use, RouterTypeOK
<1>13. Owned'
  <2> SUFFICES ASSUME NEW q \in Routers
               PROVE  middleware'[q].array = q /\ Elements(middleware[q])' = expected'[q]
      BY DEF Owned
  <2>1. CASE q = r
    BY <2>1, <1>1, <1>6, <1>7, <1>8, <1>11 DEF RouterTypeOK, Slice, Arrays, Elements
  <2>2. CASE q # r
    BY <2>2, <1>1, <1>6, <1>7, <1>8 DEF RouterTypeOK, Owned, Arrays, Elements
  <2> QED BY <2>1, <2>2
<1> QED BY <1>12, <1>13

LEMMA GroupOwned ==
  ASSUME RouterInv, Group
  PROVE  RouterTypeOK' /\ Owned'
<1> DEFINE n == middleware["root"].len
           u == expected["root"]
<1>1. RouterTypeOK /\ Owned /\ "root" \in Routers /\ "group" \in Routers
  BY DEF RouterInv, Routers
<1>2. u \in Seq(Functions) /\ Len(u) = n /\ n \in Nat /\ Elements(middleware["root"]) = u
  BY <1>1, Sliced, LenProperties DEF Owned
<1>3. /\ heap' = [heap EXCEPT !["group"] = u] /\ expected' = [expected EXCEPT !["group"] = u]
      /\ middleware' = [middleware EXCEPT !["group"] = Slice("group", n)]
  BY <1>2 DEF Group
<1>4. SubSeq(u, 1, n) = u
  BY <1>2, SubSeqFull
<1>5. Slice("group", n) \in Slices
  BY <1>1, <1>2 DEF Slice, Slices, Arrays
<1> HIDE DEF n, u
<1>6. /\ heap' \in [Arrays -> Seq(Functions)] /\ expected' \in [Routers -> Seq(Functions)]
      /\ middleware' \in [Routers -> Slices]
  BY <1>1, <1>2, <1>3, <1>5 DEF RouterTypeOK, Arrays
<1>7. ASSUME NEW r \in Routers
      PROVE  /\ middleware'[r].array = r /\ Elements(middleware[r])' = expected'[r]
             /\ middleware'[r].len <= Len(heap'[middleware'[r].array])
  <2>1. CASE r = "group"
    BY <2>1, <1>1, <1>2, <1>3, <1>4 DEF RouterTypeOK, Slice, Arrays, Elements
  <2>2. CASE r # "group"
    BY <2>2, <1>1, <1>3 DEF RouterTypeOK, Owned, Arrays, Elements
  <2> QED BY <2>1, <2>2
<1>8. calls' \in 0 .. MaxRegistrations
  BY <1>1, RouterBounds DEF Group, Registering, RouterTypeOK
<1>9. made' \subseteq Routers /\ collector' \in [Routers -> Routers \union {"none"}]
  BY <1>1 DEF Group, RouterTypeOK
<1>10. Owned'
  BY <1>7 DEF Owned
<1> QED BY <1>1, <1>6, <1>7, <1>8, <1>9, <1>10 DEF Group, RouterTypeOK

\* The other registrations touch no slice.
LEMMA RestOwned ==
  ASSUME RouterInv, PanicHandler \/ \E r \in Routers :
                      \/ \E n \in 1 .. MaxHandlers : Route(r, n)
                      \/ Static(r) \/ WS(r) \/ NotFound(r) \/ MethodNotAllowed(r)
  PROVE  RouterTypeOK' /\ Owned'
<1>1. RouterTypeOK /\ Owned
  BY DEF RouterInv
<1>2. UNCHANGED <<heap, middleware, made, req, counters, expected>> /\ calls < MaxRegistrations /\ calls' = calls + 1
  BY DEF PanicHandler, Route, Static, WS, NotFound, MethodNotAllowed, Registering
<1>3. Owned'
  BY <1>1, <1>2 DEF Owned, Elements
<1>4. calls' \in 0 .. MaxRegistrations
  BY <1>1, <1>2, RouterBounds DEF RouterTypeOK
<1>5. Raw \in 0 .. Raw /\ \A n \in 1 .. MaxHandlers : n \in 0 .. Raw
  BY RouterBounds DEF Raw
<1>6. /\ routes' \in [Routers -> 0 .. Raw] /\ notFound' \in Routers \union {"default", "method"}
      /\ hooks' \subseteq {"notFound", "panic"} /\ collector' \in [Routers -> Routers \union {"none"}]
  <2>1. CASE PanicHandler
    BY <2>1, <1>1 DEF PanicHandler, RouterTypeOK
  <2>2. ASSUME NEW r \in Routers, NEW n \in 1 .. MaxHandlers \union {Raw}, Route(r, n)
        PROVE  <1>6
    BY <2>2, <1>1, <1>5 DEF Route, AddRouteMetadata, RouterTypeOK
  <2>3. ASSUME NEW r \in Routers, WS(r)
        PROVE  <1>6
    BY <2>3, <1>1, <1>5 DEF WS, RouterTypeOK
  <2>4. ASSUME NEW r \in Routers, NotFound(r) \/ MethodNotAllowed(r)
        PROVE  <1>6
    BY <2>4, <1>1 DEF NotFound, MethodNotAllowed, RouterTypeOK
  <2> QED BY <2>1, <2>2, <2>3, <2>4 DEF Static
<1> QED BY <1>1, <1>2, <1>3, <1>4, <1>6 DEF RouterTypeOK

LEMMA Registrations ==
  ASSUME RouterInv, Group \/ PanicHandler \/ \E r \in Routers : Register(r)
  PROVE  RouterInv'
<1>1. req' = req /\ counters' = counters /\ calls < MaxRegistrations
  BY DEF Group, PanicHandler, Register, Use, Route, Static, WS, NotFound, MethodNotAllowed, Registering
<1>2. RouterTypeOK' /\ Owned'
  BY GroupOwned, UseOwned, RestOwned DEF Register
<1> QED BY <1>1, <1>2, RegistrationKeeps DEF RouterInv, Sound, Ends

-----------------------------------------------------------------------------
(* Requests.                                                               *)

LEMMA Single ==
  ASSUME NEW S, NEW x \in S
  PROVE  <<x>> \in Seq(S) /\ Len(<<x>>) = 1 /\ <<x>>[1] = x
OBVIOUS

LEMMA TodoTyped ==
  ASSUME RouterTypeOK, NEW target \in Targets
  PROVE  Todo(target) \in Seq(Functions)
<1>1. \A i \in Nat : Handler("raw", i) \in Functions /\ \A r \in Routers : Handler(r, i) \in Functions
  BY DEF Handler, Functions
<1>2. CASE target \in Routers /\ routes[target] # Raw
  <2> DEFINE t == [i \in 1 .. routes[target] |-> Handler(target, i)]
  <2>1. routes[target] \in Nat
    BY <1>2, RouterBounds DEF RouterTypeOK, Raw
  <2>2. \A i \in 1 .. routes[target] : t[i] \in Functions
    BY <1>1, <1>2, <2>1
  <2>3. t \in Seq(Functions)
    BY <2>1, <2>2, SeqDef
  <2> QED BY <1>2, <2>3 DEF Todo
<1>3. CASE target \in Routers /\ routes[target] = Raw
  <2>1. Todo(target) = <<Handler("raw", 1)>>
    BY <1>3 DEF Todo
  <2>2. Handler("raw", 1) \in Functions
    BY <1>1
  <2> QED BY <2>1, <2>2, Single
<1>4. CASE target \notin Routers
  <2>1. notFound \in Routers \union {"default", "method"} /\ "default" \notin Routers /\ "method" \notin Routers
    BY DEF RouterTypeOK, Routers
  <2>2. CASE notFound = "default"
    <3>1. Todo(target) = <<>>
      BY <1>4, <2>2 DEF Todo
    <3> QED BY <3>1, EmptySeq
  <2>3. CASE notFound = "method"
    <3>1. Todo(target) = <<Handler("raw", 2)>>
      BY <1>4, <2>3 DEF Todo
    <3>2. Handler("raw", 2) \in Functions
      BY <1>1
    <3> QED BY <3>1, <3>2, Single
  <2>4. CASE notFound \in Routers
    <3>1. Todo(target) = <<Handler(notFound, 0)>>
      BY <1>4, <2>1, <2>4 DEF Todo
    <3>2. Handler(notFound, 0) \in Functions
      BY <1>1, <2>4
    <3> QED BY <3>1, <3>2, Single
  <2> QED BY <2>1, <2>2, <2>3, <2>4
<1> QED BY <1>2, <1>3, <1>4

\* A changed record of a request has the type of its fields.
LEMMA Changed ==
  ASSUME NEW r \in RequestStates, NEW c, DOMAIN c = DOMAIN r, c = [x \in DOMAIN c |-> c[x]],
         c.pc \in {"none", "next", "run", "panic", "done", "escaped"}, c.target \in Targets \union {"none"},
         c.todo \in Seq(Functions), c.chain \in Slices, c.ran \in Seq(Functions),
         c.status \in {200, 404, 405, 500},
         c.body \in {"none", "library", "handler", "json404", "panic"},
         c.errAt \in Nat, c.panicked \in BOOLEAN
  PROVE  c \in RequestStates
BY DEF RequestStates

\* A step of one request leaves the others and the routers alone.
LEMMA ServingKeeps ==
  ASSUME RouterInv, NEW q \in Requests, NEW c \in RequestStates, req' = [req EXCEPT ![q] = c],
         UNCHANGED registered, calls' \in {calls, MaxRegistrations},
         heap' \in [Arrays -> Seq(Functions)], \A a \in Arrays \ {q} : heap'[a] = heap[a],
         counters' \in [{"error", "panic", "duration"} -> Nat], Ends', Sound(q)'
  PROVE  RouterInv'
<1>1. RouterTypeOK /\ Owned
  BY DEF RouterInv
<1>2. q \notin Routers /\ q \in Arrays
  BY RequestsAssumption DEF Arrays
<1>3. \A r \in Routers : heap'[r] = heap[r] /\ middleware[r].array = r
  BY <1>1, <1>2 DEF Arrays, Owned
<1>4. Owned'
  BY <1>1, <1>3 DEF Owned, Elements, registered
<1>5. req' \in [Requests -> RequestStates] /\ req'[q] = c /\ \A u \in Requests \ {q} : req'[u] = req[u]
  BY <1>1 DEF RouterTypeOK
<1>6. RouterTypeOK'
  <2>1. \A r \in Routers : middleware'[r].len <= Len(heap'[middleware'[r].array])
    BY <1>1, <1>3 DEF RouterTypeOK, registered
  <2>2. calls' \in 0 .. MaxRegistrations
    BY <1>1, RouterBounds DEF RouterTypeOK
  <2> QED BY <1>1, <1>5, <2>1, <2>2 DEF RouterTypeOK, registered
<1>7. ASSUME NEW u \in Requests, u # q
      PROVE  Sound(u)'
  <2>1. Closed(u) /\ Chained(u) /\ Split(u) /\ req'[u] = req[u] /\ heap'[u] = heap[u]
    BY <1>5, <1>7 DEF RouterInv, Arrays
  <2>2. Closed(u)'
    BY <2>1 DEF Closed
  <2>3. Chained(u)'
    BY <2>1 DEF Chained, registered
  <2>4. \A t : Todo(t)' = Todo(t)
    <3>1. routes' = routes /\ notFound' = notFound
      BY DEF registered
    <3> QED BY <3>1, Zenon DEF Todo
  <2>5. Split(u)'
    BY <2>1, <2>4 DEF Split
  <2> QED BY <2>2, <2>3, <2>5 DEF Sound
<1> QED BY <1>4, <1>6, <1>7 DEF RouterInv, Sound, Ends

LEMMA EndsSame ==
  ASSUME RouterInv, NEW q \in Requests, NEW c, req' = [req EXCEPT ![q] = c],
         req[q].pc # "done", c.pc # "done", counters' = counters, collector' = collector
  PROVE  Ends'
<1> DEFINE over == {u \in Requests : req[u].pc = "done"}
           failed == {u \in over : req[u].panicked}
           errors == {u \in over \ failed : req[u].status >= 400}
<1>1. \A u \in Requests : req'[u] = IF u = q THEN c ELSE req[u]
  BY DEF RouterInv, RouterTypeOK
<1>2. over' = over
  BY <1>1
<1>3. \A u \in over : req'[u] = req[u]
  BY <1>1
<1> HIDE DEF over
<1>4. failed' = failed
  BY <1>2, <1>3
<1> HIDE DEF failed
<1>5. errors' = errors
  BY <1>2, <1>3, <1>4
<1> QED BY <1>2, <1>4, <1>5 DEF Ends, EndsFinite, EndsCounted, RouterInv, over, failed, errors

\* One more end, counted in its keys.
LEMMA EndsOnce ==
  ASSUME RouterInv, NEW q \in Requests, NEW c \in RequestStates, req' = [req EXCEPT ![q] = c],
         req[q].pc # "done", c.pc = "done", collector' = collector,
         Count(IF c.panicked THEN {"panic", "duration"}
               ELSE {"duration"} \union HandleErrorMetrics(c.status))
  PROVE  Ends' /\ counters' \in [{"error", "panic", "duration"} -> Nat]
<1> DEFINE over == {u \in Requests : req[u].pc = "done"}
           failed == {u \in over : req[u].panicked}
           errors == {u \in over \ failed : req[u].status >= 400}
           keys == IF c.panicked THEN {"panic", "duration"}
                   ELSE {"duration"} \union HandleErrorMetrics(c.status)
<1>1. /\ \A u \in Requests : req'[u] = IF u = q THEN c ELSE req[u]
      /\ counters \in [{"error", "panic", "duration"} -> Nat] /\ c.panicked \in BOOLEAN
  BY DEF RouterInv, RouterTypeOK, RequestStates
<1>2. over' = over \union {q} /\ q \notin over
  BY <1>1
<1>3. req'[q] = c /\ \A u \in over : req'[u] = req[u]
  BY <1>1, <1>2
<1>4. IsFiniteSet(over)
  BY DEF RouterInv, EndsFinite
<1>5. EndsCounted
  BY DEF RouterInv
<1>6. EndsFinite'
  <2>1. IsFiniteSet(over')
    BY <1>2, <1>4, FS_AddElement
  <2> QED BY <2>1 DEF EndsFinite
<1> HIDE DEF over
<1>7. failed' = IF c.panicked THEN failed \union {q} ELSE failed
  BY <1>1, <1>2, <1>3
<1>8. failed \subseteq over /\ q \notin failed
  BY <1>2
<1> HIDE DEF failed
<1>9. errors' = IF ~c.panicked /\ c.status >= 400 THEN errors \union {q} ELSE errors
  BY <1>1, <1>2, <1>3, <1>7, <1>8
<1>10. errors \subseteq over /\ q \notin errors
  BY <1>2
<1> HIDE DEF errors
<1>11. IsFiniteSet(failed) /\ IsFiniteSet(errors)
  BY <1>4, <1>8, <1>10, FS_Subset
<1> DEFINE nd == Cardinality(over)
           np == Cardinality(failed)
           ne == Cardinality(errors)
<1>12. nd \in Nat /\ np \in Nat /\ ne \in Nat
  BY <1>4, <1>11, FS_CardinalityType
<1>13. /\ Cardinality(over') = nd + 1
       /\ Cardinality(failed') = IF c.panicked THEN np + 1 ELSE np
       /\ Cardinality(errors') = IF ~c.panicked /\ c.status >= 400 THEN ne + 1 ELSE ne
  BY <1>2, <1>4, <1>7, <1>8, <1>9, <1>10, <1>11, FS_AddElement
<1>14. counters = IF collector["root"] = "none" THEN [error |-> 0, panic |-> 0, duration |-> 0]
                  ELSE [error |-> ne, panic |-> np, duration |-> nd]
  BY <1>5 DEF EndsCounted, over, failed, errors
<1>15. counters' = IF collector["root"] = "none" THEN counters
                   ELSE [k \in DOMAIN counters |-> counters[k] + IF k \in keys THEN 1 ELSE 0]
  BY DEF Count
<1>16. /\ "duration" \in keys /\ ("panic" \in keys <=> c.panicked)
       /\ ("error" \in keys <=> ~c.panicked /\ c.status >= 400)
  BY <1>1 DEF HandleErrorMetrics
<1> HIDE DEF keys, nd, np, ne
<1>17. CASE collector["root"] = "none"
  BY <1>1, <1>5, <1>6, <1>14, <1>15, <1>17 DEF Ends, EndsCounted
<1>18. CASE collector["root"] # "none"
  <2>1. counters' = [k \in {"error", "panic", "duration"} |-> counters[k] + IF k \in keys THEN 1 ELSE 0]
    BY <1>1, <1>15, <1>18
  <2>2. counters.error = ne /\ counters.panic = np /\ counters.duration = nd
    BY <1>14, <1>18
  <2>3. /\ counters'.error = (IF ~c.panicked /\ c.status >= 400 THEN ne + 1 ELSE ne)
        /\ counters'.panic = (IF c.panicked THEN np + 1 ELSE np) /\ counters'.duration = nd + 1
    BY <2>1, <2>2, <1>12, <1>16
  <2>4. counters' \in [{"error", "panic", "duration"} -> Nat]
    BY <2>1, <1>1
  <2>5. counters' = [error |-> Cardinality(errors'), panic |-> Cardinality(failed'), duration |-> Cardinality(over')]
    BY <2>1, <2>3, <1>13
  <2>6. EndsCounted'
    BY <2>5, <1>18 DEF EndsCounted, over, failed, errors
  <2> QED BY <2>4, <2>6, <1>6 DEF Ends
<1> QED BY <1>17, <1>18

\* The head of what is still to run moves behind what ran.
LEMMA Advance ==
  ASSUME NEW S, NEW ran \in Seq(S), NEW todo \in Seq(S), todo # <<>>
  PROVE  LET all == ran \o todo
             more == Append(ran, Head(todo))
         IN  /\ more \in Seq(S) /\ Len(more) = Len(ran) + 1 /\ Len(more) <= Len(all)
             /\ more = SubSeq(all, 1, Len(more)) /\ more \o Tail(todo) = all
             /\ Tail(todo) \in Seq(S)
<1> DEFINE all == ran \o todo
           more == Append(ran, Head(todo))
           rest == Tail(todo)
           n == Len(ran)
           m == Len(todo)
<1>1. n \in Nat /\ m \in Nat \ {0}
  BY LenProperties, EmptySeq
<1>2. Head(todo) \in S /\ rest \in Seq(S) /\ Len(rest) = m - 1 /\ Head(todo) = todo[1]
      /\ \A i \in 1 .. m - 1 : rest[i] = todo[i + 1]
  BY HeadTailProperties
<1>3. /\ all \in Seq(S) /\ Len(all) = n + m
      /\ \A i \in 1 .. n + m : all[i] = IF i <= n THEN ran[i] ELSE todo[i - n]
  BY ConcatProperties
<1>4. /\ more \in Seq(S) /\ Len(more) = n + 1
      /\ \A i \in 1 .. n + 1 : more[i] = IF i = n + 1 THEN todo[1] ELSE ran[i]
  BY <1>2, AppendProperties
<1> HIDE DEF all, more, rest, n, m
<1>5. /\ more \o rest \in Seq(S) /\ Len(more \o rest) = n + m
      /\ \A i \in 1 .. n + m : (more \o rest)[i] = IF i <= n + 1 THEN more[i] ELSE rest[i - (n + 1)]
  <2>1. n + 1 + (m - 1) = n + m
    BY <1>1
  <2> QED BY <1>2, <1>4, <2>1, ConcatProperties
<1>6. \A i \in 1 .. n + 1 : all[i] = more[i]
  <2> SUFFICES ASSUME NEW i \in 1 .. n + 1 PROVE all[i] = more[i]
      OBVIOUS
  <2>1. CASE i = n + 1
    <3>1. i \in 1 .. n + m /\ ~(i <= n) /\ i - n = 1
      BY <1>1, <2>1
    <3> QED BY <2>1, <3>1, <1>3, <1>4
  <2>2. CASE i # n + 1
    <3>1. i \in 1 .. n + m /\ i <= n
      BY <1>1, <2>2
    <3> QED BY <2>2, <3>1, <1>3, <1>4
  <2> QED BY <2>1, <2>2
<1>7. more \o rest = all
  <2>1. ASSUME NEW i \in 1 .. n + m PROVE (more \o rest)[i] = all[i]
    <3>1. CASE i <= n + 1
      <4>1. i \in 1 .. n + 1
        BY <1>1, <3>1
      <4> QED BY <3>1, <4>1, <1>5, <1>6
    <3>2. CASE ~(i <= n + 1)
      <4>1. i - (n + 1) \in 1 .. m - 1 /\ i - (n + 1) + 1 = i - n /\ ~(i <= n)
        BY <1>1, <3>2
      <4> QED BY <3>2, <4>1, <1>2, <1>3, <1>5
    <3> QED BY <3>1, <3>2
  <2> QED BY <2>1, <1>3, <1>5, SeqEqual
<1>8. more = SubSeq(all, 1, n + 1) /\ n + 1 <= n + m
  <2>1. n + 1 <= n + m /\ n + 1 \in 0 .. n + m
    BY <1>1
  <2> DEFINE b == SubSeq(all, 1, n + 1)
  <2>2. b \in Seq(S) /\ Len(b) = n + 1 /\ \A i \in 1 .. n + 1 : b[i] = all[i]
    BY <1>3, <2>1, FirstElements
  <2> HIDE DEF b
  <2>3. b = more
    BY <2>2, <1>4, <1>6, SeqEqual
  <2> QED BY <2>1, <2>3 DEF b
<1> QED BY <1>2, <1>3, <1>4, <1>7, <1>8 DEF all, more, rest, n

\* What a request that runs a chain is about to record.
LEMMA Running ==
  ASSUME RouterInv, NEW q \in Requests, req[q].pc = "run"
  PROVE  LET r == req[q]
         IN  /\ r \in RequestStates /\ r.todo # <<>> /\ r.errAt = 0 /\ ~r.panicked
             /\ r.ran \o r.todo = Todo(r.target) /\ r.target \in Targets
             /\ calls = MaxRegistrations /\ Len(r.ran) \in Nat
             /\ Ran(q) = Append(r.ran, Head(r.todo))
<1> DEFINE r == req[q]
           h == Head(r.todo)
           front == IF h[1] \in Routers THEN expected[h[1]] ELSE <<>>
           a == heap[q]
<1>1. /\ RouterTypeOK /\ r \in RequestStates /\ r.todo \in Seq(Functions) /\ r.ran \in Seq(Functions)
      /\ Chained(q) /\ Split(q) /\ Closed(q)
  BY DEF RouterInv, RouterTypeOK, RequestStates
<1>2. r.todo # <<>> /\ r.chain = Slice(q, Len(a)) /\ a = front \o <<h>>
  BY <1>1 DEF Chained
<1>3. r.errAt = 0 /\ ~r.panicked /\ r.ran \o r.todo = Todo(r.target)
  BY <1>1, <1>2 DEF Split
<1>4. h \in Functions
  BY <1>1, <1>2, HeadTailProperties
<1>5. front \in Seq(Functions)
  BY <1>1, EmptySeq DEF RouterTypeOK
<1> HIDE DEF front, h, a
<1>6. <<h>> \in Seq(Functions) /\ Len(<<h>>) = 1 /\ <<h>>[1] = h /\ Len(front) \in Nat
  BY <1>4, <1>5, Single, LenProperties
<1>7. /\ a \in Seq(Functions) /\ Len(a) = Len(front) + 1
      /\ \A i \in 1 .. Len(front) + 1 : a[i] = IF i <= Len(front) THEN front[i] ELSE <<h>>[i - Len(front)]
  BY <1>2, <1>5, <1>6, ConcatProperties
<1>8. a[Len(a)] = h
  <2>1. Len(a) \in 1 .. Len(front) + 1 /\ ~(Len(a) <= Len(front)) /\ Len(a) - Len(front) = 1
    BY <1>6, <1>7
  <2> QED BY <2>1, <1>6, <1>7
<1>9. Elements(r.chain) = a
  <2>1. SubSeq(a, 1, Len(a)) = a
    BY <1>7, SubSeqFull
  <2> QED BY <2>1, <1>2 DEF Elements, Slice, a
<1>10. Ran(q) = Append(r.ran, h)
  BY <1>8, <1>9 DEF Ran, Last
<1>11. Len(r.ran) \in Nat
  BY <1>1, LenProperties
<1> QED BY <1>1, <1>2, <1>3, <1>10, <1>11 DEF h, Closed

LEMMA ServeSound ==
  ASSUME RouterInv, NEW q \in Requests, NEW target \in Targets, ServeHTTP(q, target)
  PROVE  RouterInv'
<1> DEFINE todo == Todo(target)
           status == IF todo # <<>> THEN 200 ELSE IF target = "method" THEN 405 ELSE 404
           body == IF todo # <<>> THEN "none" ELSE "library"
           c == [Fresh EXCEPT !.pc = "next", !.target = target, !.todo = todo, !.status = status,
                              !.body = body]
<1>1. RouterTypeOK /\ todo \in Seq(Functions)
  BY TodoTyped DEF RouterInv
<1>2. /\ req[q].pc = "none" /\ req' = [req EXCEPT ![q] = c]
      /\ UNCHANGED <<heap, registered, counters>> /\ calls' = MaxRegistrations
  BY DEF ServeHTTP, Step
<1>9. c.panicked \in BOOLEAN /\ status \in {200, 404, 405, 500} /\ body \in {"none", "library", "handler", "json404", "panic"}
  BY DEF Fresh
<1> HIDE DEF todo, status, body
<1>4. /\ c.pc = "next" /\ c.target = target /\ c.todo = todo /\ c.ran = <<>> /\ c.errAt = 0
      /\ c.panicked = FALSE /\ c.chain = Slice("root", 0) /\ c.status = status /\ c.body = body
  BY DEF Fresh
<1>10. DOMAIN c = DOMAIN Fresh
  BY Zenon
<1>11. c = [x \in DOMAIN c |-> c[x]]
  BY Zenon
<1> HIDE DEF c
<1>3. c \in RequestStates
  <2>1. Slice("root", 0) \in Slices /\ <<>> \in Seq(Functions)
    BY EmptySeq DEF Slice, Slices, Arrays, Routers
  <2>2. Fresh \in RequestStates
    BY <2>1 DEF Fresh, RequestStates
  <2>3. /\ c.pc \in {"none", "next", "run", "panic", "done", "escaped"} /\ c.target \in Targets \union {"none"}
        /\ c.todo \in Seq(Functions) /\ c.chain \in Slices /\ c.ran \in Seq(Functions)
    BY <1>1, <1>4, <2>1
  <2>4. c.status \in {200, 404, 405, 500} /\ c.body \in {"none", "library", "handler", "json404", "panic"}
    BY <1>4, <1>9
  <2>5. c.errAt \in Nat /\ c.panicked \in BOOLEAN
    BY <1>4, <1>9
  <2> QED BY ONLY <1>10, <1>11, <2>2, <2>3, <2>4, <2>5, Changed
<1>5. req'[q] = c
  BY <1>1, <1>2 DEF RouterTypeOK
<1>6. Closed(q)' /\ Chained(q)'
  BY <1>2, <1>4, <1>5 DEF Closed, Chained
<1>7. Split(q)'
  <2>1. Todo(target)' = todo
    <3>1. routes' = routes /\ notFound' = notFound
      BY <1>2 DEF registered
    <3> QED BY <3>1, Zenon DEF Todo, todo
  <2>2. Len(todo) \in Nat /\ SubSeq(todo, 1, 0) = <<>> /\ <<>> \o todo = todo
    BY <1>1, LenProperties, SubSeqEmpty, ConcatEmptySeq
  <2>3. Len(<<>>) = 0 /\ 0 <= Len(todo)
    BY <2>2, EmptySeq
  <2> QED BY <1>4, <1>5, <2>1, <2>2, <2>3 DEF Split
<1>8. Ends'
  BY <1>2, <1>4, EndsSame DEF registered
<1> QED BY <1>1, <1>2, <1>3, <1>4, <1>6, <1>7, <1>8, ServingKeeps DEF Sound, RouterTypeOK

\* The handlers to run are not touched by a step of a request.
LEMMA TodoKept ==
  ASSUME UNCHANGED registered
  PROVE  \A t : Todo(t)' = Todo(t)
<1>1. routes' = routes /\ notFound' = notFound
  BY DEF registered
<1> QED BY <1>1, Zenon DEF Todo

LEMMA BuildSound ==
  ASSUME RouterInv, NEW q \in Requests, Wrapped(q) \/ NotWrapped(q)
  PROVE  RouterInv'
<1> DEFINE r == req[q]
           h == Head(r.todo)
           front == IF h[1] \in Routers THEN expected[h[1]] ELSE <<>>
           a == front \o <<h>>
           c == [req[q] EXCEPT !.pc = "run", !.chain = Slice(q, Len(a))]
<1>1. /\ RouterTypeOK /\ Owned /\ r \in RequestStates /\ r.todo \in Seq(Functions)
      /\ Closed(q) /\ Split(q) /\ q \in Arrays
  BY DEF RouterInv, RouterTypeOK, RequestStates, Arrays
<1>2. r.pc = "next" /\ r.todo # <<>> /\ UNCHANGED <<registration, counters>>
  BY DEF Wrapped, NotWrapped, Step
<1>3. h \in Functions
  BY <1>1, <1>2, HeadTailProperties
<1>4. front \in Seq(Functions)
  BY <1>1, EmptySeq DEF RouterTypeOK
<1> HIDE DEF h, front
<1>5. a \in Seq(Functions) /\ Len(a) = Len(front) + 1 /\ Len(a) \in Nat
  BY <1>3, <1>4, Single, ConcatProperties, LenProperties
<1>6. req' = [req EXCEPT ![q] = c] /\ heap' = [heap EXCEPT ![q] = a]
  <2>1. CASE Wrapped(q)
    <3>1. h[1] \in Routers /\ BuildHandlerChain(q, h[1], h)
      BY <2>1 DEF Wrapped, h
    <3>2. front = expected[h[1]]
      BY <3>1 DEF front
    <3>3. Elements(middleware[h[1]]) = front /\ middleware[h[1]].len + 1 = Len(a)
      BY <1>1, <1>5, <3>1, <3>2, Sliced DEF Owned
    <3> QED BY <3>1, <3>3 DEF BuildHandlerChain, Step
  <2>2. CASE NotWrapped(q)
    <3>1. h[1] \notin Routers
      BY <2>2 DEF NotWrapped, h
    <3>2. front = <<>>
      BY <3>1 DEF front
    <3>3. a = <<h>> /\ Len(a) = 1
      BY <1>3, <1>5, <3>2, Single, ConcatEmptySeq, EmptySeq
    <3> QED BY <2>2, <3>3 DEF NotWrapped, Step, h
  <2> QED BY <2>1, <2>2
<1>7. Slice(q, Len(a)) \in Slices
  BY <1>1, <1>5 DEF Slice, Slices
<1> HIDE DEF a
<1>8. DOMAIN c = DOMAIN r /\ c = [x \in DOMAIN c |-> c[x]] /\ c.status = r.status
  BY <1>1 DEF RequestStates
<1>9. /\ c.pc = "run" /\ c.chain = Slice(q, Len(a)) /\ c.target = r.target /\ c.todo = r.todo
      /\ c.ran = r.ran /\ c.errAt = r.errAt /\ c.panicked = r.panicked /\ c.body = r.body
  BY <1>1 DEF RequestStates
<1> HIDE DEF c
<1>18. c \in RequestStates
  <2>1. /\ r.target \in Targets \union {"none"} /\ r.todo \in Seq(Functions) /\ r.ran \in Seq(Functions)
        /\ r.status \in {200, 404, 405, 500} /\ r.errAt \in Nat /\ r.panicked \in BOOLEAN
        /\ r.body \in {"none", "library", "handler", "json404", "panic"}
    BY <1>1 DEF RequestStates
  <2> QED BY <1>1, <1>7, <1>8, <1>9, <2>1, Changed
<1>10. req'[q] = c /\ heap'[q] = a
  BY <1>1, <1>6 DEF RouterTypeOK
<1>11. Closed(q)'
  BY <1>1, <1>2, <1>9, <1>10 DEF Closed, registration
<1>12. Chained(q)'
  BY <1>2, <1>9, <1>10 DEF Chained, a, front, h, registration, registered
<1>13. UNCHANGED registered
  BY <1>2 DEF registration
<1>14. Split(q)'
  BY <1>1, <1>2, <1>9, <1>10, <1>13, TodoKept DEF Split
<1>15. Ends'
  BY <1>2, <1>6, <1>9, <1>13, EndsSame DEF registered
<1>16. /\ heap' \in [Arrays -> Seq(Functions)]
       /\ \A b \in Arrays \ {q} : heap'[b] = heap[b]
  BY <1>1, <1>5, <1>6 DEF RouterTypeOK
<1>17. calls' = calls /\ counters' \in [{"error", "panic", "duration"} -> Nat]
  BY <1>1, <1>2 DEF registration, RouterTypeOK
<1> QED BY <1>6, <1>9, <1>11, <1>12, <1>13, <1>14, <1>15, <1>16, <1>17, <1>18, ServingKeeps DEF Sound

\* A running chain ends, with an answer, an error or a panic.
LEMMA ChainEnds ==
  ASSUME RouterInv, NEW q \in Requests, req[q].pc = "run", UNCHANGED <<heap, registration, counters>>,
         NEW c, req' = [req EXCEPT ![q] = c], DOMAIN c = DOMAIN req[q], c = [x \in DOMAIN c |-> c[x]],
         c.target = req[q].target, c.chain = req[q].chain, c.ran = Ran(q), c.todo \in Seq(Functions),
         c.pc \in {"next", "panic"}, c.pc = "next" => ~c.panicked /\ (c.errAt = 0 => c.body = "handler"),
         c.pc = "panic" => c.panicked, c.errAt \in {0, Len(req[q].ran) + 1}, c.errAt # 0 => c.todo = <<>>,
         c.errAt = 0 /\ ~c.panicked => c.todo = Tail(req[q].todo),
         c.status \in {200, 404, 405, 500}, c.panicked \in BOOLEAN,
         c.body \in {"none", "library", "handler", "json404", "panic"}
  PROVE  RouterInv'
<1> DEFINE r == req[q]
           all == Todo(r.target)
           more == Append(r.ran, Head(r.todo))
<1>1. /\ RouterTypeOK /\ r \in RequestStates /\ r.todo \in Seq(Functions) /\ r.ran \in Seq(Functions)
      /\ r.target \in Targets \union {"none"} /\ r.chain \in Slices
  <2>1. RouterTypeOK /\ r \in RequestStates
    BY DEF RouterInv, RouterTypeOK
  <2> QED BY <2>1 DEF RequestStates
<1>2. /\ r.todo # <<>> /\ r.ran \o r.todo = all /\ r.target \in Targets
      /\ calls = MaxRegistrations /\ Len(r.ran) \in Nat /\ Ran(q) = more
  BY Running
<1>3. /\ more \in Seq(Functions) /\ Len(more) = Len(r.ran) + 1 /\ Len(more) <= Len(r.ran \o r.todo)
      /\ more = SubSeq(r.ran \o r.todo, 1, Len(more)) /\ more \o Tail(r.todo) = r.ran \o r.todo
  <2> DEFINE ran == r.ran
             todo == r.todo
  <2>1. todo \in Seq(Functions) /\ ran \in Seq(Functions) /\ todo # <<>>
    BY <1>1, <1>2
  <2> HIDE DEF ran, todo
  <2>2. /\ Append(ran, Head(todo)) \in Seq(Functions) /\ Len(Append(ran, Head(todo))) = Len(ran) + 1
        /\ Len(Append(ran, Head(todo))) <= Len(ran \o todo)
        /\ Append(ran, Head(todo)) = SubSeq(ran \o todo, 1, Len(Append(ran, Head(todo))))
        /\ Append(ran, Head(todo)) \o Tail(todo) = ran \o todo
    BY ONLY <2>1, Advance
  <2> QED BY <2>2 DEF ran, todo
<1>4. UNCHANGED registered
  BY DEF registration
<1>6. /\ calls' = calls /\ counters' \in [{"error", "panic", "duration"} -> Nat]
      /\ heap' \in [Arrays -> Seq(Functions)] /\ \A b \in Arrays \ {q} : heap'[b] = heap[b]
  BY <1>1 DEF registration, RouterTypeOK
<1> HIDE DEF more, all
<1>7. c \in RequestStates
  <2>1. c.errAt \in Nat /\ c.panicked \in BOOLEAN
    BY <1>2
  <2>2. c.pc \in {"none", "next", "run", "panic", "done", "escaped"}
    OBVIOUS
  <2>3. c.target \in Targets \union {"none"} /\ c.chain \in Slices /\ c.ran \in Seq(Functions)
    BY <1>1, <1>2, <1>3
  <2>4. /\ c.todo \in Seq(Functions) /\ c.status \in {200, 404, 405, 500}
        /\ c.body \in {"none", "library", "handler", "json404", "panic"}
    OBVIOUS
  <2>5. DOMAIN c = DOMAIN r /\ c = [x \in DOMAIN c |-> c[x]] /\ r \in RequestStates
    BY <1>1
  <2> HIDE DEF r
  <2> QED BY ONLY <2>1, <2>2, <2>3, <2>4, <2>5, Changed
<1>8. req'[q] = c
  BY <1>1 DEF RouterTypeOK
<1>9. Closed(q)'
  BY <1>2, <1>6, <1>8 DEF Closed
<1>10. Chained(q)'
  BY <1>8 DEF Chained
<1>12. Split(q)'
  <2>1. Todo(req[q].target)' = all
    <3>1. routes' = routes /\ notFound' = notFound /\ req'[q].target = req[q].target
      BY <1>4, <1>8 DEF registered
    <3>2. \A u : Todo(u)' = Todo(u)
      BY <1>4, TodoKept
    <3> QED BY ONLY <3>1, <3>2 DEF all
  <2>2. c.ran = more /\ Len(c.ran) <= Len(all) /\ c.ran = SubSeq(all, 1, Len(c.ran))
    BY <1>2, <1>3
  <2>3. c.errAt = 0 /\ ~c.panicked => c.ran \o c.todo = all
    BY <1>2, <1>3, <2>2
  <2>4. c.errAt # 0 => c.todo = <<>> /\ c.errAt = Len(c.ran)
    BY <1>3, <2>2
  <2>5. /\ c.pc \in {"next", "run"} => ~c.panicked
        /\ ~(c.pc = "done") /\ (c.pc \in {"panic", "escaped"} => c.panicked)
    OBVIOUS
  <2> QED BY ONLY <1>8, <2>1, <2>2, <2>3, <2>4, <2>5, c.target = req[q].target DEF Split
<1>13. Ends'
  BY <1>4, EndsSame DEF registration, registered
<1>14. c.pc # "done"
  OBVIOUS
<1> QED BY <1>4, <1>6, <1>7, <1>9, <1>10, <1>12, <1>13, <1>14, ServingKeeps DEF Sound

LEMMA ChainEndSound ==
  ASSUME RouterInv, NEW q \in Requests, ChainAnswers(q) \/ ChainError(q) \/ ChainPanics(q)
  PROVE  RouterInv'
<1> DEFINE r == req[q]
<1>1. /\ r \in RequestStates /\ r.todo \in Seq(Functions) /\ r.status \in {200, 404, 405, 500}
      /\ r.body \in {"none", "library", "handler", "json404", "panic"}
  BY DEF RouterInv, RouterTypeOK, RequestStates
<1>2. r.pc = "run" /\ UNCHANGED <<heap, registration, counters>>
  BY DEF ChainAnswers, ChainError, ChainPanics, Step
<1>3. r.todo # <<>> /\ r.errAt = 0 /\ ~r.panicked /\ r.panicked \in BOOLEAN /\ Len(r.ran) \in Nat
  <2>1. r.panicked \in BOOLEAN
    BY <1>1 DEF RequestStates
  <2> QED BY <1>2, <2>1, Running
<1>4. Tail(r.todo) \in Seq(Functions) /\ <<>> \in Seq(Functions)
  BY <1>1, <1>3, HeadTailProperties, EmptySeq
<1>5. ASSUME NEW status \in {200, 404},
             Step(q, "run", [req[q] EXCEPT !.pc = "next", !.ran = Ran(q), !.todo = Tail(req[q].todo),
                                           !.status = status, !.body = "handler"])
      PROVE  RouterInv'
  <2> DEFINE c == [req[q] EXCEPT !.pc = "next", !.ran = Ran(q), !.todo = Tail(req[q].todo),
                                 !.status = status, !.body = "handler"]
  <2>1. req' = [req EXCEPT ![q] = c]
    BY <1>5 DEF Step
  <2>2. DOMAIN c = DOMAIN req[q]
    BY Zenon
  <2>3. c = [x \in DOMAIN c |-> c[x]]
    BY Zenon
  <2>4. /\ c.target = r.target /\ c.chain = r.chain /\ c.ran = Ran(q) /\ c.todo = Tail(r.todo)
        /\ c.pc = "next" /\ c.errAt = r.errAt /\ c.status = status /\ c.body = "handler"
    BY <1>1 DEF RequestStates
  <2>5. ~c.panicked /\ c.panicked \in BOOLEAN
    BY <1>1, <1>3 DEF RequestStates
  <2> HIDE DEF c
  <2>6. c.todo \in Seq(Functions) /\ c.pc \in {"next", "panic"} /\ c.pc # "panic"
    BY <1>4, <2>4
  <2>7. c.errAt = 0 /\ c.errAt \in {0, Len(req[q].ran) + 1}
    BY <1>3, <2>4
  <2>8. c.status \in {200, 404, 405, 500} /\ c.body \in {"none", "library", "handler", "json404", "panic"}
    BY <2>4
  <2> QED BY <1>2, <2>1, <2>2, <2>3, <2>4, <2>5, <2>6, <2>7, <2>8, ChainEnds
<1>6. ASSUME NEW status \in {404, 500},
             Step(q, "run", [req[q] EXCEPT !.pc = "next", !.ran = Ran(q), !.todo = <<>>,
                                           !.status = status, !.body = "library",
                                           !.errAt = Len(req[q].ran) + 1])
      PROVE  RouterInv'
  <2> DEFINE n == Len(req[q].ran) + 1
             c == [req[q] EXCEPT !.pc = "next", !.ran = Ran(q), !.todo = <<>>,
                                 !.status = status, !.body = "library", !.errAt = n]
  <2>1. req' = [req EXCEPT ![q] = c]
    BY <1>6 DEF Step
  <2>2. n # 0
    BY <1>3
  <2>10. c.errAt = n
    BY <1>1 DEF RequestStates
  <2> HIDE DEF n
  <2>3. DOMAIN c = DOMAIN req[q]
    BY Zenon
  <2>4. c = [x \in DOMAIN c |-> c[x]]
    <3> DEFINE d == [req[q] EXCEPT !.pc = "next", !.ran = Ran(q), !.todo = <<>>, !.status = status,
                                   !.body = "library"]
    <3>1. c = [d EXCEPT !.errAt = n]
      OBVIOUS
    <3> HIDE DEF c, d
    <3> QED BY <3>1, Zenon
  <2>5. /\ c.target = r.target /\ c.chain = r.chain /\ c.ran = Ran(q) /\ c.todo = <<>> /\ c.pc = "next"
        /\ c.status = status /\ c.body = "library"
    BY <1>1 DEF RequestStates
  <2>6. ~c.panicked /\ c.panicked \in BOOLEAN
    BY <1>1, <1>3 DEF RequestStates
  <2> HIDE DEF c
  <2>7. c.todo \in Seq(Functions) /\ c.pc \in {"next", "panic"} /\ c.pc # "panic"
    BY <1>4, <2>5
  <2>8. c.errAt # 0 /\ c.errAt \in {0, Len(req[q].ran) + 1}
    BY <2>2, <2>10 DEF n
  <2>9. c.status \in {200, 404, 405, 500} /\ c.body \in {"none", "library", "handler", "json404", "panic"}
    BY <2>5
  <2> QED BY <1>2, <2>1, <2>3, <2>4, <2>5, <2>6, <2>7, <2>8, <2>9, ChainEnds
<1>7. ASSUME ChainPanics(q) PROVE RouterInv'
  <2> DEFINE yes == TRUE
             c == [req[q] EXCEPT !.pc = "panic", !.ran = Ran(q), !.panicked = yes]
  <2>1. req' = [req EXCEPT ![q] = c]
    BY <1>7 DEF ChainPanics, Step
  <2> HIDE DEF yes
  <2>3. DOMAIN c = DOMAIN req[q]
    BY Zenon
  <2>4. c = [x \in DOMAIN c |-> c[x]]
    BY Zenon
  <2>5. /\ c.target = r.target /\ c.chain = r.chain /\ c.ran = Ran(q) /\ c.todo = r.todo /\ c.pc = "panic"
        /\ c.errAt = r.errAt /\ c.status = r.status /\ c.body = r.body
    BY <1>1 DEF RequestStates
  <2>6. c.panicked /\ c.panicked \in BOOLEAN
    BY <1>1 DEF RequestStates, yes
  <2> HIDE DEF c
  <2>7. c.todo \in Seq(Functions) /\ c.pc \in {"next", "panic"} /\ c.pc # "next"
    BY <1>1, <2>5
  <2>8. c.errAt = 0 /\ c.errAt \in {0, Len(req[q].ran) + 1}
    BY <1>3, <2>5
  <2>9. c.status \in {200, 404, 405, 500} /\ c.body \in {"none", "library", "handler", "json404", "panic"}
    BY <1>1, <2>5
  <2> QED BY <1>2, <2>1, <2>3, <2>4, <2>5, <2>6, <2>7, <2>8, <2>9, ChainEnds
<1> QED BY <1>5, <1>6, <1>7 DEF ChainAnswers, ChainError

\* The end of ServeHTTP changes no list of handlers.
LEMMA EndSound ==
  ASSUME RouterInv, NEW q \in Requests, UNCHANGED <<heap, registration>>,
         NEW c, req' = [req EXCEPT ![q] = c], DOMAIN c = DOMAIN req[q], c = [x \in DOMAIN c |-> c[x]],
         c.target = req[q].target, c.chain = req[q].chain, c.ran = req[q].ran, c.todo = req[q].todo,
         c.errAt = req[q].errAt, c.panicked = req[q].panicked, c.pc \in {"done", "escaped"},
         req[q].pc \in {"next", "panic"}, req[q].pc = "next" => c.pc = "done" /\ req[q].todo = <<>>,
         c.status \in {200, 404, 405, 500}, c.body \in {"none", "library", "handler", "json404", "panic"},
         Ends' /\ counters' \in [{"error", "panic", "duration"} -> Nat]
  PROVE  RouterInv'
<1> DEFINE r == req[q]
           all == Todo(r.target)
<1>1. /\ RouterTypeOK /\ r \in RequestStates /\ r.todo \in Seq(Functions) /\ r.ran \in Seq(Functions)
      /\ r.target \in Targets \union {"none"} /\ r.chain \in Slices /\ r.errAt \in Nat
      /\ r.panicked \in BOOLEAN
  <2>1. RouterTypeOK /\ r \in RequestStates
    BY DEF RouterInv, RouterTypeOK
  <2> QED BY <2>1 DEF RequestStates
<1>2. Closed(q) /\ Split(q)
  BY DEF RouterInv
<1>3. UNCHANGED registered /\ calls' = calls
  BY DEF registration
<1>4. c \in RequestStates
  <2>1. c.errAt \in Nat /\ c.panicked \in BOOLEAN
    BY <1>1
  <2>2. c.pc \in {"none", "next", "run", "panic", "done", "escaped"}
    OBVIOUS
  <2>3. /\ c.target \in Targets \union {"none"} /\ c.chain \in Slices /\ c.ran \in Seq(Functions)
        /\ c.todo \in Seq(Functions)
    BY <1>1
  <2>4. c.status \in {200, 404, 405, 500} /\ c.body \in {"none", "library", "handler", "json404", "panic"}
    OBVIOUS
  <2>5. DOMAIN c = DOMAIN r /\ c = [x \in DOMAIN c |-> c[x]] /\ r \in RequestStates
    BY <1>1
  <2> HIDE DEF r
  <2> QED BY ONLY <2>1, <2>2, <2>3, <2>4, <2>5, Changed
<1>5. req'[q] = c
  BY <1>1 DEF RouterTypeOK
<1>6. Closed(q)'
  BY <1>2, <1>3, <1>5 DEF Closed
<1>7. Chained(q)'
  BY <1>5 DEF Chained
<1>8. Split(q)'
  <2>1. Todo(req[q].target)' = all
    <3>1. routes' = routes /\ notFound' = notFound /\ req'[q].target = req[q].target
      BY <1>3, <1>5 DEF registered
    <3>2. \A u : Todo(u)' = Todo(u)
      BY <1>3, TodoKept
    <3> QED BY ONLY <3>1, <3>2 DEF all
  <2>2. /\ r.errAt = 0 /\ ~r.panicked => r.ran \o r.todo = all
        /\ Len(r.ran) <= Len(all) /\ r.ran = SubSeq(all, 1, Len(r.ran))
        /\ r.errAt # 0 => r.todo = <<>> /\ r.errAt = Len(r.ran)
        /\ r.pc = "panic" <=> r.panicked
    BY <1>2 DEF Split
  <2> HIDE DEF all
  <2>3. /\ c.errAt = 0 /\ ~c.panicked => c.ran \o c.todo = all
        /\ Len(c.ran) <= Len(all) /\ c.ran = SubSeq(all, 1, Len(c.ran))
        /\ c.errAt # 0 => c.todo = <<>> /\ c.errAt = Len(c.ran)
    <3>1. c.ran = r.ran /\ c.todo = r.todo /\ c.errAt = r.errAt /\ c.panicked = r.panicked
      OBVIOUS
    <3> HIDE DEF r
    <3> QED BY ONLY <2>2, <3>1
  <2>4. /\ c.pc = "done" /\ ~c.panicked => c.todo = <<>>
        /\ c.pc = "escaped" => c.panicked
        /\ c.pc \notin {"next", "run", "panic"}
    BY <2>2
  <2> QED BY ONLY <1>5, <2>1, <2>3, <2>4, c.target = req[q].target DEF Split
<1>10. /\ heap' \in [Arrays -> Seq(Functions)]
       /\ \A b \in Arrays \ {q} : heap'[b] = heap[b]
  BY <1>1 DEF RouterTypeOK
<1> QED BY <1>3, <1>4, <1>6, <1>7, <1>8, <1>10, ServingKeeps DEF Sound

LEMMA FinishSound ==
  ASSUME RouterInv, NEW q \in Requests, Finish(q)
  PROVE  RouterInv'
<1> DEFINE r == req[q]
           body == HandleNotFound(req[q].status, req[q].body)
           c == [req[q] EXCEPT !.pc = "done", !.body = body]
<1>1. /\ r \in RequestStates /\ r.status \in {200, 404, 405, 500} /\ r.panicked \in BOOLEAN
      /\ r.body \in {"none", "library", "handler", "json404", "panic"}
  <2>1. r \in RequestStates
    BY DEF RouterInv, RouterTypeOK
  <2> QED BY <2>1 DEF RequestStates
<1>2. r.pc = "next" /\ r.todo = <<>> /\ UNCHANGED <<heap, registration>> /\ req' = [req EXCEPT ![q] = c]
  BY DEF Finish, Step
<1>3. ~r.panicked
  BY <1>2 DEF RouterInv, Split
<1>4. body \in {"none", "library", "handler", "json404", "panic"}
  BY <1>1 DEF HandleNotFound
<1> HIDE DEF body
<1>5. DOMAIN c = DOMAIN req[q]
  BY Zenon
<1>6. c = [x \in DOMAIN c |-> c[x]]
  BY Zenon
<1>7. /\ c.target = r.target /\ c.chain = r.chain /\ c.ran = r.ran /\ c.todo = r.todo /\ c.errAt = r.errAt
      /\ c.pc = "done" /\ c.status = r.status /\ c.body = body
  BY <1>1 DEF RequestStates
<1>8. c.panicked = r.panicked
  BY <1>1 DEF RequestStates
<1> HIDE DEF c
<1>9. c.status \in {200, 404, 405, 500} /\ c.body \in {"none", "library", "handler", "json404", "panic"}
  BY <1>1, <1>4, <1>7
<1>10. c \in RequestStates
  <2>1. /\ c.errAt \in Nat /\ c.panicked \in BOOLEAN /\ c.todo \in Seq(Functions) /\ c.chain \in Slices
        /\ c.target \in Targets \union {"none"} /\ c.ran \in Seq(Functions)
        /\ c.pc \in {"none", "next", "run", "panic", "done", "escaped"}
    BY <1>1, <1>7, <1>8 DEF RequestStates
  <2>2. DOMAIN c = DOMAIN r /\ r \in RequestStates
    BY <1>1, <1>5
  <2> HIDE DEF r
  <2> QED BY ONLY <1>6, <1>9, <2>1, <2>2, Changed
<1>11. collector' = collector
  BY <1>2 DEF registration, registered
<1>12. Count(IF c.panicked THEN {"panic", "duration"} ELSE {"duration"} \union HandleErrorMetrics(c.status))
  <2>1. Count({"duration"} \union HandleErrorMetrics(req[q].status))
    BY DEF Finish
  <2> QED BY <1>3, <1>7, <1>8, <2>1
<1>13. Ends' /\ counters' \in [{"error", "panic", "duration"} -> Nat]
  BY <1>2, <1>7, <1>10, <1>11, <1>12, EndsOnce
<1>14. c.pc \in {"done", "escaped"} /\ r.pc \in {"next", "panic"}
  BY <1>2, <1>7
<1> QED BY <1>2, <1>4, <1>5, <1>6, <1>7, <1>8, <1>9, <1>13, <1>14, EndSound

LEMMA HandlePanicSound ==
  ASSUME RouterInv, NEW q \in Requests, HandlePanic(q)
  PROVE  RouterInv'
<1> DEFINE r == req[q]
<1>1. r \in RequestStates /\ r.panicked \in BOOLEAN
  <2>1. r \in RequestStates
    BY DEF RouterInv, RouterTypeOK
  <2> QED BY <2>1 DEF RequestStates
<1> DEFINE ended(s) == [req[q] EXCEPT !.pc = "done", !.status = s, !.body = "panic"]
<1>2. PICK status \in {200, 500} : /\ "panic" \notin hooks => status = 500
                                  /\ Step(q, "panic", ended(status))
  BY DEF HandlePanic
<1> DEFINE c == [req[q] EXCEPT !.pc = "done", !.status = status, !.body = "panic"]
<1>3. r.pc = "panic" /\ UNCHANGED <<heap, registration>> /\ req' = [req EXCEPT ![q] = c]
  BY <1>2 DEF HandlePanic, Step
<1>4. r.panicked
  BY <1>3 DEF RouterInv, Split
<1>5. DOMAIN c = DOMAIN req[q]
  BY Zenon
<1>6. c = [x \in DOMAIN c |-> c[x]]
  BY Zenon
<1>7. /\ c.target = r.target /\ c.chain = r.chain /\ c.ran = r.ran /\ c.todo = r.todo /\ c.errAt = r.errAt
      /\ c.pc = "done" /\ c.status = status /\ c.body = "panic"
  BY <1>1 DEF RequestStates
<1>8. c.panicked = r.panicked
  BY <1>1 DEF RequestStates
<1> HIDE DEF c
<1>9. c.status \in {200, 404, 405, 500} /\ c.body \in {"none", "library", "handler", "json404", "panic"}
  BY <1>7
<1>10. c \in RequestStates
  <2>1. /\ c.errAt \in Nat /\ c.panicked \in BOOLEAN /\ c.todo \in Seq(Functions) /\ c.chain \in Slices
        /\ c.target \in Targets \union {"none"} /\ c.ran \in Seq(Functions)
        /\ c.pc \in {"none", "next", "run", "panic", "done", "escaped"}
    BY <1>1, <1>7, <1>8 DEF RequestStates
  <2>2. DOMAIN c = DOMAIN r /\ r \in RequestStates
    BY <1>1, <1>5
  <2> HIDE DEF r
  <2> QED BY ONLY <1>6, <1>9, <2>1, <2>2, Changed
<1>11. collector' = collector
  BY <1>3 DEF registration, registered
<1>12. Count(IF c.panicked THEN {"panic", "duration"} ELSE {"duration"} \union HandleErrorMetrics(c.status))
  <2>1. Count({"panic", "duration"})
    BY DEF HandlePanic
  <2> QED BY <1>4, <1>8, <2>1
<1>13. Ends' /\ counters' \in [{"error", "panic", "duration"} -> Nat]
  BY <1>3, <1>7, <1>10, <1>11, <1>12, EndsOnce
<1>14. c.pc \in {"done", "escaped"} /\ r.pc \in {"next", "panic"} /\ r.pc # "next"
  BY <1>3, <1>7
<1> QED BY <1>3, <1>5, <1>6, <1>7, <1>8, <1>9, <1>13, <1>14, EndSound

LEMMA PanicHandlerPanicsSound ==
  ASSUME RouterInv, NEW q \in Requests, PanicHandlerPanics(q)
  PROVE  RouterInv'
<1> DEFINE r == req[q]
           c == [req[q] EXCEPT !.pc = "escaped"]
<1>1. /\ r \in RequestStates /\ r.status \in {200, 404, 405, 500}
      /\ r.body \in {"none", "library", "handler", "json404", "panic"}
      /\ counters \in [{"error", "panic", "duration"} -> Nat]
  <2>1. r \in RequestStates /\ RouterTypeOK
    BY DEF RouterInv, RouterTypeOK
  <2> QED BY <2>1 DEF RequestStates, RouterTypeOK
<1>2. r.pc = "panic" /\ UNCHANGED <<heap, registration, counters>> /\ req' = [req EXCEPT ![q] = c]
  BY DEF PanicHandlerPanics, Step
<1>3. DOMAIN c = DOMAIN req[q]
  BY Zenon
<1>4. c = [x \in DOMAIN c |-> c[x]]
  BY Zenon
<1>5. /\ c.target = r.target /\ c.chain = r.chain /\ c.ran = r.ran /\ c.todo = r.todo /\ c.errAt = r.errAt
      /\ c.pc = "escaped" /\ c.status = r.status /\ c.body = r.body
  BY <1>1 DEF RequestStates
<1>6. c.panicked = r.panicked
  BY <1>1 DEF RequestStates
<1> HIDE DEF c
<1>7. Ends' /\ counters' \in [{"error", "panic", "duration"} -> Nat]
  <2>1. collector' = collector /\ counters' = counters /\ r.pc # "done" /\ c.pc # "done"
    BY <1>2, <1>5 DEF registration, registered
  <2>2. Ends'
    BY <1>2, <2>1, EndsSame
  <2> QED BY <1>1, <2>1, <2>2
<1>8. c.pc \in {"done", "escaped"} /\ r.pc \in {"next", "panic"} /\ r.pc # "next"
  BY <1>2, <1>5
<1>9. c.status \in {200, 404, 405, 500} /\ c.body \in {"none", "library", "handler", "json404", "panic"}
  BY <1>1, <1>5
<1> QED BY <1>2, <1>3, <1>4, <1>5, <1>6, <1>7, <1>8, <1>9, EndSound

-----------------------------------------------------------------------------
LEMMA RouterInitInv == RouterInit => RouterInv
<1> SUFFICES ASSUME RouterInit PROVE RouterInv
    OBVIOUS
<1>1. <<>> \in Seq(Functions) /\ Len(<<>>) = 0
  BY EmptySeq
<1>2. \A r \in Routers : Slice(r, 0) \in Slices /\ Slice(r, 0).array = r /\ Slice(r, 0).len = 0 /\ r \in Arrays
  BY DEF Slice, Slices, Arrays
<1>3. Fresh \in RequestStates /\ Fresh.pc = "none"
  <2>1. Slice("root", 0) \in Slices
    BY <1>2 DEF Routers
  <2> QED BY <1>1, <2>1 DEF Fresh, RequestStates
<1>4. RouterTypeOK
  <2>1. heap \in [Arrays -> Seq(Functions)] /\ expected \in [Routers -> Seq(Functions)]
    BY <1>1 DEF RouterInit
  <2>2. /\ middleware \in [Routers -> Slices]
        /\ \A r \in Routers : middleware[r].len <= Len(heap[middleware[r].array])
    BY <1>1, <1>2 DEF RouterInit
  <2>3. made \subseteq Routers /\ calls \in 0 .. MaxRegistrations /\ routes \in [Routers -> 0 .. Raw]
    BY RouterBounds DEF RouterInit, Routers, Raw
  <2>4. /\ notFound \in Routers \union {"default", "method"} /\ hooks \subseteq {"notFound", "panic"}
        /\ collector \in [Routers -> Routers \union {"none"}]
        /\ counters \in [{"error", "panic", "duration"} -> Nat]
    BY DEF RouterInit
  <2>5. req \in [Requests -> RequestStates]
    BY <1>3 DEF RouterInit
  <2> QED BY <2>1, <2>2, <2>3, <2>4, <2>5 DEF RouterTypeOK
<1>5. Owned
  <2> SUFFICES ASSUME NEW r \in Routers
               PROVE  middleware[r].array = r /\ Elements(middleware[r]) = expected[r]
      BY DEF Owned
  <2>1. middleware[r] = Slice(r, 0) /\ expected[r] = <<>> /\ heap[r] = <<>>
    BY <1>2 DEF RouterInit
  <2>2. SubSeq(heap[r], 1, 0) = <<>>
    BY SubSeqEmpty
  <2> QED BY <1>2, <2>1, <2>2 DEF Elements
<1>6. \A q \in Requests : req[q].pc = "none"
  BY <1>3 DEF RouterInit
<1>7. \A q \in Requests : Closed(q) /\ Chained(q) /\ Split(q)
  BY <1>6 DEF Closed, Chained, Split
<1> DEFINE over == {q \in Requests : req[q].pc = "done"}
<1>9. over = {}
  BY <1>6
<1>10. EndsFinite
  BY <1>9, FS_EmptySet DEF EndsFinite
<1>11. EndsCounted
  <2>1. /\ {q \in over \ {q \in over : req[q].panicked} : req[q].status >= 400} = {}
        /\ {q \in over : req[q].panicked} = {}
    BY <1>9
  <2>2. counters = [error |-> 0, panic |-> 0, duration |-> 0] /\ collector["root"] = "none"
    BY DEF RouterInit, Routers
  <2> QED BY <2>1, <2>2, <1>9, FS_EmptySet DEF EndsCounted
<1> QED BY <1>4, <1>5, <1>7, <1>10, <1>11 DEF RouterInv

LEMMA RouterStepInv == RouterInv /\ [RouterNext]_routerVars => RouterInv'
<1> SUFFICES ASSUME RouterInv, [RouterNext]_routerVars PROVE RouterInv'
    OBVIOUS
<1>1. CASE UNCHANGED routerVars
  <2>1. /\ UNCHANGED <<heap, middleware, made, calls, routes, notFound, hooks, collector, req, counters, expected>>
        /\ UNCHANGED registered
    BY <1>1 DEF routerVars, registration, registered
  <2>2. RouterTypeOK'
    BY <2>1 DEF RouterInv, RouterTypeOK
  <2>3. Owned'
    BY <2>1 DEF RouterInv, Owned, Elements
  <2>4. ASSUME NEW q \in Requests
        PROVE  Closed(q)' /\ Chained(q)' /\ Split(q)'
    <3>1. Closed(q) /\ Chained(q) /\ Split(q)
      BY DEF RouterInv
    <3>2. \A t : Todo(t)' = Todo(t)
      BY <2>1, TodoKept
    <3>3. Closed(q)' /\ Chained(q)'
      BY <2>1, <3>1 DEF Closed, Chained
    <3>4. Split(q)'
      BY <2>1, <3>1, <3>2 DEF Split
    <3> QED BY <3>3, <3>4
  <2>5. EndsFinite' /\ EndsCounted'
    BY <2>1 DEF RouterInv, EndsFinite, EndsCounted
  <2> QED BY <2>2, <2>3, <2>4, <2>5 DEF RouterInv
<1>2. CASE Group \/ PanicHandler \/ \E r \in Routers : Register(r)
  BY <1>2, Registrations
<1>3. ASSUME NEW q \in Requests, Serve(q) PROVE RouterInv'
  <2>1. CASE \E target \in Targets : ServeHTTP(q, target)
    BY <2>1, ServeSound
  <2>2. CASE Wrapped(q) \/ NotWrapped(q)
    BY <2>2, BuildSound
  <2>3. CASE ChainAnswers(q) \/ ChainError(q) \/ ChainPanics(q)
    BY <2>3, ChainEndSound
  <2>4. CASE Finish(q) \/ HandlePanic(q) \/ PanicHandlerPanics(q)
    BY <2>4, FinishSound, HandlePanicSound, PanicHandlerPanicsSound
  <2> QED BY <1>3, <2>1, <2>2, <2>3, <2>4 DEF Serve
<1> QED BY <1>1, <1>2, <1>3 DEF RouterNext

\* Every router appends into an array of its own, registration ends with the first
\* request, and what ran and what is still to run of a request are always the
\* handlers of its route.
THEOREM RouterInductive == RouterSpec => []RouterInv
<1> QED BY RouterInitInv, RouterStepInv, PTL DEF RouterSpec

\* The router's fields, the arrays behind its slices and the requests have their
\* types, and every slice lies in its array.
THEOREM RouterTypes == RouterSpec => []RouterTypeOK
<1>1. RouterInv => RouterTypeOK
  BY DEF RouterInv
<1> QED BY <1>1, RouterInductive, PTL

\* A chain is the router's middleware as Use and Group left it and then the handler,
\* for any number of routers' appends and requests at the same time.
THEOREM ChainWhole == RouterSpec => []WholeChain
<1>1. RouterInv => WholeChain
  <2> SUFFICES ASSUME RouterInv PROVE WholeChain
      OBVIOUS
  <2>1. RouterTypeOK /\ Owned
    BY DEF RouterInv
  <2>2. \A r \in made : Elements(middleware[r]) = expected[r]
    BY <2>1 DEF RouterTypeOK, Owned
  <2>3. ASSUME NEW q \in Requests, req[q].pc = "run"
        PROVE  LET h == Head(req[q].todo)
               IN  Elements(req[q].chain) = (IF h[1] \in Routers THEN expected[h[1]] ELSE <<>>) \o <<h>>
    <3>1. /\ req[q].chain = Slice(q, Len(heap[q])) /\ heap[q] \in Seq(Functions)
          /\ LET h == Head(req[q].todo)
             IN  heap[q] = (IF h[1] \in Routers THEN expected[h[1]] ELSE <<>>) \o <<h>>
      BY <2>1, <2>3 DEF RouterInv, Chained, RouterTypeOK, Arrays
    <3>2. Elements(req[q].chain) = heap[q]
      <4>1. SubSeq(heap[q], 1, Len(heap[q])) = heap[q]
        BY <3>1, SubSeqFull
      <4>2. req[q].chain = Slice(q, Len(heap[q]))
        BY <3>1
      <4>3. req[q].chain.array = q /\ req[q].chain.len = Len(heap[q])
        BY ONLY <4>2 DEF Slice
      <4> QED BY ONLY <4>1, <4>3 DEF Elements
    <3> QED BY <3>1, <3>2
  <2> QED BY <2>2, <2>3 DEF WholeChain
<1> QED BY <1>1, RouterInductive, PTL

\* A request that ends ran its route's handlers in order, all of them unless one
\* ended with an error or a panic, and none after it.
THEOREM RunUntilError == RouterSpec => []RunsUntilError
<1>1. RouterInv => RunsUntilError
  <2> SUFFICES ASSUME RouterInv, NEW q \in Requests, req[q].pc = "done"
               PROVE  LET r == req[q]
                      IN  /\ r.ran = SubSeq(Todo(r.target), 1, Len(r.ran))
                          /\ r.errAt \in {0, Len(r.ran)}
                          /\ r.errAt = 0 /\ ~r.panicked => r.ran = Todo(r.target)
      BY DEF RunsUntilError
  <2> DEFINE r == req[q]
  <2>1. r \in RequestStates
    BY DEF RouterInv, RouterTypeOK
  <2>2. r.ran \in Seq(Functions)
    BY <2>1 DEF RequestStates
  <2>3. r.ran \o <<>> = r.ran
    BY <2>2, ConcatEmptySeq
  <2>4. Split(q)
    BY DEF RouterInv
  <2> QED BY <2>3, <2>4 DEF Split
<1> QED BY <1>1, RouterInductive, PTL

\* For any set of requests, each that ends is timed once and counted as a panic, as
\* an error or not at all.
THEOREM EachEndCounted == RouterSpec => []EndsCounted
<1>1. RouterInv => EndsCounted
  BY DEF RouterInv
<1> QED BY <1>1, RouterInductive, PTL
=============================================================================
