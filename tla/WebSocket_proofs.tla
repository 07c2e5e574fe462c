--------------------------- MODULE WebSocket_proofs ---------------------------
(***************************************************************************)
(* Safety of the connection life cycle for every set of connections, limit *)
(* and buffer size.  The inductive invariant says what each step of        *)
(* Close's body has left behind; as closeOnce lets the body run once, a    *)
(* goroutine that finds it done finds everything closed.                   *)
(***************************************************************************)
EXTENDS WebSocket, TLAPS

LEMMA InitIInv == Init => IInv
<1> SUFFICES ASSUME Init PROVE IInv
    OBVIOUS
<1>1. TypeOK
  BY DEF Init, TypeOK
<1>2. ProgressOK /\ ServedOK
  BY DEF Init, ProgressOK, ServedOK, Served
<1> QED BY <1>1, <1>2 DEF IInv

LEMMA StepTypeOK == TypeOK /\ [Next]_vars => TypeOK'
<1> SUFFICES ASSUME TypeOK, [Next]_vars PROVE TypeOK'
    OBVIOUS
<1> USE DEF TypeOK, GotoCallback, GotoReader, GotoOnce, TakeFrame, socket,
            manager, pumps
<1>1. ASSUME NEW c \in Conns, Environment(c) PROVE TypeOK'
  <2>1. CASE Accept(c)
    BY <2>1 DEF Accept, M!Register
  <2>2. CASE Refuse(c)
    BY <2>2 DEF Refuse
  <2>3. CASE Arrive(c)
    BY <2>3 DEF Arrive
  <2>4. CASE ReadFails(c)
    BY <2>4 DEF ReadFails
  <2> QED BY <1>1, <2>1, <2>2, <2>3, <2>4 DEF Environment
<1>2. ASSUME NEW c \in Conns, Callback(c) PROVE TypeOK'
  BY <1>2 DEF Callback, StartPumps, OnConnect, Released, CallbackReturns,
              CloseCalls, AfterClose
<1>3. ASSUME NEW c \in Conns, ReadPump(c) PROVE TypeOK'
  <2>1. CASE ReaderReturns(c)
    BY <2>1 DEF ReaderReturns, CloseCalls, AfterClose
  <2>2. CASE Echo(c)
    BY <2>2 DEF Echo, Write
  <2> QED BY <1>3, <2>1, <2>2 DEF ReadPump, SetupRead, ReadClosed,
             ReadCloseFrame, ReadTooBig, ReadMessage, OnMessage
<1>4. ASSUME NEW c \in Conns, WritePump(c) PROVE TypeOK'
  BY <1>4 DEF WritePump, PingTick, Write, WriterStops, WriterReturns,
              CloseCalls, AfterClose
<1>5. ASSUME NEW c \in Conns, Close(c) PROVE TypeOK'
  <2>1. CASE EnterClose(c)
    BY <2>1 DEF EnterClose
  <2>2. CASE MarkClosing(c)
    BY <2>2 DEF MarkClosing
  <2>3. CASE OnClose(c)
    BY <2>3 DEF OnClose
  <2>4. CASE Signal(c)
    BY <2>4 DEF Signal
  <2>5. CASE NetClose(c)
    BY <2>5 DEF NetClose
  <2>6. CASE MarkClosed(c)
    BY <2>6 DEF MarkClosed
  <2>7. CASE Remove(c)
    BY <2>7 DEF Remove, M!Deregister
  <2>8. CASE FinishClose(c)
    BY <2>8 DEF FinishClose
  <2> QED BY <1>5, <2>1, <2>2, <2>3, <2>4, <2>5, <2>6, <2>7, <2>8
         DEF Close
<1>6. CASE UNCHANGED vars
  BY <1>6 DEF vars
<1> QED BY <1>1, <1>2, <1>3, <1>4, <1>5, <1>6 DEF Next

\* Every step of Close leaves behind what the step it reaches promises.
LEMMA StepProgressOK == IInv /\ [Next]_vars => ProgressOK'
<1> SUFFICES ASSUME IInv, [Next]_vars PROVE ProgressOK'
    OBVIOUS
<1> USE DEF IInv, TypeOK, ProgressOK, Served, Returned, GotoCallback, GotoReader,
            GotoOnce, TakeFrame, socket, manager, pumps
<1>1. ASSUME ~crashed, NEW c \in Conns, Environment(c) PROVE ProgressOK'
  <2>1. CASE Accept(c)
    BY <1>1, <2>1 DEF Accept, M!Register, ServedOK
  <2>2. CASE Refuse(c)
    BY <2>2 DEF Refuse, ServedOK
  <2>3. CASE Arrive(c)
    BY <2>3 DEF Arrive, ServedOK
  <2>4. CASE ReadFails(c)
    BY <2>4 DEF ReadFails, ServedOK
  <2> QED BY <1>1, <2>1, <2>2, <2>3, <2>4 DEF Environment
<1>2. ASSUME ~crashed, NEW c \in Conns, Callback(c) PROVE ProgressOK'
  BY <1>2 DEF Callback, StartPumps, OnConnect, Released, CallbackReturns,
              CloseDone, AfterClose
<1>3. ASSUME NEW c \in Conns, ReadPump(c) PROVE ProgressOK'
  BY <1>3 DEF ReadPump, SetupRead, ReadClosed, ReadCloseFrame, ReadTooBig,
              ReadMessage, OnMessage, Echo, ReaderReturns, CloseDone, AfterClose
<1>4. ASSUME NEW c \in Conns, WritePump(c) PROVE ProgressOK'
  BY <1>4 DEF WritePump, PingTick, WriterStops, WriterReturns, CloseDone, AfterClose
<1>5. ASSUME ~crashed, NEW c \in Conns, Close(c) PROVE ProgressOK'
  <2>1. CASE EnterClose(c)
    BY <1>5, <2>1 DEF EnterClose
  <2>2. CASE MarkClosing(c)
    BY <2>2 DEF MarkClosing
  <2>3. CASE OnClose(c)
    BY <2>3 DEF OnClose
  <2>4. CASE Signal(c)
    BY <2>4 DEF Signal
  <2>5. CASE NetClose(c)
    BY <2>5 DEF NetClose
  <2>6. CASE MarkClosed(c)
    BY <2>6 DEF MarkClosed
  <2>7. CASE Remove(c)
    BY <2>7 DEF Remove, M!Deregister
  <2>8. CASE FinishClose(c)
    BY <2>8 DEF FinishClose
  <2> QED BY <1>5, <2>1, <2>2, <2>3, <2>4, <2>5, <2>6, <2>7, <2>8
         DEF Close
<1>6. CASE UNCHANGED vars
  BY <1>6 DEF vars
<1> QED BY <1>1, <1>2, <1>3, <1>4, <1>5, <1>6 DEF Next

LEMMA StepServedOK == IInv /\ [Next]_vars => ServedOK'
<1> SUFFICES ASSUME IInv, [Next]_vars PROVE ServedOK'
    OBVIOUS
<1> USE DEF IInv, TypeOK, ServedOK, Served, GotoCallback, GotoReader, GotoOnce,
            TakeFrame, socket, manager, pumps
<1>1. ASSUME ~crashed, NEW c \in Conns, Environment(c) PROVE ServedOK'
  <2>1. CASE Accept(c)
    BY <1>1, <2>1 DEF Accept, M!Register
  <2>2. CASE Refuse(c)
    BY <2>2 DEF Refuse
  <2>3. CASE Arrive(c)
    BY <2>3 DEF Arrive
  <2>4. CASE ReadFails(c)
    BY <2>4 DEF ReadFails
  <2> QED BY <1>1, <2>1, <2>2, <2>3, <2>4 DEF Environment
<1>2. ASSUME ~crashed, NEW c \in Conns, Callback(c) PROVE ServedOK'
  BY <1>2 DEF Callback, StartPumps, OnConnect, Released, CallbackReturns,
              CloseCalls, AfterClose
<1>3. ASSUME NEW c \in Conns, ReadPump(c) PROVE ServedOK'
  BY <1>3 DEF ReadPump, SetupRead, ReadClosed, ReadCloseFrame, ReadTooBig,
              ReadMessage, OnMessage, Echo, ReaderReturns, CloseCalls
<1>4. ASSUME NEW c \in Conns, WritePump(c) PROVE ServedOK'
  BY <1>4 DEF WritePump, PingTick, WriterStops, WriterReturns, CloseCalls
<1>5. ASSUME ~crashed, NEW c \in Conns, Close(c) PROVE ServedOK'
  <2>1. CASE EnterClose(c)
    BY <1>5, <2>1 DEF EnterClose, CallsClose, CloseCalls
  <2>2. CASE MarkClosing(c)
    BY <2>2 DEF MarkClosing
  <2>3. CASE OnClose(c)
    BY <2>3 DEF OnClose
  <2>4. CASE Signal(c)
    BY <2>4 DEF Signal
  <2>5. CASE NetClose(c)
    BY <2>5 DEF NetClose
  <2>6. CASE MarkClosed(c)
    BY <2>6 DEF MarkClosed
  <2>7. CASE Remove(c)
    BY <2>7 DEF Remove, M!Deregister
  <2>8. CASE FinishClose(c)
    BY <2>8 DEF FinishClose
  <2> QED BY <1>5, <2>1, <2>2, <2>3, <2>4, <2>5, <2>6, <2>7, <2>8
         DEF Close
<1>6. CASE UNCHANGED vars
  BY <1>6 DEF vars
<1> QED BY <1>1, <1>2, <1>3, <1>4, <1>5, <1>6 DEF Next

\* The three parts of the invariant are inductive together.
THEOREM Inductive == Spec => []IInv
<1>1. IInv /\ [Next]_vars => IInv'
  BY StepTypeOK, StepProgressOK, StepServedOK DEF IInv
<1> QED BY InitIInv, <1>1, PTL DEF Spec

\* OnClose is called at most once per connection.
THEOREM ClosedOnce == Spec => []OnCloseOnce
<1>1. IInv => OnCloseOnce
  BY DEF IInv, TypeOK, ProgressOK, ServedOK, Served, OnCloseOnce
<1> QED BY <1>1, Inductive, PTL

\* Whoever returns from serving a connection finds it completely closed.
THEOREM ReturnedIsClosed == Spec => []CloseReturnsComplete
<1>1. IInv => CloseReturnsComplete
  BY DEF IInv, TypeOK, ProgressOK, Served, CloseReturnsComplete, CloseComplete
<1> QED BY <1>1, Inductive, PTL

\* A connection in the active state can be used.
THEOREM ActiveUsable == Spec => []ActiveIsServed
<1>1. IInv => ActiveIsServed
  BY DEF IInv, TypeOK, ProgressOK, Served, ActiveIsServed
<1> QED BY <1>1, Inductive, PTL
=============================================================================
