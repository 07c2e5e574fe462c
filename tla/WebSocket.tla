------------------------------ MODULE WebSocket ------------------------------
(***************************************************************************)
(* The life of the WebSocket connections of one server: the upgrade        *)
(* callback of RouterImpl.WS (r.go), NewWSConn and Close (ws.go), and the  *)
(* two pumps.  Three goroutines serve a connection, the callback, readPump *)
(* and writePump; all three call Close, and so may the application's       *)
(* handler.  closeOnce lets one of them run the body of Close; all callers *)
(* return when the body is done, so the body's progress is once[c],        *)
(* whoever runs it.                                                        *)
(*                                                                         *)
(* The manager is used through ConnectionSet, which ConnectionManager      *)
(* implements.  The peer and the network are the environment: a frame may  *)
(* arrive, one at a time, while the socket is open, a frame that has       *)
(* arrived may still be read after a local close, and the read deadline    *)
(* may expire at any time.  Left out: payloads, the close                  *)
(* code, metrics, logging, and the send channel, which nothing writes to   *)
(* or closes.  Handlers are assumed to return; OnMessage may panic, which  *)
(* readPump recovers; OnConnect and OnClose do not panic and OnClose does  *)
(* not call Close, which would wait for itself in closeOnce.               *)
(***************************************************************************)
EXTENDS Integers, FiniteSets

CONSTANTS Conns,      \* connections that peers open
          MaxConns,   \* limit of the connection manager
          BufferSize, \* capacity of writeBuffer (1024 in NewWSConn)
          MaxServed   \* bound on the connections ever accepted, for TLC only

ASSUME ConnsAssumption == IsFiniteSet(Conns)
ASSUME LimitAssumption ==
  MaxConns \in Nat /\ BufferSize \in Nat /\ MaxServed \in Nat

VARIABLES state,       \* c.state
          once,        \* c.closeOnce: free, next step of Close's body, or done
          closed,      \* c.closeCh has been closed
          netOpen,     \* the underlying socket is open
          buffered,    \* frame that has arrived and is not yet read
          queued,      \* length of c.writeBuffer
          onCloses,    \* number of OnClose calls
          connections, \* registered with the manager
          gone,        \* once registered, since removed
          callback,    \* next step of the upgrade callback
          reader,      \* next step of readPump
          writer,      \* next step of writePump
          crashed      \* the process died of an unrecovered panic

socket == <<closed, netOpen, buffered, queued>>
manager == <<connections, gone>>
pumps == <<reader, writer>>
vars == <<state, once, socket, onCloses, manager, callback, pumps, crashed>>

M == INSTANCE ConnectionSet WITH members <- connections, removed <- gone

\* The places Close is called from, each with where its caller goes on.
CloseCalls == {"onConnectClose", "handlerClose", "errorClose", "deferredClose"}

AfterClose == [onConnectClose |-> "wait", handlerClose |-> "next",
               errorClose |-> "deferredClose", deferredClose |-> "done"]

TypeOK ==
  /\ state \in [Conns -> {"active", "closing", "closed"}]
  /\ once \in [Conns -> {"free", "markClosing", "onClose", "signal", "netClose",
                         "markClosed", "remove", "finish", "done"}]
  /\ closed \in [Conns -> BOOLEAN]
  /\ netOpen \in [Conns -> BOOLEAN]
  /\ buffered \in [Conns -> {"none", "message", "tooBig", "close"}]
  /\ queued \in [Conns -> Nat]
  /\ onCloses \in [Conns -> Nat]
  /\ connections \subseteq Conns
  /\ gone \subseteq Conns
  /\ callback \in [Conns -> {"off", "go", "onConnect", "onConnectClose", "wait",
                             "deferredClose", "done"}]
  /\ reader \in [Conns -> {"off", "setup", "next", "onMessage", "handlerClose",
                           "errorClose", "deferredClose", "done"}]
  /\ writer \in [Conns -> {"off", "select", "deferredClose", "done"}]
  /\ crashed \in BOOLEAN

Init ==
  /\ state = [c \in Conns |-> "active"]
  /\ once = [c \in Conns |-> "free"]
  /\ closed = [c \in Conns |-> FALSE]
  /\ netOpen = [c \in Conns |-> TRUE]
  /\ buffered = [c \in Conns |-> "none"]
  /\ queued = [c \in Conns |-> 0]
  /\ onCloses = [c \in Conns |-> 0]
  /\ connections = {}
  /\ gone = {}
  /\ callback = [c \in Conns |-> "off"]
  /\ reader = [c \in Conns |-> "off"]
  /\ writer = [c \in Conns |-> "off"]
  /\ crashed = FALSE

-----------------------------------------------------------------------------
(* The upgrade callback and NewWSConn.                                     *)
GotoCallback(c, label) == callback' = [callback EXCEPT ![c] = label]

\* NewWSConn registers the connection.
Accept(c) ==
  /\ callback[c] = "off"
  /\ Cardinality(connections \union gone) < MaxServed
  /\ M!Register(c)
  /\ GotoCallback(c, "go")
  /\ UNCHANGED <<state, once, socket, onCloses, pumps, crashed>>

\* Add fails: NewWSConn closes the socket and returns nil, and the callback
\* reads wsConn.closeCh of the nil connection, a panic nobody recovers.
Refuse(c) ==
  /\ callback[c] = "off"
  /\ M!Full
  /\ netOpen' = [netOpen EXCEPT ![c] = FALSE]
  /\ GotoCallback(c, "done")
  /\ crashed' = TRUE
  /\ UNCHANGED <<state, once, closed, buffered, queued, onCloses, manager, pumps>>

\* The pumps are started before OnConnect is called.
StartPumps(c) ==
  /\ callback[c] = "go"
  /\ GotoCallback(c, "onConnect")
  /\ reader' = [reader EXCEPT ![c] = "setup"]
  /\ writer' = [writer EXCEPT ![c] = "select"]
  /\ UNCHANGED <<state, once, socket, onCloses, manager, crashed>>

OnConnect(c) ==
  /\ callback[c] = "onConnect"
  /\ \E next \in {"wait", "onConnectClose"} : GotoCallback(c, next)
  /\ UNCHANGED <<state, once, socket, onCloses, manager, pumps, crashed>>

\* <-wsConn.closeCh, then the deferred Close.
Released(c) ==
  /\ callback[c] = "wait"
  /\ closed[c]
  /\ GotoCallback(c, "deferredClose")
  /\ UNCHANGED <<state, once, socket, onCloses, manager, pumps, crashed>>

-----------------------------------------------------------------------------
(* WriteMessage.  NewWSConn never sets writeDeadline, so the context that  *)
(* bounds the wait for the rate limiter has expired when it is made.       *)
WriteDeadline == 0

WriteResult(c) ==
  CASE state[c] # "active"     -> "connectionClosed"
    [] WriteDeadline = 0       -> "rateLimited"
    [] queued[c] = BufferSize  -> "bufferFull"
    [] OTHER                   -> "queued"

Write(c) ==
  queued' = IF WriteResult(c) = "queued"
            THEN [queued EXCEPT ![c] = @ + 1] ELSE queued

-----------------------------------------------------------------------------
(* readPump.                                                               *)
GotoReader(c, label) == reader' = [reader EXCEPT ![c] = label]

TakeFrame(c, frame) ==
  /\ reader[c] = "next"
  /\ buffered[c] = frame
  /\ buffered' = [buffered EXCEPT ![c] = "none"]
  /\ UNCHANGED <<once, closed, netOpen, queued, onCloses, manager, callback,
                 writer, crashed>>

SetupRead(c) ==
  /\ reader[c] = "setup"
  /\ GotoReader(c, "next")
  /\ UNCHANGED <<state, once, socket, onCloses, manager, callback, writer, crashed>>

\* NextReader returns an error: the socket was closed locally.
ReadClosed(c) ==
  /\ reader[c] = "next"
  /\ ~netOpen[c]
  /\ GotoReader(c, "deferredClose")
  /\ UNCHANGED <<state, once, socket, onCloses, manager, callback, writer, crashed>>

\* ... or the read deadline expired, or the peer is gone.
ReadFails(c) ==
  /\ reader[c] = "next"
  /\ netOpen[c]
  /\ GotoReader(c, "deferredClose")
  /\ UNCHANGED <<state, once, socket, onCloses, manager, callback, writer, crashed>>

\* The close handler marks the connection closed, and NextReader fails.
ReadCloseFrame(c) ==
  /\ TakeFrame(c, "close")
  /\ state' = [state EXCEPT ![c] = "closed"]
  /\ GotoReader(c, "deferredClose")

\* handleMessageError closes the connection and recoverAndClose closes it again.
ReadTooBig(c) ==
  /\ TakeFrame(c, "tooBig")
  /\ GotoReader(c, "errorClose")
  /\ UNCHANGED state

ReadMessage(c) ==
  /\ TakeFrame(c, "message")
  /\ GotoReader(c, "onMessage")
  /\ UNCHANGED state

\* OnMessage returns, closes the connection, or panics (recoverAndClose) ...
OnMessage(c) ==
  /\ reader[c] = "onMessage"
  /\ \E next \in {"next", "handlerClose", "deferredClose"} : GotoReader(c, next)
  /\ UNCHANGED <<state, once, socket, onCloses, manager, callback, writer, crashed>>

\* ... or writes the message back.
Echo(c) ==
  /\ reader[c] = "onMessage"
  /\ Write(c)
  /\ GotoReader(c, "next")
  /\ UNCHANGED <<state, once, closed, netOpen, buffered, onCloses, manager,
                 callback, writer, crashed>>

-----------------------------------------------------------------------------
(* writePump.                                                              *)
PingTick(c) ==
  /\ writer[c] = "select"
  /\ Write(c)
  /\ writer' = IF WriteResult(c) = "queued"
               THEN writer ELSE [writer EXCEPT ![c] = "deferredClose"]
  /\ UNCHANGED <<state, once, closed, netOpen, buffered, onCloses, manager,
                 callback, reader, crashed>>

WriterStops(c) ==
  /\ writer[c] = "select"
  /\ closed[c]
  /\ writer' = [writer EXCEPT ![c] = "deferredClose"]
  /\ UNCHANGED <<state, once, socket, onCloses, manager, callback, reader, crashed>>

-----------------------------------------------------------------------------
(* Close.  The first caller enters the body; everyone returns once it is   *)
(* done.                                                                   *)
GotoOnce(c, from, to) ==
  /\ once[c] = from
  /\ once' = [once EXCEPT ![c] = to]
  /\ UNCHANGED <<buffered, queued, callback, pumps, crashed>>

CallsClose(c) ==
  \/ callback[c] \in CloseCalls \/ reader[c] \in CloseCalls \/ writer[c] \in CloseCalls

\* Mutant: the once is missing, and a finished Close is run again.
EnterCloseAgain(c) ==
  /\ CallsClose(c)
  /\ GotoOnce(c, IF once[c] = "done" THEN "done" ELSE "free", "markClosing")
  /\ UNCHANGED <<state, closed, netOpen, onCloses, manager>>

EnterClose(c) ==
  /\ CallsClose(c)
  /\ GotoOnce(c, "free", "markClosing")
  /\ UNCHANGED <<state, closed, netOpen, onCloses, manager>>

\* Mutant: Close does not mark the connection as closing.
MarkClosingNot(c) ==
  /\ GotoOnce(c, "markClosing", "onClose")
  /\ UNCHANGED <<state, closed, netOpen, onCloses, manager>>

MarkClosing(c) ==
  /\ GotoOnce(c, "markClosing", "onClose")
  /\ state' = [state EXCEPT ![c] = "closing"]
  /\ UNCHANGED <<closed, netOpen, onCloses, manager>>

OnClose(c) ==
  /\ GotoOnce(c, "onClose", "signal")
  /\ onCloses' = [onCloses EXCEPT ![c] = @ + 1]
  /\ UNCHANGED <<state, closed, netOpen, manager>>

Signal(c) ==
  /\ GotoOnce(c, "signal", "netClose")
  /\ closed' = [closed EXCEPT ![c] = TRUE]
  /\ UNCHANGED <<state, netOpen, onCloses, manager>>

\* Mutant: the socket is left open.
NetCloseNot(c) ==
  /\ GotoOnce(c, "netClose", "markClosed")
  /\ UNCHANGED <<state, closed, netOpen, onCloses, manager>>

NetClose(c) ==
  /\ GotoOnce(c, "netClose", "markClosed")
  /\ netOpen' = [netOpen EXCEPT ![c] = FALSE]
  /\ UNCHANGED <<state, closed, onCloses, manager>>

MarkClosed(c) ==
  /\ GotoOnce(c, "markClosed", "remove")
  /\ state' = [state EXCEPT ![c] = "closed"]
  /\ UNCHANGED <<closed, netOpen, onCloses, manager>>

Remove(c) ==
  /\ GotoOnce(c, "remove", "finish")
  /\ M!Deregister(c)
  /\ UNCHANGED <<state, closed, netOpen, onCloses>>

FinishClose(c) ==
  /\ GotoOnce(c, "finish", "done")
  /\ UNCHANGED <<state, closed, netOpen, onCloses, manager>>

\* Mutant: a flag instead of sync.Once, so a second caller does not wait.
CloseDoneFlag(c) == once[c] # "free"

CloseDone(c) == once[c] = "done"

CallbackReturns(c) ==
  /\ callback[c] \in CloseCalls /\ CloseDone(c)
  /\ GotoCallback(c, AfterClose[callback[c]])
  /\ UNCHANGED <<state, once, socket, onCloses, manager, pumps, crashed>>

ReaderReturns(c) ==
  /\ reader[c] \in CloseCalls /\ CloseDone(c)
  /\ GotoReader(c, AfterClose[reader[c]])
  /\ UNCHANGED <<state, once, socket, onCloses, manager, callback, writer, crashed>>

WriterReturns(c) ==
  /\ writer[c] \in CloseCalls /\ CloseDone(c)
  /\ writer' = [writer EXCEPT ![c] = AfterClose[writer[c]]]
  /\ UNCHANGED <<state, once, socket, onCloses, manager, callback, reader, crashed>>

-----------------------------------------------------------------------------
\* The peer sends a frame.
Arrive(c) ==
  /\ callback[c] # "off"
  /\ netOpen[c] /\ buffered[c] = "none"
  /\ \E frame \in {"message", "tooBig", "close"} :
       buffered' = [buffered EXCEPT ![c] = frame]
  /\ UNCHANGED <<state, once, closed, netOpen, queued, onCloses, manager, callback,
                 pumps, crashed>>

Environment(c) == Accept(c) \/ Refuse(c) \/ Arrive(c) \/ ReadFails(c)

Callback(c) == StartPumps(c) \/ OnConnect(c) \/ Released(c) \/ CallbackReturns(c)

ReadPump(c) ==
  \/ SetupRead(c) \/ ReadClosed(c) \/ ReadCloseFrame(c) \/ ReadTooBig(c)
  \/ ReadMessage(c) \/ OnMessage(c) \/ Echo(c) \/ ReaderReturns(c)

WritePump(c) == PingTick(c) \/ WriterStops(c) \/ WriterReturns(c)

Close(c) ==
  \/ EnterClose(c) \/ MarkClosing(c) \/ OnClose(c) \/ Signal(c) \/ NetClose(c)
  \/ MarkClosed(c) \/ Remove(c) \/ FinishClose(c)

Next ==
  /\ ~crashed
  /\ \E c \in Conns :
       Environment(c) \/ Callback(c) \/ ReadPump(c) \/ WritePump(c) \/ Close(c)

Spec == Init /\ [][Next]_vars

\* Every goroutine is scheduled, handlers return and the ping ticker ticks;
\* peers owe nothing.
Fairness ==
  \A c \in Conns :
    /\ WF_vars(~crashed /\ Callback(c))
    /\ WF_vars(~crashed /\ ReadPump(c))
    /\ WF_vars(~crashed /\ WritePump(c))
    /\ WF_vars(~crashed /\ Close(c))

FairSpec == Spec /\ Fairness

-----------------------------------------------------------------------------
Served == connections \union gone

Returned(c) == callback[c] = "done" \/ reader[c] = "done" \/ writer[c] = "done"

CloseComplete(c) ==
  /\ closed[c] /\ ~netOpen[c] /\ state[c] = "closed"
  /\ onCloses[c] = 1 /\ c \in gone

\* The handler hears of the end of a connection once, however many of the
\* three goroutines and the handler itself call Close.
OnCloseOnce == \A c \in Conns : onCloses[c] <= 1

\* A goroutine that has returned leaves nothing half closed behind: OnClose was
\* called, the socket closed and the connection removed, even when another
\* goroutine did it (the callers of closeOnce.Do wait for it).
CloseReturnsComplete == \A c \in Served : Returned(c) => CloseComplete(c)

\* validateConnection trusts c.state: while it reads active the connection is
\* registered, its socket open and OnClose not yet called.
ActiveIsServed ==
  \A c \in Served : state[c] = "active" =>
    c \in connections /\ netOpen[c] /\ ~closed[c] /\ onCloses[c] = 0

Ended(c) ==
  /\ callback[c] = "done" /\ reader[c] = "done" /\ writer[c] = "done"
  /\ c \in gone

\* Once any of the goroutines or the handler has called Close, the callback and both
\* pumps return and the manager forgets the connection, unless the process dies
\* first: each of the three is woken by what another of them does.
ClosePropagates == \A c \in Conns : CallsClose(c) ~> Ended(c) \/ crashed

-----------------------------------------------------------------------------
(* What the documentation says and the code does not do.                   *)
\* r.go:156, "Block here until the connection is closed": the callback waits for
\* every connection, also one the manager refuses.
NeverCrashes == ~crashed

\* examples/example.md:62, "You should receive the echo back", and ws_write_pump.go:9,
\* "periodic pings": an echo from OnMessage on an active connection with room in its
\* buffer is queued.
EchoAccepted ==
  \A c \in connections :
    reader[c] = "onMessage" /\ state[c] = "active" /\ queued[c] < BufferSize =>
      WriteResult(c) = "queued"

-----------------------------------------------------------------------------
(* The inductive invariant.                                                *)
\* What each step of Close leaves behind, at the step its body has reached.
ProgressOK ==
  \A c \in Served :
    /\ onCloses[c] = IF once[c] \in {"free", "markClosing", "onClose"} THEN 0 ELSE 1
    /\ closed[c] <=> once[c] \notin {"free", "markClosing", "onClose", "signal"}
    /\ netOpen[c] <=>
         once[c] \in {"free", "markClosing", "onClose", "signal", "netClose"}
    /\ c \in connections <=> once[c] \notin {"finish", "done"}
    /\ state[c] = "active" => once[c] \in {"free", "markClosing"}
    /\ once[c] \in {"remove", "finish", "done"} => state[c] = "closed"
    /\ Returned(c) => once[c] = "done"

\* A connection that was never registered has no pumps and is not being closed.
ServedOK ==
  /\ connections \intersect gone = {}
  /\ \A c \in Conns \ Served :
       /\ once[c] = "free" /\ onCloses[c] = 0 /\ ~closed[c]
       /\ reader[c] = "off" /\ writer[c] = "off"
       /\ crashed \/ (callback[c] = "off" /\ netOpen[c])
  /\ \A c \in Served : callback[c] # "off"

IInv == TypeOK /\ ProgressOK /\ ServedOK
=============================================================================
