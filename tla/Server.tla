------------------------------- MODULE Server -------------------------------
(***************************************************************************)
(* Server lifecycle: Start, requests in flight, and a call of Stop.  Stop  *)
(* starts three tasks (shutdownHTTP, drainWebSockets, cleanupResources)    *)
(* that report through a channel of its own, waits for them through a wait *)
(* group or gives up at its deadline, and leaves the tasks behind when it  *)
(* gives up.  Other calls of Stop at the same time share only the HTTP     *)
(* server with this one, and appear as calls of its Shutdown.              *)
(*                                                                         *)
(* The HTTP server is fasthttp's (external): ShutdownWithContext holds the *)
(* server's lock, closes the listener and returns when no request is in    *)
(* flight or when its context is done.  drainWebSockets ranges over        *)
(* activeConns, which nothing stores into.                                 *)
(***************************************************************************)
EXTENDS Naturals, FiniteSets

CONSTANT Requests

Tasks == {"http", "ws", "cleanup"}
Errors == {"http", "metrics", "sync"}
Sending == {"sendHTTP", "sendMetrics", "sendSync"}

VARIABLES server,  \* s.server and its listener
          lock,    \* who is in ShutdownWithContext
          closer,  \* history: whose ShutdownWithContext closed the listener
          request, \* state of each request
          task,    \* where each task of Stop is
          wg,      \* the wait group
          errCh,   \* errors in the channel
          failed,  \* history: errors the tasks met
          expired, \* the context is done
          result,  \* what Stop returned
          listed   \* the errors it lists

http == <<server, lock, closer>>
vars == <<http, request, task, wg, errCh, failed, expired, result, listed>>

TypeOK ==
  /\ server \in {"unset", "set", "listening", "closed"}
  /\ lock \in {"nobody", "this", "other"} /\ closer \in {"nobody", "this", "other"}
  /\ request \in [Requests -> {"none", "open", "done"}]
  /\ task \in [Tasks -> {"none", "start", "wait", "sync", "ended"} \union Sending]
  /\ wg \in 0 .. 3
  /\ errCh \subseteq Errors /\ failed \subseteq Errors /\ listed \subseteq Errors
  /\ expired \in BOOLEAN
  /\ result \in {"none", "panic", "timeout", "errors", "nil"}

Init ==
  /\ server = "unset" /\ lock = "nobody" /\ closer = "nobody"
  /\ request = [r \in Requests |-> "none"]
  /\ task = [t \in Tasks |-> "none"]
  /\ wg = 0 /\ errCh = {} /\ failed = {} /\ expired = FALSE
  /\ result = "none" /\ listed = {}

-----------------------------------------------------------------------------
(* Start: s.server is set, later ListenAndServe opens the listener.        *)
Start ==
  /\ server = "unset" /\ server' = "set"
  /\ UNCHANGED <<lock, closer, request, task, wg, errCh, failed, expired, result, listed>>

Listen ==
  /\ server = "set" /\ server' = "listening"
  /\ UNCHANGED <<lock, closer, request, task, wg, errCh, failed, expired, result, listed>>

Accept(r) ==
  /\ server = "listening" /\ request[r] = "none"
  /\ request' = [request EXCEPT ![r] = "open"]
  /\ UNCHANGED <<http, task, wg, errCh, failed, expired, result, listed>>

Respond(r) ==
  /\ request[r] = "open"
  /\ request' = [request EXCEPT ![r] = "done"]
  /\ UNCHANGED <<http, task, wg, errCh, failed, expired, result, listed>>

-----------------------------------------------------------------------------
(* ShutdownWithContext.                                                    *)
CloseListener(who) ==
  /\ lock = "nobody" /\ lock' = who
  /\ IF server = "listening"
     THEN server' = "closed" /\ closer' = who
     ELSE UNCHANGED <<server, closer>>

OtherShutdownBegin ==
  /\ server # "unset"
  /\ CloseListener("other")
  /\ UNCHANGED <<request, task, wg, errCh, failed, expired, result, listed>>

\* At the latest at the other call's deadline.
OtherShutdownEnd ==
  /\ lock = "other" /\ lock' = "nobody"
  /\ UNCHANGED <<server, closer, request, task, wg, errCh, failed, expired, result, listed>>

-----------------------------------------------------------------------------
(* Stop, up to the select.                                                 *)
Called == task["ws"] # "none"

\* s.server is nil.
StopBeforeStart ==
  /\ ~Called /\ result = "none" /\ server = "unset"
  /\ result' = "panic"
  /\ UNCHANGED <<http, request, task, wg, errCh, failed, expired, listed>>

Launch(count) ==
  /\ ~Called /\ result = "none" /\ server # "unset"
  /\ task' = [t \in Tasks |-> "start"]
  /\ wg' = count
  /\ UNCHANGED <<http, request, errCh, failed, expired, result, listed>>

\* Mutant: the wait group counts the two tasks that can fail.
StopAddTwo == Launch(2)

Stop == Launch(3)

\* The deadline of the context made by Stop.
Expire ==
  /\ Called /\ ~expired
  /\ expired' = TRUE
  /\ UNCHANGED <<http, request, task, wg, errCh, failed, result, listed>>

-----------------------------------------------------------------------------
(* The tasks.                                                              *)
Goto(t, label) == task' = [task EXCEPT ![t] = label]

\* A task returns: defer wg.Done().
End(t) == Goto(t, "ended") /\ wg' = wg - 1

\* A task meets an error, which it sends next.
Fail(t, error, label) ==
  /\ Goto(t, label) /\ UNCHANGED wg
  /\ failed' = failed \union {error}

ShutdownBegin ==
  /\ task["http"] = "start"
  /\ CloseListener("this")
  /\ Goto("http", "wait")
  /\ UNCHANGED <<request, wg, errCh, failed, expired, result, listed>>

ShutdownReturns ==
  /\ task["http"] = "wait"
  /\ lock' = "nobody"
  /\ UNCHANGED <<server, closer, request, errCh, expired, result, listed>>

\* Mutant: Stop uses Server.Close, which does not wait.
ShutdownOkAtOnce == ShutdownReturns /\ End("http") /\ UNCHANGED failed

\* It returns nil when no request is in flight, or when another call had closed
\* the listener or there was none yet.
ShutdownOk ==
  /\ closer = "this" => \A r \in Requests : request[r] # "open"
  /\ ShutdownReturns
  /\ End("http") /\ UNCHANGED failed

\* It fails at the deadline, or because the listener cannot be closed.
ShutdownDeadline == expired /\ ShutdownReturns /\ Fail("http", "http", "sendHTTP")
CloseListenerError == ~expired /\ ShutdownReturns /\ Fail("http", "http", "sendHTTP")

DrainWebSockets ==
  /\ task["ws"] = "start"
  /\ End("ws")
  /\ UNCHANGED <<http, request, errCh, failed, expired, result, listed>>

CloseMetrics ==
  /\ task["cleanup"] = "start"
  /\ \/ Goto("cleanup", "sync") /\ UNCHANGED <<wg, failed>>
     \/ Fail("cleanup", "metrics", "sendMetrics")
  /\ UNCHANGED <<http, request, errCh, expired, result, listed>>

SyncLogger ==
  /\ task["cleanup"] = "sync"
  /\ \/ End("cleanup") /\ UNCHANGED failed
     \/ Fail("cleanup", "sync", "sendSync")
  /\ UNCHANGED <<http, request, errCh, expired, result, listed>>

\* Mutant: room for one error.
ErrChCapacityOne == 1

ErrChCapacity == 3

\* errCh <- error: blocks while the channel is full; on a closed one it panics,
\* which NoSendOnClosed rules out.
Send(error) ==
  /\ Cardinality(errCh) < ErrChCapacity
  /\ errCh' = errCh \union {error}
  /\ UNCHANGED <<http, request, failed, expired, result, listed>>

SendHTTPError == task["http"] = "sendHTTP" /\ Send("http") /\ End("http")

SendMetricsError ==
  /\ task["cleanup"] = "sendMetrics"
  /\ Send("metrics") /\ Goto("cleanup", "sync") /\ UNCHANGED wg

SendSyncError == task["cleanup"] = "sendSync" /\ Send("sync") /\ End("cleanup")

-----------------------------------------------------------------------------
(* The select.  When both channels are ready either is taken.  The return  *)
(* cancels the context.                                                    *)
Selecting == Called /\ result = "none"

\* The goroutine that waits for the tasks closes done; how long that takes shows
\* in when SelectDone is taken.
DoneClosed == Called /\ wg = 0

\* Mutant: Stop waits for the tasks whatever the deadline.
SelectTimeoutWaiting ==
  /\ Selecting /\ expired /\ DoneClosed
  /\ result' = "timeout"
  /\ UNCHANGED <<http, request, task, wg, errCh, failed, expired, listed>>

SelectTimeout ==
  /\ Selecting /\ expired
  /\ result' = "timeout"
  /\ UNCHANGED <<http, request, task, wg, errCh, failed, expired, listed>>

\* close(errCh), then the errors in it are read.
SelectDone ==
  /\ Selecting /\ DoneClosed
  /\ result' = IF errCh = {} THEN "nil" ELSE "errors"
  /\ listed' = errCh /\ errCh' = {}
  /\ expired' = TRUE
  /\ UNCHANGED <<http, request, task, wg, failed>>

-----------------------------------------------------------------------------
\* What each goroutine does by itself; the collector's Close and the logger's Sync
\* are the application's and may block.
ShutdownHTTP == ShutdownBegin \/ ShutdownOk \/ ShutdownDeadline \/ SendHTTPError

CleanupResources == SendMetricsError \/ SendSyncError

Select == SelectTimeout \/ SelectDone

Next ==
  \/ Start \/ Listen
  \/ \E r \in Requests : Accept(r) \/ Respond(r)
  \/ OtherShutdownBegin \/ OtherShutdownEnd
  \/ StopBeforeStart \/ Stop \/ Expire \/ Select
  \/ ShutdownHTTP \/ CloseListenerError \/ DrainWebSockets
  \/ CloseMetrics \/ SyncLogger \/ CleanupResources

Spec == Init /\ [][Next]_vars

\* Goroutines are scheduled, timers fire and the HTTP server's lock is fair;
\* handlers, the collector and the logger may block for ever.
Fairness ==
  /\ WF_vars(Expire) /\ WF_vars(Select) /\ WF_vars(DrainWebSockets)
  /\ SF_vars(ShutdownHTTP) /\ WF_vars(CleanupResources) /\ WF_vars(OtherShutdownEnd)
FairSpec == Spec /\ Fairness

-----------------------------------------------------------------------------
Closed == result \in {"errors", "nil"}  \* errCh is closed

\* No task sends on the channel after Stop closed it, which would panic.
NoSendOnClosed == Closed => \A t \in Tasks : task[t] \notin Sending

\* A Stop that does not time out waited for all its tasks and lists exactly the
\* errors they met; it returns nil only if there was none.
ErrorsReported ==
  Closed =>
    /\ \A t \in Tasks : task[t] = "ended"
    /\ listed = failed
    /\ result = "nil" <=> failed = {}

\* The Stop that closed the listener returns nil only when no request is in
\* flight, and none comes in afterwards.
DrainedWhenNil ==
  closer = "this" /\ result = "nil" =>
    server = "closed" /\ \A r \in Requests : request[r] # "open"

-----------------------------------------------------------------------------
(* The inductive invariant.                                                *)
Labels ==
  /\ task["http"] \in {"none", "start", "wait", "sendHTTP", "ended"}
  /\ task["ws"] \in {"none", "start", "ended"}
  /\ task["cleanup"] \in {"none", "start", "sendMetrics", "sync", "sendSync", "ended"}
  /\ \A t \in Tasks : task[t] = "none" <=> ~Called

Running(t) == IF task[t] \in {"none", "ended"} THEN 0 ELSE 1

\* The wait group counts the tasks that have not returned.
WaitGroupExact == wg = Running("http") + Running("ws") + Running("cleanup")

Pending ==
  {e \in Errors : \/ e = "http" /\ task["http"] = "sendHTTP"
                  \/ e = "metrics" /\ task["cleanup"] = "sendMetrics"
                  \/ e = "sync" /\ task["cleanup"] = "sendSync"}

\* An error is on its way, in the channel or listed.
NoErrorLost ==
  /\ ~Closed => failed = errCh \union Pending
  /\ result # "none" => Called \/ result = "panic"
  /\ ErrorsReported

\* A request is in flight on a closed server only until Shutdown has returned nil.
Drained ==
  /\ closer # "nobody" <=> server = "closed"
  /\ closer = "this" /\ task["http"] = "ended" /\ "http" \notin failed =>
       \A r \in Requests : request[r] # "open"
  /\ closer = "this" => task["http"] \notin {"none", "start"}

\* The wait group is exact, no error is lost on its way to the caller, and requests
\* are in flight on a closed server only while Shutdown waits or has failed.
IInv == TypeOK /\ Labels /\ WaitGroupExact /\ NoErrorLost /\ Drained

-----------------------------------------------------------------------------
\* Stop returns, although handlers, the collector or the logger block and other
\* calls of Stop hold the HTTP server's lock.
StopReturns == Called ~> result # "none"

\* Also when Stop has timed out, no task is left behind: none blocks on the channel
\* nobody reads any more (only the collector or the logger can hold one up).
NoTaskLeaks ==
  Called ~> /\ task["http"] = "ended" /\ task["ws"] = "ended"
            /\ task["cleanup"] \in {"start", "sync", "ended"}
=============================================================================
