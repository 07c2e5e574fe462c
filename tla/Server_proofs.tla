---------------------------- MODULE Server_proofs ----------------------------
(***************************************************************************)
(* Safety of Stop for every set of requests.  The wait group counts the    *)
(* tasks that run, so that when Stop sees it at zero no task can send any  *)
(* more and every error has reached the channel.                           *)
(***************************************************************************)
EXTENDS Server, TLAPS

LEMMA InitIInv == Init => IInv
<1> SUFFICES ASSUME Init PROVE IInv
    OBVIOUS
<1> USE DEF Init
<1>1. TypeOK
  <2>1. /\ task \in [Tasks -> {"none", "start", "wait", "sync", "ended"} \union Sending]
        /\ request \in [Requests -> {"none", "open", "done"}]
    OBVIOUS
  <2>2. /\ errCh \subseteq Errors /\ failed \subseteq Errors /\ listed \subseteq Errors
        /\ lock \in {"nobody", "this", "other"} /\ closer \in {"nobody", "this", "other"}
        /\ result \in {"none", "panic", "timeout", "errors", "nil"}
    OBVIOUS
  <2>3. expired \in BOOLEAN
    BY Zenon
  <2> QED BY <2>1, <2>2, <2>3 DEF TypeOK
<1>2. Labels /\ WaitGroupExact
  BY DEF Labels, WaitGroupExact, Running, Tasks, Called
<1>3. NoErrorLost
  BY DEF NoErrorLost, Pending, ErrorsReported, Called, Closed, Tasks
<1>4. Drained
  BY DEF Drained, Tasks
<1> QED BY <1>1, <1>2, <1>3, <1>4 DEF IInv

\* The labels of the tasks, and the wait group that counts them.
LEMMA StepTasks == TypeOK /\ Labels /\ WaitGroupExact /\ [Next]_vars => (Labels /\ WaitGroupExact)'
<1> SUFFICES ASSUME TypeOK, Labels, WaitGroupExact, [Next]_vars PROVE (Labels /\ WaitGroupExact)'
    OBVIOUS
<1> USE DEF TypeOK, Labels, WaitGroupExact, Running, Tasks, Called, http, Goto, End, Fail
<1>1. CASE Start
  BY <1>1 DEF Start
<1>2. CASE Listen
  BY <1>2 DEF Listen
<1>3. ASSUME NEW r \in Requests, Accept(r) PROVE (Labels /\ WaitGroupExact)'
  BY <1>3 DEF Accept
<1>4. ASSUME NEW r \in Requests, Respond(r) PROVE (Labels /\ WaitGroupExact)'
  BY <1>4 DEF Respond
<1>5. CASE OtherShutdownBegin
  BY <1>5 DEF OtherShutdownBegin, CloseListener
<1>6. CASE OtherShutdownEnd
  BY <1>6 DEF OtherShutdownEnd
<1>7. CASE StopBeforeStart
  BY <1>7 DEF StopBeforeStart
<1>8. CASE Stop
  BY <1>8 DEF Stop, Launch
<1>9. CASE Expire
  BY <1>9 DEF Expire
<1>10. CASE SelectTimeout
  BY <1>10 DEF SelectTimeout, Selecting
<1>11. CASE SelectDone
  BY <1>11 DEF SelectDone, Selecting, DoneClosed
<1>12. CASE ShutdownBegin
  BY <1>12 DEF ShutdownBegin, CloseListener
<1>13. CASE ShutdownOk
  BY <1>13 DEF ShutdownOk, ShutdownReturns
<1>14. CASE ShutdownDeadline
  BY <1>14 DEF ShutdownDeadline, ShutdownReturns
<1>15. CASE SendHTTPError
  BY <1>15 DEF SendHTTPError, Send
<1>16. CASE CloseListenerError
  BY <1>16 DEF CloseListenerError, ShutdownReturns
<1>17. CASE DrainWebSockets
  BY <1>17 DEF DrainWebSockets
<1>18. CASE CloseMetrics
  BY <1>18 DEF CloseMetrics
<1>19. CASE SyncLogger
  BY <1>19 DEF SyncLogger
<1>20. CASE SendMetricsError
  BY <1>20 DEF SendMetricsError, Send
<1>21. CASE SendSyncError
  BY <1>21 DEF SendSyncError, Send
<1>22. CASE UNCHANGED vars
  BY <1>22 DEF vars
<1> QED BY <1>1, <1>2, <1>3, <1>4, <1>5, <1>6, <1>7, <1>8, <1>9, <1>10, <1>11,
           <1>12, <1>13, <1>14, <1>15, <1>16, <1>17, <1>18, <1>19, <1>20, <1>21, <1>22
        DEF Next, Select, ShutdownHTTP, CleanupResources

\* The wait group cannot become negative: it counts the tasks that run.
LEMMA StepTypeOK == TypeOK /\ Labels /\ WaitGroupExact /\ [Next]_vars => TypeOK'
<1> SUFFICES ASSUME TypeOK, Labels, WaitGroupExact, [Next]_vars PROVE TypeOK'
    OBVIOUS
<1> USE DEF TypeOK, Labels, WaitGroupExact, Running, Tasks, Errors, Sending, http, Goto, End, Fail
<1>1. CASE Start
  BY <1>1 DEF Start
<1>2. CASE Listen
  BY <1>2 DEF Listen
<1>3. ASSUME NEW r \in Requests, Accept(r) PROVE TypeOK'
  BY <1>3 DEF Accept
<1>4. ASSUME NEW r \in Requests, Respond(r) PROVE TypeOK'
  BY <1>4 DEF Respond
<1>5. CASE OtherShutdownBegin
  BY <1>5 DEF OtherShutdownBegin, CloseListener
<1>6. CASE OtherShutdownEnd
  BY <1>6 DEF OtherShutdownEnd
<1>7. CASE StopBeforeStart
  BY <1>7 DEF StopBeforeStart
<1>8. CASE Stop
  BY <1>8 DEF Stop, Launch
<1>9. CASE Expire
  BY <1>9 DEF Expire
<1>10. CASE SelectTimeout
  BY <1>10 DEF SelectTimeout, Selecting
<1>11. CASE SelectDone
  BY <1>11 DEF SelectDone, Selecting, DoneClosed
<1>12. CASE ShutdownBegin
  BY <1>12 DEF ShutdownBegin, CloseListener
<1>13. CASE ShutdownOk
  BY <1>13 DEF ShutdownOk, ShutdownReturns
<1>14. CASE ShutdownDeadline
  BY <1>14 DEF ShutdownDeadline, ShutdownReturns
<1>15. CASE SendHTTPError
  BY <1>15 DEF SendHTTPError, Send
<1>16. CASE CloseListenerError
  BY <1>16 DEF CloseListenerError, ShutdownReturns
<1>17. CASE DrainWebSockets
  BY <1>17 DEF DrainWebSockets
<1>18. CASE CloseMetrics
  <2>1. CASE Goto("cleanup", "sync") /\ UNCHANGED <<wg, failed>>
    BY <1>18, <2>1 DEF CloseMetrics
  <2>2. CASE Fail("cleanup", "metrics", "sendMetrics")
    BY <1>18, <2>2 DEF CloseMetrics
  <2> QED BY <1>18, <2>1, <2>2 DEF CloseMetrics
<1>19. CASE SyncLogger
  <2>1. CASE End("cleanup") /\ UNCHANGED failed
    BY <1>19, <2>1 DEF SyncLogger
  <2>2. CASE Fail("cleanup", "sync", "sendSync")
    BY <1>19, <2>2 DEF SyncLogger
  <2> QED BY <1>19, <2>1, <2>2 DEF SyncLogger
<1>20. CASE SendMetricsError
  BY <1>20 DEF SendMetricsError, Send
<1>21. CASE SendSyncError
  BY <1>21 DEF SendSyncError, Send
<1>22. CASE UNCHANGED vars
  BY <1>22 DEF vars
<1> QED BY <1>1, <1>2, <1>3, <1>4, <1>5, <1>6, <1>7, <1>8, <1>9, <1>10, <1>11,
           <1>12, <1>13, <1>14, <1>15, <1>16, <1>17, <1>18, <1>19, <1>20, <1>21, <1>22
        DEF Next, Select, ShutdownHTTP, CleanupResources

\* An error moves from its task into the channel and from there into the result.
LEMMA StepErrors == TypeOK /\ Labels /\ WaitGroupExact /\ NoErrorLost /\ [Next]_vars => NoErrorLost'
<1> SUFFICES ASSUME TypeOK, Labels, WaitGroupExact, NoErrorLost, [Next]_vars PROVE NoErrorLost'
    OBVIOUS
<1> USE DEF TypeOK, Labels, WaitGroupExact, Running, NoErrorLost, Pending, ErrorsReported,
            Called, Closed, Tasks, Errors, http, Goto, End, Fail
<1>1. CASE Start
  BY <1>1 DEF Start
<1>2. CASE Listen
  BY <1>2 DEF Listen
<1>3. ASSUME NEW r \in Requests, Accept(r) PROVE NoErrorLost'
  BY <1>3 DEF Accept
<1>4. ASSUME NEW r \in Requests, Respond(r) PROVE NoErrorLost'
  BY <1>4 DEF Respond
<1>5. CASE OtherShutdownBegin
  BY <1>5 DEF OtherShutdownBegin, CloseListener
<1>6. CASE OtherShutdownEnd
  BY <1>6 DEF OtherShutdownEnd
<1>7. CASE StopBeforeStart
  BY <1>7 DEF StopBeforeStart
<1>8. CASE Stop
  BY <1>8 DEF Stop, Launch
<1>9. CASE Expire
  BY <1>9 DEF Expire
<1>10. CASE SelectTimeout
  BY <1>10 DEF SelectTimeout, Selecting
<1>11. CASE SelectDone
  BY <1>11 DEF SelectDone, Selecting, DoneClosed
<1>12. CASE ShutdownBegin
  BY <1>12 DEF ShutdownBegin, CloseListener
<1>13. CASE ShutdownOk
  BY <1>13 DEF ShutdownOk, ShutdownReturns
<1>14. CASE ShutdownDeadline
  BY <1>14 DEF ShutdownDeadline, ShutdownReturns
<1>15. CASE SendHTTPError
  BY <1>15 DEF SendHTTPError, Send
<1>16. CASE CloseListenerError
  BY <1>16 DEF CloseListenerError, ShutdownReturns
<1>17. CASE DrainWebSockets
  BY <1>17 DEF DrainWebSockets
<1>18. CASE CloseMetrics
  BY <1>18 DEF CloseMetrics
<1>19. CASE SyncLogger
  BY <1>19 DEF SyncLogger
<1>20. CASE SendMetricsError
  BY <1>20 DEF SendMetricsError, Send
<1>21. CASE SendSyncError
  BY <1>21 DEF SendSyncError, Send
<1>22. CASE UNCHANGED vars
  BY <1>22 DEF vars
<1> QED BY <1>1, <1>2, <1>3, <1>4, <1>5, <1>6, <1>7, <1>8, <1>9, <1>10, <1>11,
           <1>12, <1>13, <1>14, <1>15, <1>16, <1>17, <1>18, <1>19, <1>20, <1>21, <1>22
        DEF Next, Select, ShutdownHTTP, CleanupResources

\* Once the listener is closed no request comes in.
LEMMA StepDrained == TypeOK /\ Labels /\ NoErrorLost /\ Drained /\ [Next]_vars => Drained'
<1> SUFFICES ASSUME TypeOK, Labels, NoErrorLost, Drained, [Next]_vars PROVE Drained'
    OBVIOUS
<1> USE DEF TypeOK, Labels, Drained, Tasks, http, Goto, End, Fail
<1>1. CASE Start
  BY <1>1 DEF Start
<1>2. CASE Listen
  BY <1>2 DEF Listen
<1>3. ASSUME NEW r \in Requests, Accept(r) PROVE Drained'
  BY <1>3 DEF Accept
<1>4. ASSUME NEW r \in Requests, Respond(r) PROVE Drained'
  BY <1>4 DEF Respond
<1>5. CASE OtherShutdownBegin
  BY <1>5 DEF OtherShutdownBegin, CloseListener
<1>6. CASE OtherShutdownEnd
  BY <1>6 DEF OtherShutdownEnd
<1>7. CASE StopBeforeStart
  BY <1>7 DEF StopBeforeStart
<1>8. CASE Stop
  BY <1>8 DEF Stop, Launch
<1>9. CASE Expire
  BY <1>9 DEF Expire
<1>10. CASE SelectTimeout
  BY <1>10 DEF SelectTimeout, Selecting
<1>11. CASE SelectDone
  BY <1>11 DEF SelectDone, Selecting, DoneClosed
<1>12. CASE ShutdownBegin
  BY <1>12 DEF ShutdownBegin, CloseListener
<1>13. CASE ShutdownOk
  BY <1>13 DEF ShutdownOk, ShutdownReturns
<1>14. CASE ShutdownDeadline
  BY <1>14 DEF ShutdownDeadline, ShutdownReturns
<1>15. CASE SendHTTPError
  <2>1. "http" \in failed
    BY <1>15 DEF SendHTTPError, NoErrorLost, ErrorsReported, Pending, Closed, Errors
  <2> QED BY <1>15, <2>1 DEF SendHTTPError, Send
<1>16. CASE CloseListenerError
  BY <1>16 DEF CloseListenerError, ShutdownReturns
<1>17. CASE DrainWebSockets
  BY <1>17 DEF DrainWebSockets
<1>18. CASE CloseMetrics
  BY <1>18 DEF CloseMetrics
<1>19. CASE SyncLogger
  BY <1>19 DEF SyncLogger
<1>20. CASE SendMetricsError
  BY <1>20 DEF SendMetricsError, Send
<1>21. CASE SendSyncError
  BY <1>21 DEF SendSyncError, Send
<1>22. CASE UNCHANGED vars
  BY <1>22 DEF vars
<1> QED BY <1>1, <1>2, <1>3, <1>4, <1>5, <1>6, <1>7, <1>8, <1>9, <1>10, <1>11,
           <1>12, <1>13, <1>14, <1>15, <1>16, <1>17, <1>18, <1>19, <1>20, <1>21, <1>22
        DEF Next, Select, ShutdownHTTP, CleanupResources

\* The wait group is exact and no error is lost, whatever Stop, its tasks, the
\* requests and other calls of Stop do.
THEOREM Inductive == Spec => []IInv
<1>1. IInv /\ [Next]_vars => IInv'
  BY StepTasks, StepTypeOK, StepErrors, StepDrained DEF IInv
<1> QED BY InitIInv, <1>1, PTL DEF Spec

\* No task sends on the channel that Stop has closed.
THEOREM ClosedChannelUnused == Spec => []NoSendOnClosed
<1>1. IInv => NoSendOnClosed
  BY DEF IInv, NoErrorLost, ErrorsReported, NoSendOnClosed, Sending
<1> QED BY Inductive, <1>1, PTL

\* A Stop that does not time out lists exactly the errors its tasks met.
THEOREM AllErrorsListed == Spec => []ErrorsReported
<1>1. IInv => ErrorsReported
  BY DEF IInv, NoErrorLost
<1> QED BY Inductive, <1>1, PTL

\* The Stop that closed the listener returns nil only when requests are drained.
THEOREM NilMeansDrained == Spec => []DrainedWhenNil
<1>1. IInv => DrainedWhenNil
  BY DEF IInv, NoErrorLost, ErrorsReported, Drained, DrainedWhenNil, Closed, Tasks
<1> QED BY Inductive, <1>1, PTL
=============================================================================
