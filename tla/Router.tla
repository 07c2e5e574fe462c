------------------------------- MODULE Router -------------------------------
(***************************************************************************)
(* Registration (Use, Group, the routes, NotFound, MethodNotAllowed,       *)
(* PanicHandler) on a router and a group of it, and then requests through  *)
(* ServeHTTP at the same time.  A route keeps the router it was registered *)
(* on, and every handler of it builds its chain from the router's          *)
(* middleware when a request comes.                                        *)
(*                                                                         *)
(* Middleware is kept in Go slices: a slice is a length and an array, and  *)
(* append writes into the array when it has room.  An array is named after *)
(* the router or the request it was made for.                              *)
(*                                                                         *)
(* What a chain does inside is HandlerChain's; here it ends with an answer *)
(* of some status (also after Abort), with AbortWithError or with a panic. *)
(* Matching, and what happens to a handler's error, is fasthttp-routing's  *)
(* (external).                                                             *)
(***************************************************************************)
EXTENDS Naturals, FiniteSets, SequencesExt

CONSTANTS Requests,
          MaxRegistrations, \* bound on the calls that register
          MaxHandlers       \* bound on the handlers of a route

ASSUME RouterBounds == MaxRegistrations \in Nat /\ MaxHandlers \in Nat \ {0}

Routers == {"root", "group"}

\* Arrays are named after both.
ASSUME RequestsAssumption == Requests \intersect Routers = {}

Arrays == Routers \union Requests

VARIABLES heap,       \* arrays of function slices
          middleware, \* r.middleware, a slice
          made,       \* routers made so far
          calls,      \* calls that registered; all of them once requests come
          routes,     \* handlers of the router's route: 0 none, Raw not wrapped
          notFound,   \* handler the routing library calls for no match
          hooks,      \* which of root's notFoundHandler and panicHandler are set
          collector,  \* r.routeMetrics
          req,        \* the requests
          counters,   \* counters of the collector of root; duration: timings recorded
          expected    \* history: middleware of each router, in order

registered == <<middleware, made, routes, notFound, hooks, collector, expected>>
registration == <<registered, calls>>
routerVars == <<heap, registration, req, counters>>

Raw == MaxHandlers + 1
Targets == Routers \union {"method", "unknown"} \* what a request matches
Slice(array, len) == [array |-> array, len |-> len]
Elements(slice) == SubSeq(heap[slice.array], 1, slice.len)

\* A handler or middleware in a chain; the handler with index 0 is NotFound's.
Mw(r, k) == <<"mw", r, k>>
Handler(r, i) == <<r, i>>

\* ran: the handlers that were started; errAt: the one that ended with an error, 0 none.
Fresh == [pc |-> "none", target |-> "none", todo |-> <<>>, chain |-> Slice("root", 0),
          ran |-> <<>>, status |-> 200, body |-> "none", errAt |-> 0, panicked |-> FALSE]

RouterInit ==
  /\ heap = [a \in Arrays |-> <<>>]
  /\ middleware = [r \in Routers |-> Slice(r, 0)]
  /\ made = {"root"} /\ calls = 0
  /\ routes = [r \in Routers |-> 0]
  /\ notFound = "default" /\ hooks = {}
  /\ collector = [r \in Routers |-> "none"]
  /\ req = [q \in Requests |-> Fresh]
  /\ counters = [error |-> 0, panic |-> 0, duration |-> 0]
  /\ expected = [r \in Routers |-> <<>>]

-----------------------------------------------------------------------------
(* Registration, before the first request.                                 *)
Registering(r) ==
  /\ r \in made
  /\ calls < MaxRegistrations /\ calls' = calls + 1

\* Mutant: an array that grows is only doubled.
AppendedDoubling(slice, items, owner) ==
  LET len == slice.len + Len(items)
      cap == Len(heap[slice.array])
  IN  IF len <= cap
      THEN [heap EXCEPT ![slice.array] =
              [i \in DOMAIN @ |-> IF i > slice.len /\ i <= len THEN items[i - slice.len] ELSE @[i]]]
      ELSE [heap EXCEPT ![owner] = [i \in 1 .. 2 * cap |-> IF i <= slice.len THEN @[i] ELSE Mw(owner, 0)]]

\* append(slice, items...), growing into an array made for owner.
Appended(slice, items, owner) ==
  LET len == slice.len + Len(items)
      cap == Len(heap[slice.array])
      grown == IF len > 2 * cap THEN len ELSE 2 * cap
  IN  IF len <= cap
      THEN [heap EXCEPT ![slice.array] =
              [i \in DOMAIN @ |-> IF i > slice.len /\ i <= len THEN items[i - slice.len] ELSE @[i]]]
      ELSE [heap EXCEPT ![owner] =
              [i \in 1 .. grown |-> IF i <= len THEN (Elements(slice) \o items)[i] ELSE Mw(owner, 0)]]

AppendedTo(slice, items, owner) ==
  Slice(IF slice.len + Len(items) <= Len(heap[slice.array]) THEN slice.array ELSE owner,
        slice.len + Len(items))

Use(r, n) ==
  /\ Registering(r)
  /\ LET items == [i \in 1 .. n |-> Mw(r, Len(expected[r]) + i)]
     IN  /\ heap' = Appended(middleware[r], items, r)
         /\ middleware' = [middleware EXCEPT ![r] = AppendedTo(@, items, r)]
         /\ expected' = [expected EXCEPT ![r] = @ \o items]
  /\ UNCHANGED <<made, routes, notFound, hooks, collector, req, counters>>

\* A copy of the parent's middleware of this moment; notFoundHandler and
\* panicHandler are not taken over.
Group ==
  /\ Registering("root") /\ "group" \notin made
  /\ made' = made \union {"group"}
  /\ heap' = [heap EXCEPT !["group"] = Elements(middleware["root"])]
  /\ middleware' = [middleware EXCEPT !["group"] = Slice("group", middleware["root"].len)]
  /\ collector' = [collector EXCEPT !["group"] = collector["root"]]
  /\ expected' = [expected EXCEPT !["group"] = expected["root"]]
  /\ UNCHANGED <<routes, notFound, hooks, req, counters>>

\* initializeIfNeeded makes the collector; nothing but GetRoutes reads the metadata.
AddRouteMetadata(r) == collector' = [collector EXCEPT ![r] = IF @ = "none" THEN r ELSE @]

\* GET ... OPTIONS: a route of n wrapped handlers.
Route(r, n) ==
  /\ Registering(r) /\ routes[r] = 0
  /\ routes' = [routes EXCEPT ![r] = n]
  /\ AddRouteMetadata(r)
  /\ UNCHANGED <<heap, middleware, made, notFound, hooks, req, counters, expected>>

\* Static and FileServer register a handler that is not wrapped.
Static(r) == Route(r, Raw)

\* A WebSocket route has neither wrapper nor metadata.
WS(r) ==
  /\ Registering(r) /\ routes[r] = 0
  /\ routes' = [routes EXCEPT ![r] = Raw]
  /\ UNCHANGED <<heap, middleware, made, notFound, hooks, collector, req, counters, expected>>

\* The routing library has one handler for no match; the field of the router that
\* serves decides about the JSON answer.
NotFound(r) ==
  /\ Registering(r)
  /\ notFound' = r
  /\ hooks' = IF r = "root" THEN hooks \union {"notFound"} ELSE hooks
  /\ UNCHANGED <<heap, middleware, made, routes, collector, req, counters, expected>>

MethodNotAllowed(r) ==
  /\ Registering(r)
  /\ notFound' = "method"
  /\ UNCHANGED <<heap, middleware, made, routes, hooks, collector, req, counters, expected>>

\* On the router that serves; a group's is never called.
PanicHandler ==
  /\ Registering("root")
  /\ hooks' = hooks \union {"panic"}
  /\ UNCHANGED <<heap, middleware, made, routes, notFound, collector, req, counters, expected>>

-----------------------------------------------------------------------------
(* ServeHTTP of root.                                                      *)
Step(q, from, changed) ==
  /\ req[q].pc = from
  /\ req' = [req EXCEPT ![q] = changed]

\* The handlers the routing library runs for a request.
Todo(target) ==
  CASE target \in Routers /\ routes[target] = Raw -> <<Handler("raw", 1)>>
    [] target \in Routers /\ routes[target] # Raw ->
         [i \in 1 .. routes[target] |-> Handler(target, i)]
    [] target \notin Routers /\ notFound = "default" -> <<>>
    [] target \notin Routers /\ notFound = "method" -> <<Handler("raw", 2)>>
    [] OTHER -> <<Handler(notFound, 0)>>

\* Without handlers of its own the library answers 404, or 405 when another method
\* has the path.
ServeHTTP(q, target) ==
  /\ target \in Routers => routes[target] # 0
  /\ LET todo == Todo(target)
     IN  Step(q, "none",
           [Fresh EXCEPT !.pc = "next", !.target = target, !.todo = todo,
              !.status = IF todo # <<>> THEN 200 ELSE IF target = "method" THEN 405 ELSE 404,
              !.body = IF todo # <<>> THEN "none" ELSE "library"])
  /\ calls' = MaxRegistrations
  /\ UNCHANGED <<heap, registered, counters>>

\* Mutant: the handler is appended to the router's middleware itself.
BuildHandlerChainInPlace(q, r, h) ==
  /\ heap' = Appended(middleware[r], <<h>>, q)
  /\ Step(q, "next", [req[q] EXCEPT !.pc = "run", !.chain = AppendedTo(middleware[r], <<h>>, q)])

\* make with room for all, then two appends: an array of its own.
BuildHandlerChain(q, r, h) ==
  /\ heap' = [heap EXCEPT ![q] = Elements(middleware[r]) \o <<h>>]
  /\ Step(q, "next", [req[q] EXCEPT !.pc = "run", !.chain = Slice(q, middleware[r].len + 1)])

\* createWrappedHandler up to the call of the chain.
Wrapped(q) ==
  /\ req[q].pc = "next" /\ req[q].todo # <<>> /\ Head(req[q].todo)[1] \in Routers
  /\ BuildHandlerChain(q, Head(req[q].todo)[1], Head(req[q].todo))
  /\ UNCHANGED <<registration, counters>>

NotWrapped(q) ==
  /\ req[q].todo # <<>> /\ Head(req[q].todo)[1] \notin Routers
  /\ Step(q, "next", [req[q] EXCEPT !.pc = "run", !.chain = Slice(q, 1)])
  /\ heap' = [heap EXCEPT ![q] = <<Head(req[q].todo)>>]
  /\ UNCHANGED <<registration, counters>>

Ran(q) == Append(req[q].ran, Last(Elements(req[q].chain)))

\* The chain ends without an error, and the library goes on with the next handler.
ChainAnswers(q) ==
  /\ \E status \in {200, 404} :
       Step(q, "run", [req[q] EXCEPT !.pc = "next", !.ran = Ran(q), !.todo = Tail(req[q].todo),
                                     !.status = status, !.body = "handler"])
  /\ UNCHANGED <<heap, registration, counters>>

\* Mutant: the wrapper does not return the error of the context.
ChainErrorIgnored(q) ==
  /\ Step(q, "run", [req[q] EXCEPT !.pc = "next", !.ran = Ran(q), !.todo = Tail(req[q].todo),
                                   !.status = 500, !.body = "handler", !.errAt = Len(req[q].ran) + 1])
  /\ UNCHANGED <<heap, registration, counters>>

\* AbortWithError: the wrapper returns the error, the library stops there and
\* answers itself, with the status of an error that is the library's HTTPError.
ChainError(q) ==
  /\ \E status \in {404, 500} :
       Step(q, "run", [req[q] EXCEPT !.pc = "next", !.ran = Ran(q), !.todo = <<>>,
                                     !.status = status, !.body = "library",
                                     !.errAt = Len(req[q].ran) + 1])
  /\ UNCHANGED <<heap, registration, counters>>

ChainPanics(q) ==
  /\ Step(q, "run", [req[q] EXCEPT !.pc = "panic", !.ran = Ran(q), !.panicked = TRUE])
  /\ UNCHANGED <<heap, registration, counters>>

-----------------------------------------------------------------------------
(* The end of ServeHTTP.  IncrementCounter and RecordTiming are atomic on  *)
(* their key, and nothing else of it is shared.                            *)

HandleNotFound(status, body) ==
  IF status = 404 /\ "notFound" \notin hooks THEN "json404" ELSE body

\* The router may have no collector.
Count(keys) ==
  counters' = IF collector["root"] = "none" THEN counters
              ELSE [k \in DOMAIN counters |-> counters[k] + IF k \in keys THEN 1 ELSE 0]

HandleErrorMetrics(status) == IF status >= 400 THEN {"error"} ELSE {}

\* handleNotFound, handleErrorMetrics and the timing.
Finish(q) ==
  /\ req[q].todo = <<>>
  /\ Step(q, "next",
       [req[q] EXCEPT !.pc = "done", !.body = HandleNotFound(req[q].status, req[q].body)])
  /\ Count({"duration"} \union HandleErrorMetrics(req[q].status))
  /\ UNCHANGED <<heap, registration>>

\* Mutant: a panic is counted as an error, too.
HandlePanicCountsError(q) ==
  /\ \E status \in {200, 500} :
       /\ "panic" \notin hooks => status = 500
       /\ Step(q, "panic", [req[q] EXCEPT !.pc = "done", !.status = status, !.body = "panic"])
  /\ Count({"panic", "error", "duration"})
  /\ UNCHANGED <<heap, registration>>

\* handlePanicAndMetrics: the panic handler of root or a plain 500, and the timing.
HandlePanic(q) ==
  /\ \E status \in {200, 500} :
       /\ "panic" \notin hooks => status = 500
       /\ Step(q, "panic", [req[q] EXCEPT !.pc = "done", !.status = status, !.body = "panic"])
  /\ Count({"panic", "duration"})
  /\ UNCHANGED <<heap, registration>>

\* A panic of the panic handler leaves ServeHTTP.
PanicHandlerPanics(q) ==
  /\ "panic" \in hooks
  /\ Step(q, "panic", [req[q] EXCEPT !.pc = "escaped"])
  /\ UNCHANGED <<heap, registration, counters>>

-----------------------------------------------------------------------------
Register(r) ==
  \/ \E n \in 1 .. 2 : Use(r, n)
  \/ \E n \in 1 .. MaxHandlers : Route(r, n)
  \/ Static(r) \/ WS(r) \/ NotFound(r) \/ MethodNotAllowed(r)

Serve(q) ==
  \/ \E target \in Targets : ServeHTTP(q, target)
  \/ Wrapped(q) \/ NotWrapped(q)
  \/ ChainAnswers(q) \/ ChainError(q) \/ ChainPanics(q)
  \/ Finish(q) \/ HandlePanic(q) \/ PanicHandlerPanics(q)

RouterNext == Group \/ PanicHandler \/ (\E r \in Routers : Register(r)) \/ (\E q \in Requests : Serve(q))

RouterSpec == RouterInit /\ [][RouterNext]_routerVars

-----------------------------------------------------------------------------
Functions == ({"mw"} \X Arrays \X Nat) \union ((Routers \union {"raw"}) \X Nat)
Slices == [array : Arrays, len : Nat]
RequestStates ==
  [pc : {"none", "next", "run", "panic", "done", "escaped"}, target : Targets \union {"none"},
   todo : Seq(Functions), chain : Slices, ran : Seq(Functions), status : {200, 404, 405, 500},
   body : {"none", "library", "handler", "json404", "panic"}, errAt : Nat, panicked : BOOLEAN]

\* A slice lies in its array.
RouterTypeOK ==
  /\ heap \in [Arrays -> Seq(Functions)]
  /\ middleware \in [Routers -> Slices]
  /\ \A r \in Routers : middleware[r].len <= Len(heap[middleware[r].array])
  /\ made \subseteq Routers /\ calls \in 0 .. MaxRegistrations
  /\ routes \in [Routers -> 0 .. Raw]
  /\ notFound \in Routers \union {"default", "method"}
  /\ hooks \subseteq {"notFound", "panic"}
  /\ collector \in [Routers -> Routers \union {"none"}]
  /\ req \in [Requests -> RequestStates]
  /\ counters \in [{"error", "panic", "duration"} -> Nat]
  /\ expected \in [Routers -> Seq(Functions)]

\* A router's middleware is what its parent had at Group and then what Use added to
\* it, in order, whatever the slices of other routers do; and the chain of a
\* wrapped handler is all of it (also what Use added after the route), then the
\* handler, whatever other requests build meanwhile.
WholeChain ==
  /\ \A r \in made : Elements(middleware[r]) = expected[r]
  /\ \A q \in Requests :
       req[q].pc = "run" =>
         LET h == Head(req[q].todo)
         IN  Elements(req[q].chain) =
               (IF h[1] \in Routers THEN expected[h[1]] ELSE <<>>) \o <<h>>

\* All handlers of a route run, each behind the middleware again and whether or not
\* one before it called Abort, up to the first that ends with an error or a panic.
RunsUntilError ==
  \A q \in Requests :
    LET r == req[q]
    IN  r.pc = "done" =>
          /\ r.ran = SubSeq(Todo(r.target), 1, Len(r.ran))
          /\ r.errAt \in {0, Len(r.ran)}
          /\ r.errAt = 0 /\ ~r.panicked => r.ran = Todo(r.target)

\* Once root has a route, every request that ends is timed once and counted at most
\* once: as a panic or, with status 400 and above, as an error.
EndsCounted ==
  LET done == {q \in Requests : req[q].pc = "done"}
      panics == {q \in done : req[q].panicked}
  IN  counters =
        IF collector["root"] = "none" THEN [error |-> 0, panic |-> 0, duration |-> 0]
        ELSE [error |-> Cardinality({q \in done \ panics : req[q].status >= 400}),
              panic |-> Cardinality(panics), duration |-> Cardinality(done)]

-----------------------------------------------------------------------------
(* The inductive invariant behind these properties.                        *)

\* A slice of a router has the router's own array.
Owned ==
  \A r \in Routers : middleware[r].array = r /\ Elements(middleware[r]) = expected[r]

\* With the first request registration is over.
Closed(q) == req[q].pc # "none" => calls = MaxRegistrations /\ req[q].target \in Targets

\* A running chain is all of the request's array.
Chained(q) ==
  req[q].pc = "run" =>
    LET h == Head(req[q].todo)
    IN  /\ req[q].todo # <<>> /\ req[q].chain = Slice(q, Len(heap[q]))
        /\ heap[q] = (IF h[1] \in Routers THEN expected[h[1]] ELSE <<>>) \o <<h>>

\* What ran and what is still to run are the handlers of the target; an error ends the list.
Split(q) ==
  LET r == req[q]
  IN  r.pc # "none" =>
        /\ r.errAt = 0 /\ ~r.panicked => r.ran \o r.todo = Todo(r.target)
        /\ Len(r.ran) <= Len(Todo(r.target)) /\ r.ran = SubSeq(Todo(r.target), 1, Len(r.ran))
        /\ r.errAt # 0 => r.todo = <<>> /\ r.errAt = Len(r.ran)
        /\ r.pc \in {"next", "run"} => ~r.panicked
        /\ r.pc = "done" /\ ~r.panicked => r.todo = <<>>
        /\ r.pc \in {"panic", "escaped"} => r.panicked

EndsFinite == IsFiniteSet({q \in Requests : req[q].pc = "done"})

RouterInv ==
  /\ RouterTypeOK /\ Owned
  /\ \A q \in Requests : Closed(q) /\ Chained(q) /\ Split(q)
  /\ EndsFinite /\ EndsCounted
=============================================================================
