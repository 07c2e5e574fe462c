# A verification of the web framework `r`

`r` is a Go web framework on top of fasthttp and fasthttp-routing: a router
with middleware chains, a pooled request context, rate limiting, circuit
breaking, timeouts, and WebSocket connections with two pumps each. Most of it is
straight-line code. What is hard to test is the part that runs concurrently:
lock-free counters, goroutines that outlive the request they serve, a pool whose
objects come back while they are in use, and a connection that three goroutines
tear down at once. This directory models that part.

## Inventory

| component | state | operations | interacts with | hard behaviour |
|---|---|---|---|---|
| Circuit breaker (`circuit_braker.go`, `middleware_circuit_breaker.go`) | four atomics: state, failures, successes, lastFailure | `IsOpen`, `RecordFailure`, `RecordSuccess` | called by every request to an endpoint | no lock: interleavings between any two atomics, stale checks |
| Connection manager (`ws.go`) | map of connections, counter, RWMutex | `Add`, `Remove`, `GetActiveConnections`, `GetConnectionStats` | goroutines of all connections | map and counter change in two steps, limit, lock-free reader |
| WebSocket connection (`ws*.go`, `r.go`) | state, closeCh, closeOnce, socket, write buffer | `NewWSConn`, `readPump`, `writePump`, `WriteMessage`, `Close` | manager, the application's `WSHandler`, peer | three goroutines and the handler race into `Close` |
| Context pool (`content_impl.go`, `context_cleanup.go`, `context.go`) | sync.Pool of `ContextImpl`; its cancel, done, err | `newContextImpl`, `monitorContext`, `Cleanup`, `Reset` | every request; a monitor goroutine each | an instance is reset and reused by timer, not by the end of the request; put back twice |
| Handler chain and middleware (`r.go`, `router_wrap_handlers.go`, `middleware.go`) | handlers, handlerIdx, aborted, err | `Next`, `Abort`, `AbortWithError`; `Recovery`, `Timeout`, `CORS` ... | handlers call back into `Next` | `Timeout` runs the chain in a goroutine on unsynchronised fields; panics |
| Rate limiter (`middleware_rate_limiter.go`) | token bucket per client | `Allow`, `GetQuota`, `Reset`, `cleanup` | `RateLimit` middleware, all of one provider | truncation, dropped and recreated buckets, shared limiter |
| Server (`server*.go`) | fasthttp server, its listener; per `Stop` a wait group, an error channel, a deadline | `Start`, `Stop`, `BuildHandler` | router, metrics collector, logger | three shutdown tasks against a timeout that leaves them behind, and against other calls of `Stop` |
| Router (`router*.go`, `r.go`) | routes, slices of middleware, special handlers, collector | `GET` ..., `Group`, `Use`, `NotFound`, `ServeHTTP` | fasthttp-routing, handler chain, metrics | slices that could share arrays between groups and requests, routes with several handlers, what is answered and counted after errors and panics |
| Logger (`log.go`) | field maps of loggers, a pool of maps | `Info`, `Error`, ..., `WithFields` | everyone | who owns a pooled map, and what it still holds |
| Metrics (`metrics.go`, `route_metrics.go`) | sync.Maps of atomics | `IncrementCounter`, `RecordValue` ... | everyone | key collisions, lost updates |
| `MessageBuffer` (`ws.go`) | circular buffer | `Write`, `Read` | nobody | wrap-around |

What makes each modelled component correct:

* **Circuit breaker.** A failure that reaches the threshold opens the breaker,
  whatever other requests do; the state moves only along closed → open → half-open
  → closed/open; an open breaker is eventually probed; requests that do not
  overlap see the textbook breaker.
* **Connection manager.** The limit is never exceeded; whoever may look sees a
  counter that agrees with the map; `Add` and `Remove` appear atomic.
* **WebSocket connection.** `OnClose` once; nobody returns from a half-done
  `Close`; `active` means usable; a close ends all goroutines.
* **Context pool.** An instance belongs to one request; it goes back once; errors
  belong to the request that raised them.
* **Handler chain.** Handlers run in order and once; an abort stops the chain; a
  panic is contained; a timeout bounds the request.
* **Server.** `Stop` returns, lists the errors of its tasks, and leaves nothing
  blocked behind; nil means drained.
* **Router.** Every chain is the router's middleware and the handler, whatever other
  groups and requests do; handlers run up to the first error; every end is counted
  once.
* **Logger.** A map has one owner; an entry has its own fields and no others.
* **Rate limiter.** No window in which a client gets more than a burst and its
  rate; a client that waits for a token gets it, and one that polls gets it late by a
  bounded time.

The hazards behind these, each at its line, are in `PROJECT.json`.

## Modules

| module | models | properties |
|---|---|---|
| `CircuitBreaker` | every atomic Load, Store, Add and CompareAndSwap as an action; `pc[p]` names the next one of request `p` | `NoLostTrip`, `QuiescentClosed`, `LegalTransitions`, `ProbedAfterTimeout` |
| `Breaker` | abstract: probe, failure and success take effect at once | |
| `CircuitBreakerSerial` | `CircuitBreaker` with a history variable for the first overlap of two requests, and the refinement mapping up to it | `ImplementsBreaker`, `NoUnexpectedSuccess` |
| `CircuitBreakerPeriod` | adds who opened the breaker or moved lastFailure since | `ExtendedOnce` |
| `ConnectionManager` | `Add`, `Remove`, `GetActiveConnections`, one action per lock, check, map and counter operation | `LimitHolds`, `ReaderSeesExactCount`, `StatsOffByAtMostOne`, `ImplementsConnectionSet` |
| `ConnectionSet` | abstract: a bounded set | |
| `WebSocket` | upgrade callback, read pump, write pump, body of `Close`; uses the manager through `ConnectionSet` | `OnCloseOnce`, `CloseReturnsComplete`, `ActiveIsServed`, `ClosePropagates` |
| `ContextPool` | pool, leases, monitors, and the fields cancel, done, err of each instance | `CopiesBounded`, `IsolatedUntilTimeout`, `ForeignErrorNeedsTimeout`, `CrashNeedsDoublePut`, `ForeignCancelNeedsDoublePut`, `LeasesEnd` |
| `HandlerChain` | one request: call stacks of the request's goroutine and of one goroutine per `Timeout`, over shared handlerIdx, aborted, err | `InOrderOnce`, `NoneSkipped`, `AbortStopsAllButOne`, `FirstPanicContained`, `TimeoutBoundsRequest` |
| `Server` | the HTTP server's lock and listener, requests, one `Stop` with the label of each of its tasks, the wait group, errCh and the deadline; other calls of `Stop` as calls of the HTTP server's `Shutdown` | `StopReturns`, `NoTaskLeaks`, `ErrorsReported`, `NoSendOnClosed`, `DrainedWhenNil` |
| `Logger` | mapPool, the map of every logger, and goroutines between their `Get` and `Put`; a map's content is a set of fields | `OneOwner`, `LoggerKeepsFields`, `InfoExact`, `StaleFieldsWereLogged` |
| `Router` | registration on a router and a group, with Go slices as length and array; then requests, each with its handlers still to run and its chain | `WholeChain`, `RunsUntilError`, `EndsCounted` |
| `RateLimiter` | token buckets in scaled units with truncation, clock, cleanup | `WindowBound`, `RejectedOnlyIfHasty` |
| `RateLimitGroup` | two `RateLimit` middlewares over one limiter, as in the example program | `GroupLimited` (refuted) |
| `RateLimitPolling` | adds when a client was last let through and how often it was refused since | `PollCostsOneUnit` |
| `MC*` | symmetry sets for TLC | |
| `*_proofs` | theorems: one module per component, `CircuitBreaker_proofs` and `RateLimiter_proofs` also for the modules that extend theirs, and `Request_proofs` for `HandlerChain` and `Router` | |

Composition: `WebSocket` uses `ConnectionSet`, and `ConnectionManager` implements
it (proved), so the WebSocket results hold over the real manager.
`RateLimitGroup` extends `RateLimiter`, `RateLimitPolling` extends it in turn, and
both implement `RateLimiter` (proved).
`CircuitBreakerSerial` and `CircuitBreakerPeriod` extend `CircuitBreaker` by history
variables, which restrict nothing, so the run of the last one checks the properties
of all three. `Router` builds the chains and
`HandlerChain` runs one: `Router` takes from it that a chain ends with an answer, an
error or a panic.

Atomicity follows the code: an operation under a mutex that nobody can look into
is one action (`Allow`), one that a lock-free reader can look into is several
(`Add`); every atomic operation and every unsynchronised load or store is its own
action. Each module's head comment says what is left out.

Definitions marked `Mutant` are wrong variants of the definition after them. They
are not used by any specification; substituted for it they make a property fail,
which shows that the property depends on that line of the code.

## What the runs check

(The inductive invariants, which contain the type invariants, and what follows from
other properties - `LimitHolds`, `QuiescentClosed`, `NoSendOnClosed` - are proved and
not part of the runs.)

Passing runs:

| run | bounds | what it shows |
|---|---|---|
| `CircuitBreaker` | 2 goroutines, threshold 2, half-open maximum 2, timeout 1, clock 0..4; module `CircuitBreakerPeriod` | no trip lost, legal edges only, refinement of `Breaker` up to the first overlap, how often late failures extend an open period, an open breaker is probed |
| `ConnectionManager` | 3 goroutines, 3 connections, limit 2 | all manager properties and the refinement |
| `WebSocket` | 2 connections, limit 1, 1 ever served | teardown properties, with a refused connection; a close ends all goroutines |
| `ContextPool` | 3 requests, 1 instance | copies, isolation, foreign errors and cancels, cause of a crash, every lease ends |
| `HandlerChain` | all chains of up to 3 functions, 2 calls per handler | order, nothing skipped, aborts, panics, the timeout bounds the request |
| `Server` | 2 requests | errors listed, nothing sent late, drained on nil, `Stop` and its tasks end |
| `Logger` | 2 goroutines, 2 loggers, 2 fields, 4 maps | who owns a map, what loggers and entries hold |
| `Router` | 5 registrations, 2 handlers per route, 2 requests | whole chains, handlers up to the first error, counters |
| `RateLimiter` | 1 key, rate 3 per 4 ticks, 2 units per token, clock 0..10, 3 requests under way, 8 refusals in a row; module `RateLimitPolling` | the window bound and patience, for a client of two middlewares, and what polling costs |

Why the bounds are enough: two goroutines overtake each other between a check and
its CompareAndSwap, and thresholds of two are the smallest at which a counter can
be reached by different goroutines. Three connections at a limit of two have one
at the limit, one over it and one leaving; for the lifecycle one connection is
served and another refused: connections share only the manager, whose own run has the
rest. Three requests on one instance contain a double put, two
holders of the two copies, and their two monitors on one done channel; instances
touch each other only through the pool. Three functions hold two nested
`Timeout`s and a handler, or a `Timeout` with a handler inside it and one after.
The rate limiter's clock of ten ticks exceeds twice the period, after which idle
buckets are dropped, and a tick is worth one and a half units, so that truncation
happens; keys have separate buckets. A client that polls at every tick loses a
third of its refill. Two requests are
enough for one to be in flight while another has ended, and for two chains to be
built at once. Five registrations fill a slice of the root, copy it, and append to
both sides, with a route and a special handler (`MaxRegistrations`); two handlers of a route have a first
and a last. Four maps are one more than two loggers and a call need, and two
goroutines exchange maps through the pool. Safety does not rest on these bounds: it
is proved for all of them. Liveness does.

Violation runs. Each states what a comment or an example of the repository says of
the program, and TLC shows a behaviour of the code that refutes it:

| run | what is said | what happens |
|---|---|---|
| `WebSocket_refused` | "Block here until the connection is closed" (`r.go:156`) | when the manager is full the callback uses a nil connection, which ends the process |
| `WebSocket_echo` | "You should receive the echo back" (`examples/example.md:62`), "periodic pings" (`ws_write_pump.go:9`) | `writeDeadline` is never set, so every write is refused, and the first ping closes the connection |
| `RateLimitGroup_own` | "Add API group with stricter rate limit" (`examples/middleware/main.go:54`, `examples/example.md:133`) | the second `RateLimit` uses the limiter of the first, and its own rate is ignored |

Where the code does less than one would expect and nothing in the repository says
otherwise, a passing property says what it does guarantee. A failure of a request that
was admitted before the breaker opened keeps it open longer, but only once per
request (`ExtendedOnce`). A refusal costs a waiting client the fraction of a unit that
truncation drops (`PollCostsOneUnit`); one that polls faster than units come never
gets a token, which the property allows: its bound grows with every poll. After an abort a
goroutine abandoned by `Timeout` may call one more handler (`AbortStopsAllButOne`). An
instance goes into the pool twice for every monitor that ends (`CopiesBounded`),
requests then share it (`IsolatedUntilTimeout`), a monitor may cancel the context of
another request (`ForeignCancelNeedsDoublePut`), and two monitors may close one done
channel twice (`CrashNeedsDoublePut`). A panic that `Recovery` has caught does not abort
the chain (`FirstPanicContained` speaks of the first panic only). A `Stop` that did not
close the listener itself, because another call or nobody had, returns nil whether
requests run or not (`DrainedWhenNil` speaks of the one that closed it), and one that
gives up leaves its tasks running (`NoTaskLeaks`). `Abort` in one handler of a route does
not keep the next one from running, with all the middleware again (`RunsUntilError`). An
entry of `Log`, `Error`, `Debug` or `Warn` may carry fields of earlier entries
(`StaleFieldsWereLogged`).

Four more places differ from what is said of them and have no run of their own. In the
first two nothing bounds the difference; the other two show in a few steps of one
request:

* `circuit_braker.go:36`: the elapsed timeout is checked before the CompareAndSwap, and
  a failure recorded in between (or a whole closed period) makes the probe early. The
  property "open to half-open only when `Elapsed`" fails in `CircuitBreaker`.
* `content_impl.go:36`: `initialize` does not clear `err`, so a request that shares an
  instance may return the error of another (`router_wrap_handlers.go:44` promises "any
  error that occurred during chain execution"). `ForeignErrorNeedsTimeout` says when.
* `middleware.go:177`: "Set status and return - do not call Next()". CORS answers a
  preflight so, but the loop of `Next` that called it goes on with the following
  function all the same, on a route that is registered for OPTIONS. `NoneSkipped` says
  nothing of chains with a preflight.
* `router_serve_http.go:71`: "handleNotFound sets a JSON error response if no route was
  matched". It looks at the status only: without a `NotFound` handler the body of a 404
  that a handler of a matched route answers is replaced too.

Deadlock is checked for the circuit breaker, the manager and the rate limiter,
which never stop, and for the logger. The other models end: requests return, connections
and servers close.

## Fairness

Weak fairness stands for the Go scheduler and for timers.

* `CircuitBreaker`: every request goroutine makes progress and requests keep
  arriving. The clock need not advance; `ProbedAfterTimeout` starts when it has.
* `WebSocket`: the three goroutines and `Close` make progress, application handlers
  return, and the ping ticker ticks (54 seconds). The peer and the read deadline
  owe nothing.
* `ContextPool`: the 30 second timer fires, and the monitor goroutine runs. A
  handler may run for ever, and `LeasesEnd` holds all the same.
* `Server`: goroutines are scheduled, the deadline passes, and another call of `Stop`
  leaves the HTTP server's lock at its deadline. `ShutdownHTTP` has strong fairness,
  because it waits for a Go mutex that others take again and again, and a Go mutex
  hands over to a waiter that has starved for a millisecond. Handlers, the metrics
  collector's `Close` and the logger's `Sync` may block for ever.
* `HandlerChain`: the framework's own steps and the timer of `Timeout`. A handler of
  the application may block for ever.

## What is proved

All theorems are for every value of the constants, from the named assumptions in
the modules (positive thresholds, finite sets, natural numbers).

* `CircuitBreaker_proofs`: `TypeCorrect`, `TripNeverLost`, `ClosedBelowThreshold`,
  `OnlyLegalTransitions`, `ExtensionsBounded`, and as long as requests do not overlap
  `NoSurprise` and `SerialRefinement`. `NoLostTrip` is inductive together
  with the type invariant. The case to look at is a CompareAndSwap that fails: the state
  it expected was loaded after the counter reached the threshold, so if the state is
  closed now it was not closed when it was loaded or somebody closed it meanwhile,
  and whoever closes it resets the failures next. For `ExtensionsBounded` the invariant
  (`Outside`) says where a goroutine that has moved lastFailure can be while the period
  lasts: between its failure and the CompareAndSwap of its next probe, which ends the
  period or finds it ended. Without overlap `SerialInv` says that all goroutines but one are
  idle and what that one knows of the fields at each step since nobody else writes
  them (`Knows`); with it each step is one of `Breaker` or a stutter. In the mapping a failure takes
  effect when its time is stored, a success when its counter is updated, a probe at its
  CompareAndSwap.
* `ConnectionManager_proofs`: `Inductive`, `ExactCount`, `StatsBound`,
  `NeverOverLimit`, `Refinement`. The invariant says who holds the mutex at each
  label and by how much the counter lags the map there. `LimitHolds` alone is not
  inductive: it needs the counter to equal the size of the map at the check.
* `WebSocket_proofs`: `Inductive`, `ClosedOnce`, `ReturnedIsClosed`, `ActiveUsable`.
  The invariant ties every piece of a connection's state to the step that the
  body of `Close` has reached, and a goroutine's return to its end.
* `ContextPool_proofs`: `Inductive`, `CopiesAccounted`, `Isolation`, `ForeignErrors`,
  `CrashCause`, `CancelCause`. The invariant counts the pointers to an instance in the pool and in
  requests, and says that the owner of a field of an instance was given that
  instance. The counting steps use the cardinality theorems of the library. For the
  crash: two monitors about to close one channel hold the same instance, and by the
  count that needs a monitor that has ended.
* `Server_proofs`: `Inductive`, `ClosedChannelUnused`, `AllErrorsListed`,
  `NilMeansDrained`. `ErrorsReported` is not inductive: it needs that the wait group
  equals the number of tasks that run, so that at zero none can still send, and that
  an error a task met is on its way or in the channel until the channel is read.
* `Logger_proofs`: `Inductive`, `Ownership`, `LoggersKeep`, `InfoEntries`,
  `OtherEntries`. The invariant follows a map from make or the pool to a call, and
  from there to the pool or a logger; for the fields left over it adds that whatever
  lies in the pool has been logged.
* `RateLimiter_proofs`: `Inductive`, `Limited`, `Patient`. The invariant is a
  balance: tokens in the bucket plus tokens taken in the window are at most the
  burst plus what the elapsed time pays. For a dropped bucket the elapsed time of
  two periods pays for the full bucket made later.
  For the group, `UsesLimiter`: the two middlewares implement the limiter's
  specification, so all of this holds of them. For polling, `PollingUsesLimiter` and
  `PollingCost`. Its invariant (`Worth`): what has come into the bucket since the last
  token was taken, and one unit for each refusal, is worth the time up to the last
  refill.
* `Request_proofs`, about `HandlerChain`: `ChainInductive`, `ChainTypes`, `OrderKept`,
  `ChainComplete`, `AbortStops`, `PanicContained`, for chains of any length with any
  number of `Timeout`s in any nesting, and handlers that call `Next` and `Abort` any
  number of times. `InOrderOnce` is far from inductive: handlerIdx is loaded and stored
  by several goroutines. The argument is that until an abort reaches the index
  (`Calm`) only one goroutine works on the chain, and every other one waits at a
  `Timeout` for a later one (`Lead`); then the index says which functions were called
  (`Indexed`). A `Timeout` leaves its wait early only to abort; a goroutine that is late
  then finishes at most the call it has decided on (`Late`, `Cut`), and whatever it stores
  in the index later, `aborted` keeps its loop from another call. `Ended` adds that who returns without an abort or a
  panic has seen the end of the chain, `Guarded` that until the first panic `Recovery` is
  the lowest handler on the request's stack.
* `Request_proofs`, about `Router`: `RouterInductive`, `RouterTypes`, `ChainWhole`,
  `RunUntilError`, `EachEndCounted`, for any set of requests, even an
  infinite one (`RequestsAssumption`: a request is not a router, as arrays are named
  after both), any number of registrations and of handlers per route
  (`RouterBounds`). `WholeChain` needs that a router's slice has an array of its own
  (`Owned`), so that no append of another writes into it, that registration is over
  when the first request comes (`Closed`), and that a running chain is all of its request's array
  (`Chained`). `RunsUntilError` needs that what ran and what is still to run make up
  the handlers of the route (`Split`); `EndsCounted` that the counters are the
  cardinalities of sets to which an end adds one request, which are finite
  (`EndsFinite`).

Only model-checked: liveness - `ProbedAfterTimeout`, `ClosePropagates`,
`LeasesEnd`, `StopReturns`, `NoTaskLeaks`, `TimeoutBoundsRequest` -
which TLAPS cannot prove under fairness. `MaxLength` and `MaxCalls` of
`HandlerChain`, `MaxRegistrations` and `MaxHandlers` of `Router` keep TLC's runs finite; the
theorems hold for every value of them.

## What is not modelled

Request and response helpers, headers, JSON, the metadata of routes and spans carry
data that no property tells apart. `localAllow`, `distributedAllow`,
`periodicCleanup` and `UpdateRouteMetrics` have no caller. Nothing makes a
`MessageBuffer`, and a program outside the package cannot, as its fields are not
exported: it has no reachable state to speak of. `Configure` of a logger writes its
output and level without a lock; neither is modelled. `Reset` of a context under a
chain that still runs is not in `HandlerChain`, which is about requests that end
within the 30 seconds of their context: with it TLC finds a handler called three
times, and no bound to state.
fasthttp, fasthttp-routing, the websocket library and sync.Pool are environment:
they appear as what the code can observe of them. Floating-point rounding in the
rate limiter is taken as exact before the truncation that the code performs.
`GetQuota` only reads; the reset time it reports mixes seconds, nanoseconds and scaled
tokens and lies long before the next token.

## Plan

Done, in this order: circuit breaker, connection manager, WebSocket lifecycle,
context pool, handler chain, rate limiter, server, logger, router; the proofs of every
safety property the passing runs check; late failures of the breaker and polling
clients of the limiter.

Next, in order of importance:

1. which period of the breaker a success belongs to (`circuit_braker.go:54`), with a
   history variable;
2. one theorem that the router's chains are chains of `HandlerChain`, so that the two
   sets of results compose formally and not only by reading;
3. the handler's fields of a shared context (`Reset` in `context.go:86`), once a bound
   is found that holds.
