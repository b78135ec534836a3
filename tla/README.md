# A verification project for the Argb HTTP server

The repository is an HTTP server in C++20: a small network library
(`src/PracticaFinal/network-library`, sockets, HTTP messages, a thread pool and
the class `HttpServer`) and the program built on it
(`src/PracticaFinal/http-server`: `main`, a static file server, a Lua
application with an SQLite database). This directory holds TLA+ models of it,
TLC configurations that check them on small instances, and TLAPS proofs.

Every definition that models code is tied to source lines in `PROJECT.json`
(`map`); every checked property has a mutant there, a plausible bug that breaks it.

## 1. Inventory

| Component | State | Operations | Correct when |
|---|---|---|---|
| `ThreadPool` | `tasks`, `stop`, `queue_mutex`, `condition`, `workers` | `enqueue`; the worker loop; the destructor | no wakeup is lost; tasks start in order, once; the destructor drains the queue and returns |
| `HttpServer` | `running`, `listener`, the map `connections` of `ConnectionContext`s under `connections_mutex`, `thread_pool` | `run`, `run_handlers`; `accept_connections`, `close_inactive_connections` (connection thread); `transfer_data` (data thread); `stop` | passes over the map exclude one another; a context outlives the pool task that refers to it; one `process` per connection at a time; responses arrive whole and in order; requests are released and idle clients evicted; a stop ends `run` |
| Sockets (`Socket`, `TcpSocket`, `TcpListener`) | one handle, closed by the destructor | `listen`, `accept`, `receive`, `send`, `close`, moves | one owner per open handle; end of stream, would-block and failure are told apart |
| `SignalHandler`, `main` | the static `server` pointer | `handle`, the handlers; construction and destruction order of `main` | a termination request ends the server gracefully, whenever it comes; nothing is used after its destruction |
| `HttpRequest::Parser` | the bytes received so far, the body mark | `parse` of each chunk | the result does not depend on how the input is cut into chunks; framing and case rules of headers |
| `HttpResponse::Serializer` | two buffers, "body started" | `status`, `header`, `end_header`, `body` | the calls in every order leave a well-formed response, or throw |
| `HttpRequestHandler` and factories | | `process` returns done, again, or throws; `create_handler` | the first factory that has a handler wins |
| `LuaServerApplication` | Lua thread and its queue, the VM, `endpoints`, database, row bridges | two-phase `process`, `enqueue_lua_task`, `create_handler`, `server.route`, `db.query`, the destructor | the VM runs on one thread; every task runs or is refused; routes are read and written without races; longest prefix wins; rows outlive their Lua owners; a script gets the row it asked for |
| `StaticFileServer` | base path, the open file of a handler | `create_handler`, `process` | no path outside the base; a file that changes or vanishes is answered |
| `luastate` (vendored) | the Lua stack, the dealloc queue of the `State` | `lua::Value` takes and gives back slots; `Functor::call`; `Ref::unref` | a value keeps its slot while it lives; a task leaves the stack as it found it |
| `Sqlite` | connection, statements, row cursor | `execute_all`, `query_all`, `Row::advance`, `get` | a row is usable while its table is; statements do not outlive the connection |
| `Address`, `Port`, `UdpSocket`, `NetworkSetup`, `MimeType`, examples | | conversions and system calls | see section 7 |

How they interact. `main` builds the server, registers the two applications as
handler factories, gives the server to `SignalHandler` and calls `run`. `run`
creates two threads and becomes a third. The connection thread accepts sockets and puts contexts
into the map. The data thread reads requests and, when one is complete, asks the
factories for a handler and sets the state to `RUNNING_HANDLER`. The main thread
hands such contexts to the pool, by reference, and polls their futures; when
`process` has returned true it sets the state to `WRITING_RESPONSE_HEADER`, and
the data thread sends the response in as many pieces as the socket wants. The
connection thread erases contexts that are closed or idle for
`connection_timeout`. All three hold `connections_mutex` while they walk the
map. Pool workers do not: they use a reference into a map node while other
threads change the map, which is correct only because of the state machine of the
context. The Lua application moves the work on to one more thread with a queue
of its own.

What is hard: the interleavings of six kinds of threads; references and futures
that outlive a lock; handles the system reuses as keys; partial sends; timeouts
that race results; shutdown at every moment, including before `run`; exceptions
on threads that do not catch them; destruction order; a stack shared by every call
between Lua and C++, with values that pop their own slots. `PROJECT.json` lists each at its line (`hazards`).

## 2. Modules

| Module | Role |
|---|---|
| `TaskExecutor` | abstract: what `ThreadPool` promises to callers of `enqueue` |
| `ThreadPool` | every mutex and condition variable step of the pool; refines `TaskExecutor` |
| `QueueLemmas` | facts about queues without repetitions, for both proof modules |
| `ThreadPoolProofs` | proofs about `ThreadPool` |
| `MCThreadPool` | the instance TLC checks |
| `HttpConnection` | abstract: what `HttpServer` promises the client of one connection |
| `HttpServer` | the map, three loops, the pool's workers, time, stop, destruction |
| `HttpServerRefinement` | the mapping of a context to an `HttpConnection` |
| `HttpServerProofs` | proofs about `HttpServer` |
| `MCHttpServer` | the instances TLC checks |
| `LuaServerApplication` | the Lua thread and its queue, handlers on the pool, the route table, `main`'s destructors |
| `LuaServerApplicationProofs` | proofs about `LuaServerApplication` |
| `MCLuaServerApplication` | the instances TLC checks |
| `HttpRequestParser`, `MCHttpRequestParser` | `parse` of one connection's bytes, cut in every way |
| `HttpRequestParserProofs` | proofs about `HttpRequestParser` |
| `HttpResponseSerializer` | the calls that write a response, as operators |
| `RouteLookup` | the search among registered routes, as operators |
| `RequestHandling`, `MCRequestHandling` | composes the two above with the static file handler, scripts and a changing file system |
| `RequestHandlingProofs` | proofs about `RequestHandling` and its two libraries |
| `LuaStack` | the stack operations of luastate, and those the application makes of them, as operators |
| `LuaStackProofs` | proofs about those operators |
| `SqliteRows`, `MCSqliteRows` | lifetime of database rows, their Lua tables and the connection, and the stack the tasks and the queries use |
| `SqliteRowsProofs` | proofs about `SqliteRows` |

`HttpServer` composes with the pool through `TaskExecutor`: it uses a FIFO queue and a
worker's current task, and the facts it needs of the real pool are those `ThreadPool` is
shown to have (FIFO, each task once: `ImplementsExecutor`; the drain of
`~ThreadPool`: `DrainedOnDestruction`).

### ThreadPool

A critical section of the code is two steps: the acquisition of `queue_mutex`
and the body, which ends by releasing it. `notify_one` and `notify_all` are
steps of their own, because the code calls them after the release.
`condition.wait` with a predicate is `WorkerLock` (acquire), then `WorkerWait`
(predicate false: release and sleep, one step as the condition variable
guarantees), `WorkerTake` or `WorkerExit`; `SpuriousWakeup` is there. An
exception of a task ends in its future, so `WorkerRun` covers both outcomes.
`created`, `finished` and `rejected` are history. Callers of `enqueue` may race the destructor
but return before the object is gone (`CallsReturned`), as C++ requires of them.

### HttpServer

`main_pc`, `conn_pc` and `data_pc` say where each thread is in its loop. A pass
is the acquisition of the mutex (`Lock`), one step per connection (`Visit`), and
the release, so workers, signals and time interleave with the inside of a pass.
`todo` holds the contexts the pass has not reached: the order of the passes over
the (unordered) map is not fixed, no property depends on it. `connections` is the map, from handle to context, and
`context` keeps what the code keeps in each `ConnectionContext`, under an
identity of its own so that a reused handle does not hide a stale context.
`future` is `handler_future` with the result `get()` would produce.

Abstracted: bytes to units of a header and a body, a clock to one flag per connection
(`expired`: the close pass would find it idle too long; `Expire` sets it at any
time except inside a close pass, which reads the clock once), parsing to
its three outcomes, the factories to "handler, none, exception", the network to a choice
of outcome in the step that calls the socket. An `accept` that fails and one that finds
nothing are one action, `AcceptNothing`: the code goes on in the same way.

### LuaServerApplication

Each critical section of `lua_queue_mutex` is one step: the queue and the stop flag are
touched nowhere else, and `notify_one`, which comes after it, is a step of its
own. The server is reduced to the `stage` of each request, which is justified by what
`HttpServer` is shown to have (`OneTaskPerConnection`, `PoolTasksAlive`):
`process` is never called twice at once for one request, and its context stays in the map until
it returns true. The order of the pool's queue is left open; what that permits
includes what the FIFO does. A script is reduced to whether it is inside `server.route` and how it
ends. `execution` is the shared state of `execution_future`; a task that comes after the Lua thread has exited
is destroyed with the queue, and its `packaged_task` leaves a broken promise, which `Poll` finds ready like a result.

Two situations are undefined behaviour (`Undefined`): the data thread reading `endpoints` while the Lua
thread changes it, and a worker using an application that is gone. The behaviour
ends there, so the properties of the `lua_application` run speak of executions
without it; the runs `route_race` and `dead_application` show that it happens.

### HttpRequestParser

A byte is an element of a small alphabet in which a method name, the names of
the two framing headers and `chunked` are one element each, since the code only
compares them whole. `std::string_view` members are the text they show, which
`SplitAtHeaderEnd` justifies: the buffer does not change once the header is complete. `Receive(n)`
delivers the next `n` bytes, for every `n`, so every cut of every stream is explored.
A length is read as `std::from_chars` into an `int` reads it: a number outside `-(IntMax + 1) .. IntMax` is none,
and the message ends with its header.
The loops of the code are recursive functions; the properties compare them with definitions
that do not follow the loops (`MessageRecognised`, `UriUnderstood`).

### RequestHandling

One request from the factories to its response. `HttpResponseSerializer` and `RouteLookup`
are libraries of operators, so that the same definitions serve the 404 of the server, the
static handler, a script that calls the serializer in any order, and the 500 that
replaces what a failed script wrote. A file is a name pointing to a node with a content;
other programs change both between any two system calls of the handler: the constructor, `file_size` (by name)
and `read` (by the open reader). Whether a path resolves inside the base directory is the constant `FileOf`.
On Windows an open file cannot be removed by default; the model has the POSIX rule.

### LuaStack

A frame is what one C function sees: its slots, counted from its first argument, and the dealloc
queue, which is one for the whole `State`. A `lua::Value` that found `top` slots and pushed one is
released by `Release(frame, top)`, the destructor of `StackItem`: nothing if the slot is not there
any more, a cap in the queue if it is not the last one, otherwise a pop that takes along the queued
values whose caps touch it (`Settled`). The other operators are what the application does with
values, in the order in which C++ creates and destroys them: `QueryFrame` (`make_sqlite_row_table`
and `Functor::call` around it), `TaskFrame` and `TaskEnd` (the task of a request). Values made from
arguments of a C function or from `Ref::unref` have no queue and never pop. Slots have names for
their contents, as much as tells a table from what is not one.

### SqliteRows

A row is followed from `db.query` through `make_sqlite_row_table`, the script's use, the
collector and the destruction of the application's members in the reverse of their
order; `Execute` is `execute_all`, whose row does not outlive the call. There is one thread at a
time (main while the script is loaded and after the join, the Lua thread in between), so a task
is `StartTask`, the calls its script makes, and `EndTask`. `stack` is the frame of the task between
those calls and `base` what was there before its two tables. The second `setmetatable` of a task
is called unprotected; where its argument is not a table, Lua panics (`aborted`).

An endpoint that fails with an error of Lua ends in `EndTask`: `lua_pcall` restores the frame of the task. An exception
that is no such error (a statement that cannot be prepared or run, a column that is not there, an argument of the wrong
type) is `Throw`. The task catches `lua::RuntimeError` only, and the Lua of the repository's `libraries/lua` is built as
C, so the exception passes through `lua_pcall` and nothing restores the frame: the two tables are released against the slots
of the function that threw, and the next task starts from those. `Arguments` and `Callees` are the slots such functions
have. An exception while the script is loaded ends the constructor (`failed`). `unwound` records that it has
happened. Three consequences are outside the model: Lua still holds the address of the jump buffer of the call that
was left, so what an unprotected error does then is undefined and `aborted` stands for it;
its count of nested calls is not restored, so after some two hundred such exceptions every call fails; and the compiler may
assume that a C function does not throw (`/EHsc`), the model takes it that the frames are unwound.

## 3. Runs

| Run | Instance | Shows |
|---|---|---|
| `thread_pool` | 2 workers, 2 submitters, 3 tasks | `NoLostWakeup`, `NoSleeperAfterStop`, `DrainedOnDestruction`, refinement of `TaskExecutor` with its fairness, `DestructorReturns` |
| `http_server` | 2 handles, 2 connections, 1 worker, throwing handlers, one-unit header, body of 0 or 1 | safety of the map, the sockets, the pool's references and the listener; every connection implements `HttpConnection` |
| `http_server_progress` | 1 connection, 2 workers, two-unit header, body of 0 or 2 | `ResponseInOrder` over partial sends, and the three liveness properties |
| `lost_stop` | as above, 1 worker | a violation, section 6 |
| `throwing_handler` | as above, throwing handlers | a violation, section 6 |
| `lua_application` | 2 requests, 2 workers, scripts that fail, throw and route | no wakeup is lost, one task per request, what a task refers to stays, tasks before the stop run, requests are answered, the destructor returns |
| `route_race`, `dead_application` | as above | violations, section 6 |
| `request_parser` | 67 streams: 6 addresses, 13 header sections with 4 bodies, 5 odd first lines; `IntMax` 12 | independence from the cuts, recognition of the last byte, the reference meaning of the address |
| `request_handling` | 5 routes, 11 paths, 1 file, 2 nodes, contents of 0 or 1 byte, 4 calls | `LongestRouteFound`, `SerializerOrder`, `AnswersWellFormed`, `SentAsRead`, `FileAnswered` |
| `sqlite_rows` | 3 statements, queries with and without a value to bind, functions that throw with four different stacks, endpoints that return nothing or one value, tasks that start with at most 8 slots and 4 caps | `RowUsable`, `ClosedCleanly`, `ValuesKeepSlots`, `TaskFindsTables` |
| `query_result` | 2 statements | a violation, section 6 |

Bounds and why they are enough. Two workers give `notify_one` a choice and make
`notify_all` differ from it; three tasks make the queue longer than the idle workers.
Two handles and two identities let one connection be closed and its handle be reused
while the other is in any state, and put two tasks into the pool; handles,
identities and workers are symmetric in that run (it checks no liveness). `Conns`
bounds the connections accepted in the life of the server: after that many,
`accept` finds nothing. One connection suffices for the liveness run, since
connections compete only for the mutex and the workers and every pass visits all
of them; two connections with liveness do not finish in reasonable time. Two
units for each part are the least that distinguish "nothing", "some" and "all the rest" of
a send.

In `lua_application` two requests put two tasks into the queue, or one behind another that runs,
and two workers run `process` for both at once. In `request_parser` the streams
have a delimiter cut at each of its places after other text, decoys of both delimiters, lengths that are
missing, empty, negative, followed by letters, repeated or behind a chunked header, the greatest an `int` holds (12
stands for it, shorter than the longest body), one more, and one below the least. In `request_handling`
four calls are what a complete response takes, a content of 0 or 1 byte shrinks and grows,
the second node replaces the first, and the routes include the two
kinds of key that can stand between a path and its match. In `sqlite_rows` three statements
let one be used while another is garbage and a third is finalized, the two shapes of a call give caps that do and do
not meet, and four slots are the most one task leaves, so that a third task
starts above two others (`MaxSlots` 8), also with their caps (`MaxCaps` 4) or those of queries in the queue. Frames
start low again after an exception while caps stay, so the number of caps needs a bound of its own.

`CHECK_DEADLOCK FALSE`: a destroyed pool, a destroyed server and an aborted
process have no next step, nor have an answered request and a stream that is used up. That threads do not block one another for ever is what the
liveness properties say.

### Fairness

- Steps of a thread inside its loop: weak fairness. The operating system runs every
  thread.
- Acquisitions of a mutex: strong fairness. `std::mutex` is not fair, but each loop
  releases it and yields, and the mutex is free again and again; the assumption
  is that a thread that keeps asking gets it in the end.
- `HandlerReturns`: weak (a `process` that was called returns); `HandlerFinishes`:
  strong (a handler that asks to be called again does so finitely often).
  The Lua handlers deserve the second: `LuaAnswers`.
- `Expire`: strong. Time passes; the action is disabled inside a close pass only
  because of how the model reads the clock.
- Lua: weak for `EnqueueProcess` (`run_handlers` visits every connection again and again), the steps of a worker
  inside `process` and the Lua thread's loop; strong for `CallProcess` (the pool is a FIFO, so
  a queued task is taken in the end although the model does not fix the order) and for the end of
  a task (an endpoint returns or fails in the end, also if it calls `server.route` many times).
- `RequestHandling`: weak for `Process`, which the pool calls again after false.
- `Accept`, reception and sending, `stop`, calls of `enqueue`, spurious wakeups and the
  destructor call: none.

## 4. Proofs

`ThreadPoolProofs`, for any sets of workers, submitters and tasks, from
`ThreadsAssumption` (the sets are disjoint, the null values are outside):

- `TypeCorrect`, `WakeupSafety`, `StopSafety`, `DrainSafety`: the type invariant and the three
  safety invariants of the run. None of the last three is inductive. `IInv` adds
  `MutexInv` (the mutex is held by the thread inside a critical section),
  `StopInv` (stop is set exactly from the destructor's critical section on; an exited worker
  saw the queue empty, and nothing enters it later), `HoldInv` (who holds a task)
  and `AccountInv` (a created task is offered, queued, running, finished or
  rejected). `DrainedOnDestruction` follows from `AccountInv` and `StopInv`: when
  the owner is past the joins, the first three places are empty.
- `PoolImplementsExecutor`: with at least one worker, `Spec => Executor!Spec`. It rests on
  `OnceInv` (a task is in one place only) for the guard of `Accept`, and on
  `StopInv` for `Release`.

`HttpServerProofs`, for any sets of handles, identities, workers and response sizes,
from `ServerAssumption` only:

- `TypeCorrect`, `PassSafety`, `SocketSafety`, `ReferenceSafety`, `ExclusiveHandlers`
  and `ListenerSafety`, from one invariant `IInv`, the conjunction of those properties with
  `Lifecycle` (which threads live in which phase of `run`) and `Unused` (an identity not yet
  accepted has no socket). They lean on one another, so none is inductive alone:
  erasing under a pass keeps `PassesExclude` only if the map entry is the
  context's own (`SocketsOwned`); `SocketsOwned` survives a reused handle by `Unused`; a task
  is queued once because a second `enqueue` needs a future that is "invalid",
  and `PoolTasksAlive` says it is "pending" while the task exists; the destruction of the map
  leaves `PoolTasksAlive` true because `Lifecycle` says the pool is empty by then. Steps that leave
  a part of the state alone are settled by the frame lemmas (`MapFrame`,
  `QueueFrame`, `PoolFrame`, `WorkerEndsFrame`).
- `ResponseSafety`: `ResponseInOrder` for parts of any size. `Progress` adds how much is on the wire in
  each state (`Len(wire) = sent` in the header, `header + sent` in the body), and
  `PieceInOrder` that one more piece keeps the order. It needs `PoolTasksAlive`: a
  handler that is still running cannot change a response that is being sent.
- `ServerImplementsConnection`: `Spec => ImplementsConnection`, the step refinement of `HttpConnection`
  for every connection. To the two invariants above it adds `Untouched` (a connection not yet accepted has
  nothing, one that is receiving has no future), without which a handler's result could be that of
  an earlier request. `PhaseTable` reads the phase off a context; `OneClient` says that a step on one context
  is nothing to the other clients, so that `ClientNext` has to look at one connection for each action;
  `OrderedPrefix` turns an ordered wire into the prefix that `Deliver` asks for.

`LuaServerApplicationProofs`, for any sets of requests and workers, from
`ApplicationAssumption` only:

- `TypeCorrect`, `LuaWakeupSafety`, `LuaReferenceSafety`, `OneTaskSafety` and
  `JoinSafety`, from one invariant `IInv`. It adds `LuaPhases` (which thread and queue exist in which
  phase of `main`) and `Calls` (a worker inside `process` has a request of its own, whose stage is
  "running", and what its future can be there). `OneTaskPerRequest` is the key to the
  references: since the future is pending exactly while the task is in the queue or
  runs (afterwards it has a result, an exception or a broken promise), `Poll` cannot make the request "answered" while it is there. Facts about the queue come from
  `QueueLemmas`; `QueueFrame` settles the steps that leave it alone.

`RequestHandlingProofs`, for any characters, paths, routes, files, contents and numbers of calls, from
`HandlingAssumption` and `SlashAssumption` only:

- `LookupFindsLongest` is about `RouteLookup` alone and is what `RouteSafety` rests on. The order on
  paths is total (`LessTotal`, by the first place where two differ), a key that matches is a prefix and so
  not above the path, and of two prefixes the shorter is below the longer; so the greatest key
  that is not above the path is at least as long as every other match.
- `CompleteWellFormed`: the chain of calls of every answer is allowed, call by call, over whatever was in the
  response before. With `Ordered` (what the serializer's flags say of the header written so far), which every call preserves,
  it gives `SerializerSafety` and `AnswerSafety`.
- `TypeCorrect` and `ReadSafety`. `FileInv` says that a handler that reads has an open reader;
  `ResponseInv`, the invariant, is `Ordered` with "nothing unread in the body".

`LuaStackProofs` and `SqliteRowsProofs`, for any statements, arguments, results and bound, from
`SqliteRowsAssumption` only:

- `TypeCorrect`; `RowSafety` and `ClosingSafety` from `RowInv`: the rows with a bridge are exactly those
  whose table can still be used, their statements are the live ones, and after the virtual machine there are none.
- `SlotSafety`: `ValuesKeepSlots`, which speaks of the time before the first query and before the first exception that
  passes through Lua, follows from `SlotInv`, which says where in the stack the tables of
  finished tasks are (`Left`: exactly where the queue has a cap, all of them under the
  running task). It rests on `SetGlobalMetatableRestores` and `TaskFrameTables` (a call with temporaries gives back all it used,
  if the caps are below it) and on `TaskEndCaps` (what the release of the two tables puts into the queue).
- `TableSafety`: `TaskFindsTables`, which speaks of every time, needs only `TypeOK` and `TaskFrameTables`.

`HttpRequestParserProofs`, for any alphabet, streams and cuts, from `ParserAssumption` only:

- `SplitSafety`. `FindsFirstEnd` says that a search that starts three characters back finds the first
  delimiter if there was none before; the invariant `Split` states the split without `Min`.
- `TypeSafety`, `MessageSafety` and `UriSafety`, from `Split` and `Interpreted`: once the header is complete, the
  request is what the functions of the parser make of the header's text, and the answer of `parse`
  compares the body with the length. What is left are facts about those functions, for texts of any length:
  - `ChainSolved`: a loop that goes from a position to a later one defines a function, so that `QueryLoop` and
    `FieldsLoop` may unfold `ParseQuery` and `ParseHeaderFields` once.
  - `QueryIsDictionary`: the loop over the pairs leaves what `Dictionary` says without a loop, the last pair of
    each name. `UriSplit` and `LineSplit` do the same for the cuts of the address and of the request line.
  - `LengthsFrom`: the loop over the lines leaves the length of the last `Content-Length` line of the
    header, in the terms of `AnnouncedLength`. `OneSize`: `from_chars` gives at most one number, and none outside `Ints`.
  - `Downwards` is the induction under them, over a set of positions and not over an operator: the last
    position outside the set would be a counterexample with all later ones inside. That is why the loops,
    although recursive, are within reach here.

  The model writes the dictionaries with `Entry` and `Updated`, since the provers know nothing of the `:>` and `@@` of
  the module TLC.

Only model-checked: liveness (`DestructorReturns`, `StopReturns` and the other properties of the form "in
the end": fairness and ENABLED are beyond the prover) and the fairness half of `ImplementsExecutor`. Every
invariant and every action property of a passing run is a theorem. The violations of section 6 are TLC's counterexamples.

## 5. What the fixed code relies on

Facts the checks make visible and a change could break silently:

- `TimedOut` spares `RUNNING_HANDLER`: that one test is what keeps the pool's
  references valid (`PoolTasksAlive`).
- `thread_pool` is declared after `connections`, so it is destroyed first, and its
  destructor drains: handlers still queued at shutdown run against live contexts.
- The socket is closed and its entry erased under one lock; otherwise the system could hand
  out the handle again and `emplace` would drop the new connection.
- The guard that closes the listener is declared before the joins.
- `task_started` alone keeps a retried `process` from a second task on the same response.
- `main` destroys the Lua application before the server's map. It is the wrong way round for handlers that
  are still queued (`dead_application`), but it is why a Lua task that runs while `main` stops still has
  its request and response (`LuaReferencesAlive`).
- `database_ptr` and `database_row_bridges` are declared before `virtual_machine`: the collector's
  hooks run when the virtual machine goes, and need both (`RowUsable`, `ClosedCleanly`).
- The constructor of `Serializer` clears the body: without that the 500 of a failed script
  would carry the script's leftovers (`AnswersWellFormed`).
- The two tables of a task are created before anything else, in one frame, and released after the call: as
  long as no query has run and no exception has passed through Lua, every cap in the queue is below the slots in use
  (`ValuesKeepSlots`). A task whose frame reaches every cap is right at any time (`TaskFindsTables`).

And facts that are as the code has them:

- The lookup of a route looks at one key. It finds the longest match or nothing: with `/users/` and
  `/users/3` registered, `/users/5` finds no endpoint, because `/users/3` stands in between.
- The end of a chunked body depends on the cuts; a comment there calls it a stopgap.
- A task that ends with anything but `lua::RuntimeError` (an exception that passes through Lua) leaves it in
  `execution_future`, whose result nobody asks for: `process` returns true with whatever the script had written. It
  also leaves the virtual machine in the frame of the function that threw (`Throw`); after two of them, with a whole task in
  between, a task can find a cap above its frame, lose a table and abort.
- Every request leaves slots on the Lua stack: the endpoint and what it returned, which have no queue, and
  the two tables, which are under them and wait in the queue for a pop that never reaches them. The stack has a limit
  (a million slots by default), and the push that exceeds it is not protected.
- After a query with one argument, a task whose predecessor returned a value can lose a table before
  the unprotected `setmetatable`, and the process aborts (`aborted`, reachable in `sqlite_rows`).
- `advance` after the end of a result begins it again.
- A script may write fields after the end of the header, end it twice or never.
- `get_header` compares names exactly, although `HttpMessage.hpp:69` calls them case-insensitive:
  `content-length: 2` is not seen and the body is not waited for. `MessageRecognised` speaks of the exact name.
- A length that an `int` cannot hold is treated as an invalid one.
- A body after an invalid length is not waited for, but what came in the chunk of the header stays in
  the body, although `HttpRequest.cpp:72` says that it is discarded.

## 6. Findings

- `lost_stop`: `run` sets `running = true` after `listen` without looking at it.
  A termination request between `SignalHandler::handle` and that assignment is
  lost and `run` never returns, against `SignalHandler.hpp:20-21`. Requests that arrive
  later are honoured (`StopReturns`).
- `throwing_handler`: what `process` throws is rethrown by `handler_future.get()`
  on the main thread, `run` unwinds past two joinable threads and the process
  ends; so does an exception of `create_handler` on the data thread, against
  `StaticFileServer.hpp:53-54`.
- `route_race`: `create_handler` reads `endpoints` on the data thread while an endpoint that calls
  `server.route` changes the same map on the Lua thread, against `main.cpp:23`.
- `dead_application`: a handler still queued when `run` returns is run by the destructor of the pool,
  after the destructor of the Lua application it calls, against `LuaServerApplication.hpp:108`.
- `query_result`: `Functor::call` pushes a copy of the table `db.query` returns and then destroys the value, whose cap
  therefore stays in the dealloc queue when the frame of the call has gone. The next query with as many slots finds it,
  pops its own row table with the temporaries and returns another slot, so that `row:advance()` fails, against
  `examples/lua-server/main.lua:42-44`. A second query of the same shape in one script is enough.

## 7. Plan

Written in this order: the pool, the server, their proofs, the Lua application and its proofs, the
four modules about messages, handlers and rows, then the Lua stack and the proofs about those
four, and last the refinement of `HttpConnection` and the rest of the parser as theorems. What could still be added:

1. The server and the Lua application over the same requests, with the pool between them, in
   place of the reduced server.
2. A pool without workers (`hardware_concurrency()` of 0) under the server.
3. The places of the slots are proved until the first query or exception; which sequences of calls lose a slot afterwards is
   left to the runs.

### Not modelled

- `lua.h`, `lauxlib.h`, `luaconf.h`, `sqlite3.h`, `sqlite3ext.h`: declarations and comments of two libraries whose
  code is not in the repository. They are most of its lines and have no behaviour of their own; what
  the program uses of them is modelled where it is used and marked external.
- The rest of luastate: conversions, type checks, coroutines and the exception classes read or convert one value and
  keep no state the properties could tell apart.
- Ownership of `Socket`: every socket of the program is moved once, into its context; `HttpServer` has that as one
  step. The pointer of `SignalHandler` after the end of `main`: what a signal does then is outside the life of the server.
- The path guard of `StaticFileServer`: it compares what `std::filesystem` returns, so the model has the
  result as a constant (`FileOf`).
- Addresses and ports (conversions), UDP sockets (unused by the program), `NetworkSetup` (one call), MIME types (a
  constant table), `LuaTypeAdapter` (conversions), the example script (data).
- A script that keeps the response table of a request that is over: what it stores in Lua variables is not in the model.
