----------------------------- MODULE HttpServer -----------------------------
(***************************************************************************)
(* argb::HttpServer (network-library/code/sources/HttpServer.cpp,          *)
(* headers/HttpServer.hpp): the connection map and the threads that share  *)
(* it under connections_mutex.                                             *)
(*                                                                         *)
(*   main        run: run_handlers, then the joins and the destructor      *)
(*   connection  connection_management_loop: accept, then the close pass   *)
(*   data        data_transfer_loop: receive requests, send responses      *)
(*   the workers of thread_pool, which run HttpRequestHandler::process     *)
(*               without the mutex, through a reference into the map       *)
(*                                                                         *)
(* A pass over the map is the acquisition of the mutex, one step per       *)
(* connection and the release, so that the threads that do not need the    *)
(* mutex (workers, signals, time) interleave with the inside of a pass.    *)
(* The pool is used as module TaskExecutor specifies it: a FIFO queue and  *)
(* what each worker runs.  Sockets are nonblocking: what the network does  *)
(* is a choice made in the step that calls it.                             *)
(***************************************************************************)
EXTENDS Naturals, Sequences

CONSTANTS
  Handles,      \* socket handles of the operating system, which reuses them
  Conns,        \* identities of the contexts: bounds the connections accepted
  Workers,      \* threads of thread_pool: hardware_concurrency() of them
  HeaderSizes,  \* serialized header of a response, in units one send may split
  BodySizes,    \* body of a response, in the same units
  HandlersMayThrow,  \* create_handler and process may throw
  NoHandle,
  NoConn

ASSUME ServerAssumption ==
  /\ HeaderSizes \subseteq Nat
  /\ BodySizes \subseteq Nat
  /\ HandlersMayThrow \in BOOLEAN
  /\ NoHandle \notin Handles
  /\ NoConn \notin Conns

VARIABLES
  running,      \* the atomic the loops test and stop() clears
  listening,    \* listener holds an open listening socket
  connections_mutex,  \* the thread that holds it, or "free"
  main_pc,
  conn_pc,
  data_pc,
  todo,         \* contexts the pass in progress has not reached yet
  connections,  \* the map: the context under each handle, or NoConn
  context,      \* the ConnectionContext of each identity
  arriving,     \* the local `context` of accept_connections, or NoConn
  pool_queue,   \* tasks thread_pool has not started: each is a &context
  worker_conn,  \* the context whose handler each worker runs, or NoConn
  accepted,     \* history: identities already used
  stop_requested,  \* history: stop() has been called
  aborted       \* std::terminate has ended the process

mutex_vars   == <<connections_mutex, todo>>
control_vars == <<running, listening, main_pc, conn_pc, data_pc>>
map_vars     == <<connections, arriving, accepted>>
pool_vars    == <<pool_queue, worker_conn>>
history_vars == <<stop_requested, aborted>>

vars == <<mutex_vars, control_vars, map_vars, context, pool_vars, history_vars>>

States == {"RECEIVING_REQUEST", "RUNNING_HANDLER", "WRITING_RESPONSE_HEADER",
           "WRITING_RESPONSE_BODY", "CLOSED"}

\* handler_future: no shared state, not ready, or what get() would do.
Futures == {"invalid", "pending", "finished", "again", "threw"}

\* History: why the server gave the connection up.
Endings == {"none", "answered", "peer_closed", "failed", "timeout"}

Sizes == [header : HeaderSizes \cup {0}, body : BodySizes \cup {0}]

\* A unit of a serialized response: which part and which position in it.
Units == {"header", "body"} \X Nat

\* `expired` is now() - last_activity > connection_timeout, `sent` is
\* response_bytes_sent.  History: `wire`, what the socket has taken of the
\* response; `ending`.
Contexts ==
  [socket : Handles \cup {NoHandle}, state : States, expired : BOOLEAN,
   handler : BOOLEAN, future : Futures, response : Sizes, sent : Nat,
   wire : Seq(Units), ending : Endings]

\* Mutant: the constructor leaves state uninitialized.
NewContext_NoState(h) ==
  [socket |-> h, state |-> "?", expired |-> FALSE, handler |-> FALSE,
   future |-> "invalid", response |-> [header |-> 0, body |-> 0], sent |-> 0,
   wire |-> <<>>, ending |-> "none"]

NewContext(h) ==
  [socket |-> h, state |-> "RECEIVING_REQUEST", expired |-> FALSE,
   handler |-> FALSE, future |-> "invalid",
   response |-> [header |-> 0, body |-> 0], sent |-> 0,
   wire |-> <<>>, ending |-> "none"]

Live == {connections[h] : h \in Handles} \ {NoConn}

OpenHandles == {context[c].socket : c \in Conns} \ {NoHandle}

Queued  == {pool_queue[i] : i \in 1 .. Len(pool_queue)}
Running == {worker_conn[w] : w \in Workers} \ {NoConn}

Init ==
  /\ running = FALSE
  /\ listening = FALSE
  /\ connections_mutex = "free"
  /\ main_pc = "listen"
  /\ conn_pc = "ended"
  /\ data_pc = "ended"
  /\ todo = {}
  /\ connections = [h \in Handles |-> NoConn]
  /\ context = [c \in Conns |-> NewContext(NoHandle)]
  /\ arriving = NoConn
  /\ pool_queue = <<>>
  /\ worker_conn = [w \in Workers |-> NoConn]
  /\ accepted = {}
  /\ stop_requested = FALSE
  /\ aborted = FALSE

-----------------------------------------------------------------------------
(* Passes over the map: lock_guard, one visit per connection, release *)

\* Mutant: no lock_guard.
Lock_Unguarded(thread) ==
  /\ connections_mutex' = thread
  /\ todo' = Live

Lock(thread) ==
  /\ connections_mutex = "free"
  /\ connections_mutex' = thread
  /\ todo' = Live

Unlock(thread) ==
  /\ connections_mutex = thread
  /\ todo = {}
  /\ connections_mutex' = "free"
  /\ UNCHANGED todo

\* The thread holds the mutex and reaches c.
Visit(thread, c) ==
  /\ connections_mutex = thread
  /\ c \in todo
  /\ todo' = todo \ {c}
  /\ UNCHANGED connections_mutex

-----------------------------------------------------------------------------
(* run, stop and ~HttpServer *)

\* listener.listen either throws, and run with it, or opens the listener.
Listen ==
  /\ main_pc = "listen"
  /\ \/ main_pc' = "start" /\ listening' = TRUE
     \/ main_pc' = "returned" /\ UNCHANGED listening
  /\ UNCHANGED <<mutex_vars, map_vars, context, pool_vars, history_vars,
                 running, conn_pc, data_pc>>

\* running = true, whatever it was, and the two threads are created.
StartThreads ==
  /\ main_pc = "start"
  /\ running' = TRUE
  /\ main_pc' = "loop"
  /\ conn_pc' = "loop"
  /\ data_pc' = "loop"
  /\ UNCHANGED <<mutex_vars, map_vars, context, pool_vars, history_vars,
                 listening>>

MainTest ==
  /\ main_pc = "loop"
  /\ main_pc' = IF running THEN "lock" ELSE "join"
  /\ UNCHANGED <<mutex_vars, map_vars, context, pool_vars, history_vars,
                 running, listening, conn_pc, data_pc>>

\* Mutant: run closes the listener before it joins the connection thread.
JoinThreads_CloseFirst ==
  /\ main_pc = "join"
  /\ data_pc = "ended"
  /\ main_pc' = "returned"
  /\ listening' = FALSE
  /\ UNCHANGED <<mutex_vars, map_vars, context, pool_vars, history_vars,
                 running, conn_pc, data_pc>>

\* Both joins return, then ~ListenerScopeGuard closes the listener.
JoinThreads ==
  /\ main_pc = "join"
  /\ conn_pc = "ended"
  /\ data_pc = "ended"
  /\ main_pc' = "returned"
  /\ listening' = FALSE
  /\ UNCHANGED <<mutex_vars, map_vars, context, pool_vars, history_vars,
                 running, conn_pc, data_pc>>

\* ~ThreadPool drains the queue (ThreadPool!DrainedOnDestruction); a pool
\* without threads has nobody to drain it and drops its tasks.
PoolDrained == Workers # {} => pool_queue = <<>> /\ Running = {}

\* thread_pool is declared after connections, so it is destroyed before.
DestroyPool ==
  /\ main_pc = "returned"
  /\ PoolDrained
  /\ main_pc' = "pool_destroyed"
  /\ pool_queue' = <<>>
  /\ UNCHANGED <<mutex_vars, map_vars, context, worker_conn, history_vars,
                 running, listening, conn_pc, data_pc>>

\* The map goes last; ~Socket closes what it still holds.
DestroyConnections ==
  /\ main_pc = "pool_destroyed"
  /\ main_pc' = "destroyed"
  /\ connections' = [h \in Handles |-> NoConn]
  /\ context' = [c \in Conns |-> [context[c] EXCEPT !.socket = NoHandle]]
  /\ UNCHANGED <<mutex_vars, pool_vars, history_vars, arriving, accepted,
                 running, listening, conn_pc, data_pc>>

\* stop(), from a signal or control handler, at any time after
\* SignalHandler::handle and so possibly before run.
Stop ==
  /\ main_pc # "destroyed"
  /\ running' = FALSE
  /\ stop_requested' = TRUE
  /\ UNCHANGED <<mutex_vars, map_vars, context, pool_vars, aborted,
                 listening, main_pc, conn_pc, data_pc>>

-----------------------------------------------------------------------------
(* run_handlers *)

MainLock ==
  /\ main_pc = "lock"
  /\ Lock("main")
  /\ main_pc' = "visit"
  /\ UNCHANGED <<map_vars, context, pool_vars, history_vars, running,
                 listening, conn_pc, data_pc>>

MainUnlock ==
  /\ main_pc = "visit"
  /\ Unlock("main")
  /\ main_pc' = "loop"
  /\ UNCHANGED <<map_vars, context, pool_vars, history_vars, running,
                 listening, conn_pc, data_pc>>

HasHandler(c) ==
  context[c].state = "RUNNING_HANDLER" /\ context[c].handler

\* Mutant: process is enqueued again whether or not a future is outstanding.
EnqueueHandler_Always(c) ==
  /\ Visit("main", c)
  /\ HasHandler(c)
  /\ pool_queue' = Append(pool_queue, c)
  /\ context' = [context EXCEPT ![c].future = "pending"]
  /\ UNCHANGED <<control_vars, map_vars, worker_conn, history_vars>>

\* handler_future = thread_pool.enqueue([&context] { ... process ... })
EnqueueHandler(c) ==
  /\ Visit("main", c)
  /\ HasHandler(c)
  /\ context[c].future = "invalid"
  /\ pool_queue' = Append(pool_queue, c)
  /\ context' = [context EXCEPT ![c].future = "pending"]
  /\ UNCHANGED <<control_vars, map_vars, worker_conn, history_vars>>

\* Mutant: the result of process is ignored.
CollectResult_Ignored(c) ==
  /\ Visit("main", c)
  /\ HasHandler(c)
  /\ context[c].future \in {"finished", "again"}
  /\ context' = [context EXCEPT ![c].future = "invalid",
                                ![c].state = "WRITING_RESPONSE_HEADER"]
  /\ UNCHANGED <<control_vars, map_vars, pool_vars, history_vars>>

\* Mutant: the future keeps its result and process is not called again.
CollectResult_Kept(c) ==
  /\ Visit("main", c)
  /\ HasHandler(c)
  /\ context[c].future \in {"finished", "again"}
  /\ context' = [context EXCEPT
       ![c].state = IF context[c].future = "finished"
                      THEN "WRITING_RESPONSE_HEADER" ELSE @]
  /\ UNCHANGED <<control_vars, map_vars, pool_vars, history_vars>>

\* handler_future.get() of a process that returned: the future is consumed,
\* and last_activity is not touched.
CollectResult(c) ==
  /\ Visit("main", c)
  /\ HasHandler(c)
  /\ context[c].future \in {"finished", "again"}
  /\ context' = [context EXCEPT
       ![c].future = "invalid",
       ![c].state = IF context[c].future = "finished"
                      THEN "WRITING_RESPONSE_HEADER" ELSE @]
  /\ UNCHANGED <<control_vars, map_vars, pool_vars, history_vars>>

\* get() rethrows what process threw: run unwinds with two joinable threads
\* and std::terminate ends the process.
CollectException(c) ==
  /\ Visit("main", c)
  /\ HasHandler(c)
  /\ context[c].future = "threw"
  /\ aborted' = TRUE
  /\ UNCHANGED <<control_vars, map_vars, context, pool_vars, stop_requested>>

NothingToRun(c) ==
  /\ Visit("main", c)
  /\ HasHandler(c) => context[c].future = "pending"
  /\ UNCHANGED <<control_vars, map_vars, context, pool_vars, history_vars>>

RunHandlersVisit(c) ==
  EnqueueHandler(c) \/ CollectResult(c) \/ CollectException(c) \/ NothingToRun(c)

-----------------------------------------------------------------------------
(* thread_pool *)

WorkerStart(w) ==
  /\ worker_conn[w] = NoConn
  /\ pool_queue # <<>>
  /\ worker_conn' = [worker_conn EXCEPT ![w] = Head(pool_queue)]
  /\ pool_queue' = Tail(pool_queue)
  /\ UNCHANGED <<mutex_vars, control_vars, map_vars, context, history_vars>>

WorkerEnds(w, c) ==
  /\ c = worker_conn[w]
  /\ c # NoConn
  /\ worker_conn' = [worker_conn EXCEPT ![w] = NoConn]
  /\ UNCHANGED <<mutex_vars, control_vars, map_vars, pool_queue, history_vars>>

\* process returned true: the response is complete.
HandlerFinishes(w, c) ==
  /\ WorkerEnds(w, c)
  /\ \E h \in HeaderSizes, b \in BodySizes :
       context' = [context EXCEPT ![c].future = "finished",
                                  ![c].response = [header |-> h, body |-> b]]

\* process returned false: it asks to be called again.
HandlerAsksAgain(w, c) ==
  /\ WorkerEnds(w, c)
  /\ context' = [context EXCEPT ![c].future = "again"]

HandlerThrows(w, c) ==
  /\ HandlersMayThrow
  /\ WorkerEnds(w, c)
  /\ context' = [context EXCEPT ![c].future = "threw"]

-----------------------------------------------------------------------------
(* connection_management_loop: accept_connections *)

\* Mutant: the loop does not test running.
ConnectionTest_Forever ==
  /\ conn_pc = "loop"
  /\ conn_pc' = "accept"
  /\ UNCHANGED <<mutex_vars, map_vars, context, pool_vars, history_vars,
                 running, listening, main_pc, data_pc>>

ConnectionTest ==
  /\ conn_pc = "loop"
  /\ conn_pc' = IF running THEN "accept" ELSE "ended"
  /\ UNCHANGED <<mutex_vars, map_vars, context, pool_vars, history_vars,
                 running, listening, main_pc, data_pc>>

\* accept returns a socket: a handle nobody has open.
Accept(h, c) ==
  /\ conn_pc = "accept"
  /\ listening
  /\ h \notin OpenHandles
  /\ c \notin accepted
  /\ context' = [context EXCEPT ![c] = NewContext(h)]
  /\ arriving' = c
  /\ accepted' = accepted \cup {c}
  /\ conn_pc' = "emplace"
  /\ UNCHANGED <<mutex_vars, pool_vars, history_vars, connections, running,
                 listening, main_pc, data_pc>>

\* accept returns nothing, or an exception of accept or set_blocking (whose
\* socket the unwinding closes) is caught and reported.
AcceptNothing ==
  /\ conn_pc = "accept"
  /\ conn_pc' = "close"
  /\ UNCHANGED <<mutex_vars, map_vars, context, pool_vars, history_vars,
                 running, listening, main_pc, data_pc>>

\* connections.emplace under the mutex: an existing key keeps its context,
\* and the new one is destroyed with its socket.
Emplace ==
  /\ conn_pc = "emplace"
  /\ connections_mutex = "free"
  /\ LET h == context[arriving].socket IN
       /\ connections' = [connections EXCEPT
                            ![h] = IF @ = NoConn THEN arriving ELSE @]
       /\ context' = [context EXCEPT
                        ![arriving].socket = IF connections[h] = NoConn
                                               THEN @ ELSE NoHandle]
  /\ arriving' = NoConn
  /\ conn_pc' = "accept"
  /\ UNCHANGED <<mutex_vars, pool_vars, history_vars, accepted, running,
                 listening, main_pc, data_pc>>

-----------------------------------------------------------------------------
(* connection_management_loop: close_inactive_connections *)

CloseLock ==
  /\ conn_pc = "close"
  /\ Lock("connection")
  /\ conn_pc' = "closing"
  /\ UNCHANGED <<map_vars, context, pool_vars, history_vars, running,
                 listening, main_pc, data_pc>>

CloseUnlock ==
  /\ conn_pc = "closing"
  /\ Unlock("connection")
  /\ conn_pc' = "loop"
  /\ UNCHANGED <<map_vars, context, pool_vars, history_vars, running,
                 listening, main_pc, data_pc>>

\* Mutant: the timeout does not spare a connection whose handler runs.
TimedOut_AnyState(c) == context[c].state # "CLOSED" /\ context[c].expired

\* Mutant: only a request can time out.
TimedOut_Receiving(c) ==
  context[c].state = "RECEIVING_REQUEST" /\ context[c].expired

TimedOut(c) ==
  /\ context[c].state \notin {"CLOSED", "RUNNING_HANDLER"}
  /\ context[c].expired

\* Mutant: the socket is closed and its entry stays in the map.
CloseAndErase_NoErase(c) ==
  /\ Visit("connection", c)
  /\ context[c].state = "CLOSED" \/ TimedOut(c)
  /\ context' = [context EXCEPT
       ![c].socket = NoHandle,
       ![c].ending = IF context[c].state = "CLOSED" THEN @ ELSE "timeout"]
  /\ UNCHANGED <<control_vars, map_vars, pool_vars, history_vars>>

\* context.socket.close(), then connections.erase.
CloseAndErase(c) ==
  /\ Visit("connection", c)
  /\ context[c].state = "CLOSED" \/ TimedOut(c)
  /\ connections' = [connections EXCEPT ![context[c].socket] = NoConn]
  /\ context' = [context EXCEPT
       ![c].socket = NoHandle,
       ![c].ending = IF context[c].state = "CLOSED" THEN @ ELSE "timeout"]
  /\ UNCHANGED <<control_vars, pool_vars, history_vars, arriving, accepted>>

KeepConnection(c) ==
  /\ Visit("connection", c)
  /\ context[c].state # "CLOSED"
  /\ ~TimedOut(c)
  /\ UNCHANGED <<control_vars, map_vars, context, pool_vars, history_vars>>

CloseInactiveVisit(c) == CloseAndErase(c) \/ KeepConnection(c)

\* connection_timeout passes without activity on c.  The close pass compares
\* with the time at which it began.
Expire(c) ==
  /\ c \in Live
  /\ conn_pc # "closing"
  /\ ~context[c].expired
  /\ context' = [context EXCEPT ![c].expired = TRUE]
  /\ UNCHANGED <<mutex_vars, control_vars, map_vars, pool_vars, history_vars>>

-----------------------------------------------------------------------------
(* data_transfer_loop: transfer_data *)

DataTest ==
  /\ data_pc = "loop"
  /\ data_pc' = IF running THEN "lock" ELSE "ended"
  /\ UNCHANGED <<mutex_vars, map_vars, context, pool_vars, history_vars,
                 running, listening, main_pc, conn_pc>>

DataLock ==
  /\ data_pc = "lock"
  /\ Lock("data")
  /\ data_pc' = "visit"
  /\ UNCHANGED <<map_vars, context, pool_vars, history_vars, running,
                 listening, main_pc, conn_pc>>

DataUnlock ==
  /\ data_pc = "visit"
  /\ Unlock("data")
  /\ data_pc' = "loop"
  /\ UNCHANGED <<map_vars, context, pool_vars, history_vars, running,
                 listening, main_pc, conn_pc>>

\* The part of a data visit every outcome shares.
DataVisit(c, from) ==
  /\ Visit("data", c)
  /\ context[c].state \in from
  /\ UNCHANGED <<control_vars, map_vars, pool_vars, stop_requested>>

\* receive: nothing to read.
ReceiveEmpty(c) ==
  /\ DataVisit(c, {"RECEIVING_REQUEST"})
  /\ UNCHANGED <<context, aborted>>

ReceiveClosed(c) ==
  /\ DataVisit(c, {"RECEIVING_REQUEST"})
  /\ context' = [context EXCEPT ![c].state = "CLOSED",
                                ![c].ending = "peer_closed"]
  /\ UNCHANGED aborted

\* The parser needs more.
ReceivePart(c) ==
  /\ DataVisit(c, {"RECEIVING_REQUEST"})
  /\ context' = [context EXCEPT ![c].expired = FALSE]
  /\ UNCHANGED aborted

\* The request is complete and a factory has a handler for it.
ReceiveRequest(c) ==
  /\ DataVisit(c, {"RECEIVING_REQUEST"})
  /\ context' = [context EXCEPT ![c].state = "RUNNING_HANDLER",
                                ![c].handler = TRUE,
                                ![c].expired = FALSE]
  /\ UNCHANGED aborted

\* No factory has one: the 404 response is serialized at once.
ReceiveUnknown(c) ==
  /\ DataVisit(c, {"RECEIVING_REQUEST"})
  /\ \E h \in HeaderSizes, b \in BodySizes :
       context' = [context EXCEPT
         ![c].state = "WRITING_RESPONSE_HEADER",
         ![c].response = [header |-> h, body |-> b],
         ![c].expired = FALSE]
  /\ UNCHANGED aborted

\* create_handler throws something other than a NetworkException: nothing on
\* the data thread catches it.
CreateHandlerThrows(c) ==
  /\ HandlersMayThrow
  /\ DataVisit(c, {"RECEIVING_REQUEST"})
  /\ aborted' = TRUE
  /\ UNCHANGED context

\* The units that follow the first `sent` ones of a part.
NextUnits(part, sent, n) == [i \in 1 .. n |-> <<part, sent + i>>]

\* Mutant: response_bytes_sent is not reset between header and body.
HeaderSent_NoReset(c, n) ==
  LET sent == context[c].sent
      done == sent + n = context[c].response.header
  IN
  /\ DataVisit(c, {"WRITING_RESPONSE_HEADER"})
  /\ context' = [context EXCEPT
       ![c].wire = @ \o NextUnits("header", sent, n),
       ![c].sent = sent + n,
       ![c].state = IF done THEN "WRITING_RESPONSE_BODY" ELSE @,
       ![c].expired = @ /\ n = 0]
  /\ UNCHANGED aborted

\* The socket takes n of the units that remain, possibly none.
HeaderSent(c, n) ==
  LET sent == context[c].sent
      done == sent + n = context[c].response.header
  IN
  /\ DataVisit(c, {"WRITING_RESPONSE_HEADER"})
  /\ context' = [context EXCEPT
       ![c].wire = @ \o NextUnits("header", sent, n),
       ![c].sent = IF done THEN 0 ELSE sent + n,
       ![c].state = IF done THEN "WRITING_RESPONSE_BODY" ELSE @,
       ![c].expired = @ /\ n = 0]
  /\ UNCHANGED aborted

WriteHeader(c) ==
  \E n \in 0 .. context[c].response.header - context[c].sent : HeaderSent(c, n)

BodySent(c, n) ==
  LET sent == context[c].sent
      done == sent + n = context[c].response.body
  IN
  /\ DataVisit(c, {"WRITING_RESPONSE_BODY"})
  /\ context' = [context EXCEPT
       ![c].wire = @ \o NextUnits("body", sent, n),
       ![c].sent = sent + n,
       ![c].state = IF done THEN "CLOSED" ELSE @,
       ![c].ending = IF done THEN "answered" ELSE @,
       ![c].expired = @ /\ n = 0]
  /\ UNCHANGED aborted

\* An empty body is not sent; it ends the connection all the same.
WriteBody(c) ==
  \E n \in 0 .. context[c].response.body - context[c].sent : BodySent(c, n)

\* receive or send throws a NetworkException.
TransferFails(c) ==
  /\ DataVisit(c, {"RECEIVING_REQUEST", "WRITING_RESPONSE_HEADER",
                   "WRITING_RESPONSE_BODY"})
  /\ context[c].state = "WRITING_RESPONSE_BODY" => context[c].response.body # 0
  /\ context' = [context EXCEPT ![c].state = "CLOSED", ![c].ending = "failed"]
  /\ UNCHANGED aborted

NothingToTransfer(c) ==
  /\ DataVisit(c, {"RUNNING_HANDLER", "CLOSED"})
  /\ UNCHANGED <<context, aborted>>

TransferVisit(c) ==
  \/ ReceiveEmpty(c) \/ ReceiveClosed(c) \/ ReceivePart(c)
  \/ ReceiveRequest(c) \/ ReceiveUnknown(c) \/ CreateHandlerThrows(c)
  \/ WriteHeader(c) \/ WriteBody(c)
  \/ TransferFails(c)
  \/ NothingToTransfer(c)

-----------------------------------------------------------------------------

MainStep ==
  \/ Listen \/ StartThreads \/ MainTest \/ MainUnlock \/ JoinThreads
  \/ DestroyPool \/ DestroyConnections
  \/ \E c \in Conns : RunHandlersVisit(c)

ConnectionStep ==
  \/ ConnectionTest \/ AcceptNothing \/ CloseUnlock
  \/ \E h \in Handles, c \in Conns : Accept(h, c)
  \/ \E c \in Conns : CloseInactiveVisit(c)

DataStep ==
  \/ DataTest \/ DataUnlock
  \/ \E c \in Conns : TransferVisit(c)

HandlerReturns(w) ==
  \E c \in Conns :
    HandlerFinishes(w, c) \/ HandlerAsksAgain(w, c) \/ HandlerThrows(w, c)

Next ==
  /\ ~aborted
  /\ \/ MainStep \/ MainLock
     \/ ConnectionStep \/ CloseLock \/ Emplace
     \/ DataStep \/ DataLock
     \/ \E w \in Workers : WorkerStart(w) \/ HandlerReturns(w)
     \/ \E c \in Conns : Expire(c)
     \/ Stop

Spec == Init /\ [][Next]_vars

\* The threads run (WF) and get the mutex in the end when it is released
\* again and again (SF): each loop releases it and yields.  A process that is
\* called returns, and one that asks again and again finishes in the end.
\* Time passes, whatever pass is in progress (SF).  The network owes nothing,
\* and nobody has to call stop.
Fairness ==
  /\ WF_vars(MainStep) /\ SF_vars(MainLock)
  /\ WF_vars(ConnectionStep) /\ SF_vars(CloseLock) /\ SF_vars(Emplace)
  /\ WF_vars(DataStep) /\ SF_vars(DataLock)
  /\ \A w \in Workers : WF_vars(WorkerStart(w)) /\ WF_vars(HandlerReturns(w))
  /\ \A c \in Conns :
       /\ SF_vars(\E w \in Workers : HandlerFinishes(w, c))
       /\ SF_vars(Expire(c))

FairSpec == Spec /\ Fairness

-----------------------------------------------------------------------------
(* Properties *)

\* What the threads, the map, the contexts and the pool hold.
TypeOK ==
  /\ running \in BOOLEAN
  /\ listening \in BOOLEAN
  /\ connections_mutex \in {"free", "main", "connection", "data"}
  /\ main_pc \in {"listen", "start", "loop", "lock", "visit", "join",
                  "returned", "pool_destroyed", "destroyed"}
  /\ conn_pc \in {"ended", "loop", "accept", "emplace", "close", "closing"}
  /\ data_pc \in {"ended", "loop", "lock", "visit"}
  /\ todo \subseteq Conns
  /\ connections \in [Handles -> Conns \cup {NoConn}]
  /\ context \in [Conns -> Contexts]
  /\ arriving \in Conns \cup {NoConn}
  /\ pool_queue \in Seq(Conns)
  /\ worker_conn \in [Workers -> Conns \cup {NoConn}]
  /\ accepted \subseteq Conns
  /\ stop_requested \in BOOLEAN
  /\ aborted \in BOOLEAN

\* The map is walked by one thread at a time, and the nodes a pass still has
\* to reach are in the map: no iterator is invalidated under it.
PassesExclude ==
  /\ (main_pc = "visit") <=> (connections_mutex = "main")
  /\ (conn_pc = "closing") <=> (connections_mutex = "connection")
  /\ (data_pc = "visit") <=> (connections_mutex = "data")
  /\ todo \subseteq Live
  /\ connections_mutex = "free" => todo = {}

\* Every open socket belongs to exactly one context, the one in the map under
\* its handle or the one accept_connections is about to put there: a handle
\* the system reuses never meets an old entry, and no socket is leaked.
SocketsOwned ==
  /\ \A h \in Handles, c \in Conns :
       connections[h] = c <=> context[c].socket = h /\ c # arriving
  /\ arriving # NoConn =>
       /\ context[arriving].socket \in Handles
       /\ connections[context[arriving].socket] = NoConn
       /\ conn_pc = "emplace"

\* The reference a pool task captured is good for as long as the task may use
\* it, through timeouts, stop and destruction, and the threads that walk the
\* map leave its request, response and handler alone meanwhile: the context
\* is in the map in state RUNNING_HANDLER with its future not ready.
PoolTasksAlive ==
  \A c \in Queued \cup Running :
    /\ c \in Live
    /\ context[c].state = "RUNNING_HANDLER"
    /\ context[c].future = "pending"

\* No two workers are inside process for one connection, now or later.
OneTaskPerConnection ==
  /\ \A i, j \in 1 .. Len(pool_queue) : pool_queue[i] = pool_queue[j] => i = j
  /\ \A v, w \in Workers :
       worker_conn[v] = worker_conn[w] /\ worker_conn[v] # NoConn => v = w
  /\ Queued \cap Running = {}

\* The units of both parts of a response in the order in which they belong on
\* the wire.
ResponseUnits(r) ==
  [i \in 1 .. r.header + r.body |->
     IF i <= r.header THEN <<"header", i>> ELSE <<"body", i - r.header>>]

\* What has been sent is a prefix of the response across partial sends and
\* the reset of response_bytes_sent, and all of it when the server closes
\* because it is done.
ResponseInOrder ==
  \A c \in Conns :
    LET wire == context[c].wire
        whole == ResponseUnits(context[c].response)
    IN
    /\ Len(wire) <= Len(whole)
    /\ \A i \in 1 .. Len(wire) : wire[i] = whole[i]
    /\ context[c].ending = "answered" => Len(wire) = Len(whole)

\* The connection thread never calls accept on a listener run has closed.
ListenerOutlivesAccept == conn_pc = "accept" => listening

\* A request is never stuck in the pool: once a handler runs, the connection
\* is answered, fails or times out, and its context leaves the map.
RequestReleased ==
  \A c \in Conns :
    (c \in Live /\ context[c].state = "RUNNING_HANDLER") ~> (c \notin Live)

\* A connection without activity is evicted, unless it becomes active again
\* or its request goes to the pool.
IdleConnectionLeaves ==
  \A c \in Conns :
    (c \in Live /\ context[c].expired) ~>
      \/ c \notin Live
      \/ ~context[c].expired
      \/ context[c].state = "RUNNING_HANDLER"

RunReturned == main_pc \in {"returned", "pool_destroyed", "destroyed"}

\* A stop that arrives while the loops run makes run return.
StopReturns == (main_pc \in {"loop", "lock", "visit", "join"} /\ ~running) ~> RunReturned

\* SignalHandler.hpp:20-21: the handlers "allow the HTTP server to shut down
\* gracefully when a termination request is received".
StopHonoured == stop_requested ~> RunReturned

\* StaticFileServer.hpp:54: internal errors are among the scenarios a handler
\* takes care of; a failing handler does not take the server down.
HandlerFailureContained == ~aborted

=============================================================================
