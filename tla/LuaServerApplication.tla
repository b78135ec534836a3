------------------------ MODULE LuaServerApplication ------------------------
(***************************************************************************)
(* argb::LuaServerApplication (http-server/code): the Lua thread, its      *)
(* queue, the handlers whose process hands the work to that thread, the    *)
(* route table, and the destruction order of main.                         *)
(*                                                                         *)
(*   main      construction, run, then the destructors in reverse order:   *)
(*             the application, the server's pool, the server's map        *)
(*   data      create_handler, for each request that is complete           *)
(*   workers   of the server's pool: RequestHandler::process               *)
(*   lua       lua_worker_loop, the one thread that uses the VM            *)
(*                                                                         *)
(* A critical section of lua_queue_mutex is one step: what it touches is   *)
(* touched nowhere else, and nothing in it blocks but the wait.  The       *)
(* server is reduced to the stage of each request: module HttpServer shows *)
(* that process is never called twice at once for one, and that its        *)
(* context stays in the map, untouched, until process returns true.        *)
(***************************************************************************)
EXTENDS Naturals, Sequences

CONSTANTS
  Requests,       \* bounds the requests received
  Workers,        \* threads of the server's pool
  NoRequest,
  ScriptsRoute,   \* a Lua endpoint may call server.route
  ScriptsThrow    \* a task may throw something other than lua::RuntimeError

ASSUME ApplicationAssumption ==
  /\ NoRequest \notin Requests
  /\ ScriptsRoute \in BOOLEAN
  /\ ScriptsThrow \in BOOLEAN

VARIABLES
  main_pc,
  looking,        \* the request create_handler is looking up, or NoRequest
  stage,          \* of each request in the server
  response,       \* what its HttpResponse holds
  task_started,   \* of its RequestHandler
  execution,      \* the shared state of its execution_future
  call_pc,        \* where each worker is inside process
  call_request,   \* for which request, or NoRequest
  lua_pc,
  lua_request,    \* whose task the Lua thread runs, or NoRequest
  lua_tasks,      \* the queue: each task captures the handler of a request
  stop_lua_thread,
  late            \* history: requests whose task came after the stop

server_vars  == <<main_pc, looking>>
request_vars == <<stage, response, task_started, execution>>
call_vars    == <<call_pc, call_request>>
lua_vars     == <<lua_pc, lua_request, lua_tasks, stop_lua_thread, late>>

vars == <<server_vars, request_vars, call_vars, lua_vars>>

\* "handled": RUNNING_HANDLER, process not queued.  "queued", "running": in
\* the pool.  "answered": process returned true.  "gone": not in the map.
Stages == {"new", "handled", "queued", "running", "answered", "gone"}

\* What a future finds ready: the result or the exception of the task, or the
\* broken promise of one that was destroyed before it ran.
Ready == {"ready", "broken"}

Executions == {"none", "pending"} \cup Ready

\* "partial": what a task that threw had serialized.  "error": status 500.
Responses == {"empty", "partial", "scripted", "error"}

\* The handlers the tasks in the queue have captured.
Queued == {lua_tasks[i] : i \in 1 .. Len(lua_tasks)}

\* Mutant: the member has no initializer, so it is neither TRUE nor FALSE.
NotStarted_Unset == NoRequest

NotStarted == FALSE

Init ==
  /\ main_pc = "construct"
  /\ looking = NoRequest
  /\ stage = [r \in Requests |-> "new"]
  /\ response = [r \in Requests |-> "empty"]
  /\ task_started = [r \in Requests |-> NotStarted]
  /\ execution = [r \in Requests |-> "none"]
  /\ call_pc = [w \in Workers |-> "idle"]
  /\ call_request = [w \in Workers |-> NoRequest]
  /\ lua_pc = "none"
  /\ lua_request = NoRequest
  /\ lua_tasks = <<>>
  /\ stop_lua_thread = FALSE
  /\ late = {}

-----------------------------------------------------------------------------
(* main *)

\* The script is loaded on this thread, then lua_thread starts.  A script
\* that is missing or fails ends the program here.
Construct ==
  /\ main_pc = "construct"
  /\ \/ main_pc' = "serving" /\ lua_pc' = "check"
     \/ main_pc' = "failed" /\ UNCHANGED lua_pc
  /\ UNCHANGED <<looking, request_vars, call_vars, lua_request, lua_tasks,
                 stop_lua_thread, late>>

\* server.run returns: its two threads have ended, its pool has not.
RunReturns ==
  /\ main_pc = "serving"
  /\ looking = NoRequest
  /\ main_pc' = "returned"
  /\ UNCHANGED <<looking, request_vars, call_vars, lua_vars>>

\* ~LuaServerApplication
SetStop ==
  /\ main_pc = "returned"
  /\ stop_lua_thread' = TRUE
  /\ main_pc' = "notify"
  /\ UNCHANGED <<looking, request_vars, call_vars, lua_pc, lua_request,
                 lua_tasks, late>>

\* Mutant: the destructor does not notify.
NotifyStop_Nobody ==
  /\ main_pc = "notify"
  /\ main_pc' = "join"
  /\ UNCHANGED <<looking, request_vars, call_vars, lua_vars>>

Woken == IF lua_pc = "asleep" THEN "check" ELSE lua_pc

NotifyStop ==
  /\ main_pc = "notify"
  /\ main_pc' = "join"
  /\ lua_pc' = Woken
  /\ UNCHANGED <<looking, request_vars, call_vars, lua_request, lua_tasks,
                 stop_lua_thread, late>>

Join ==
  /\ main_pc = "join"
  /\ lua_pc = "exited"
  /\ main_pc' = "joined"
  /\ UNCHANGED <<looking, request_vars, call_vars, lua_vars>>

\* The members of the application: a task that came too late goes with the
\* queue, and its packaged_task breaks the promise.
DestroyApplication ==
  /\ main_pc = "joined"
  /\ main_pc' = "application_destroyed"
  /\ lua_tasks' = <<>>
  /\ execution' = [r \in Requests |-> IF r \in Queued THEN "broken" ELSE execution[r]]
  /\ UNCHANGED <<looking, stage, response, task_started, call_vars, lua_pc,
                 lua_request, stop_lua_thread, late>>

\* ~HttpServer: ~ThreadPool runs what is queued, then the map goes.
DestroyPool ==
  /\ main_pc = "application_destroyed"
  /\ \A r \in Requests : stage[r] \notin {"queued", "running"}
  /\ main_pc' = "pool_destroyed"
  /\ UNCHANGED <<looking, request_vars, call_vars, lua_vars>>

DestroyConnections ==
  /\ main_pc = "pool_destroyed"
  /\ stage' = [r \in Requests |-> "gone"]
  /\ main_pc' = "destroyed"
  /\ UNCHANGED <<looking, response, task_started, execution, call_vars,
                 lua_vars>>

-----------------------------------------------------------------------------
(* The server around the handlers *)

\* The data thread has a complete request and calls create_handler, which
\* reads `endpoints` without a lock.
LookUp(r) ==
  /\ main_pc = "serving"
  /\ looking = NoRequest
  /\ stage[r] = "new"
  /\ looking' = r
  /\ UNCHANGED <<main_pc, request_vars, call_vars, lua_vars>>

\* It has a RequestHandler for it, or leaves it to another factory.
LookedUp(r) ==
  /\ looking = r
  /\ \E found \in {"handled", "gone"} : stage' = [stage EXCEPT ![r] = found]
  /\ looking' = NoRequest
  /\ UNCHANGED <<main_pc, response, task_started, execution, call_vars,
                 lua_vars>>

\* run_handlers enqueues process.
EnqueueProcess(r) ==
  /\ main_pc = "serving"
  /\ stage[r] = "handled"
  /\ stage' = [stage EXCEPT ![r] = "queued"]
  /\ UNCHANGED <<server_vars, response, task_started, execution, call_vars,
                 lua_vars>>

\* Mutant: a connection whose handler runs can time out.
EraseConnection_AnyState(r) ==
  /\ main_pc = "serving"
  /\ stage[r] \in {"answered", "handled"}
  /\ stage' = [stage EXCEPT ![r] = "gone"]
  /\ UNCHANGED <<server_vars, response, task_started, execution, call_vars,
                 lua_vars>>

\* The response is sent, or fails, and the context is erased.
EraseConnection(r) ==
  /\ main_pc = "serving"
  /\ stage[r] = "answered"
  /\ stage' = [stage EXCEPT ![r] = "gone"]
  /\ UNCHANGED <<server_vars, response, task_started, execution, call_vars,
                 lua_vars>>

-----------------------------------------------------------------------------
(* RequestHandler::process, on a worker *)

\* Mutant: task_started is not set.
CallProcess_NotMarked(w, r) ==
  /\ call_pc[w] = "idle"
  /\ stage[r] = "queued"
  /\ stage' = [stage EXCEPT ![r] = "running"]
  /\ call_pc' = [call_pc EXCEPT
       ![w] = IF task_started[r] THEN "poll" ELSE "push"]
  /\ call_request' = [call_request EXCEPT ![w] = r]
  /\ UNCHANGED <<server_vars, response, task_started, execution, lua_vars>>

CallProcess(w, r) ==
  /\ call_pc[w] = "idle"
  /\ stage[r] = "queued"
  /\ stage' = [stage EXCEPT ![r] = "running"]
  /\ call_pc' = [call_pc EXCEPT
       ![w] = IF task_started[r] THEN "poll" ELSE "push"]
  /\ call_request' = [call_request EXCEPT ![w] = r]
  /\ task_started' = [task_started EXCEPT ![r] = TRUE]
  /\ UNCHANGED <<server_vars, response, execution, lua_vars>>

\* enqueue_lua_task: the critical section, which does not test the stop.
PushTask(w) ==
  LET r == call_request[w] IN
  /\ call_pc[w] = "push"
  /\ lua_tasks' = Append(lua_tasks, r)
  /\ execution' = [execution EXCEPT ![r] = "pending"]
  /\ late' = IF stop_lua_thread THEN late \cup {r} ELSE late
  /\ call_pc' = [call_pc EXCEPT ![w] = "notify"]
  /\ UNCHANGED <<server_vars, stage, response, task_started, call_request,
                 lua_pc, lua_request, stop_lua_thread>>

\* process returns: true makes the response the data thread's.
Return(w, result) ==
  /\ stage' = [stage EXCEPT
       ![call_request[w]] = IF result THEN "answered" ELSE "handled"]
  /\ call_pc' = [call_pc EXCEPT ![w] = "idle"]
  /\ call_request' = [call_request EXCEPT ![w] = NoRequest]
  /\ UNCHANGED <<server_vars, response, task_started, execution>>

\* Mutant: enqueue_lua_task does not notify.
NotifyTask_Nobody(w) ==
  /\ call_pc[w] = "notify"
  /\ Return(w, FALSE)
  /\ UNCHANGED lua_vars

\* notify_one, outside the lock; the first call returns false.
NotifyTask(w) ==
  /\ call_pc[w] = "notify"
  /\ lua_pc' = Woken
  /\ Return(w, FALSE)
  /\ UNCHANGED <<lua_request, lua_tasks, stop_lua_thread, late>>

\* Mutant: the shared state is taken for ready only if the future is invalid.
Poll_NeverReady(w) ==
  /\ call_pc[w] = "poll"
  /\ Return(w, execution[call_request[w]] = "none")
  /\ UNCHANGED lua_vars

\* Later calls: is execution_future ready?  Its result is not asked for.
Poll(w) ==
  /\ call_pc[w] = "poll"
  /\ Return(w, execution[call_request[w]] \in Ready)
  /\ UNCHANGED lua_vars

-----------------------------------------------------------------------------
(* lua_worker_loop *)

\* Mutant: the thread exits as soon as it is told to stop.
LuaWait_StopFirst ==
  /\ lua_pc = "check"
  /\ stop_lua_thread \/ lua_tasks = <<>>
  /\ lua_pc' = IF stop_lua_thread THEN "exited" ELSE "asleep"
  /\ UNCHANGED <<server_vars, request_vars, call_vars, lua_request, lua_tasks,
                 stop_lua_thread, late>>

\* Nothing to run: sleep, or exit after a stop.
LuaWait ==
  /\ lua_pc = "check"
  /\ lua_tasks = <<>>
  /\ lua_pc' = IF stop_lua_thread THEN "exited" ELSE "asleep"
  /\ UNCHANGED <<server_vars, request_vars, call_vars, lua_request, lua_tasks,
                 stop_lua_thread, late>>

SpuriousWakeup ==
  /\ lua_pc = "asleep"
  /\ lua_pc' = "check"
  /\ UNCHANGED <<server_vars, request_vars, call_vars, lua_request, lua_tasks,
                 stop_lua_thread, late>>

LuaTake ==
  /\ lua_pc = "check"
  /\ lua_tasks # <<>>
  /\ lua_request' = Head(lua_tasks)
  /\ lua_tasks' = Tail(lua_tasks)
  /\ lua_pc' = "run"
  /\ UNCHANGED <<server_vars, request_vars, call_vars, stop_lua_thread, late>>

\* The endpoint calls server.route: insert_or_assign on `endpoints`.
RouteBegins ==
  /\ ScriptsRoute
  /\ lua_pc = "run"
  /\ lua_pc' = "route"
  /\ UNCHANGED <<server_vars, request_vars, call_vars, lua_request, lua_tasks,
                 stop_lua_thread, late>>

RouteEnds ==
  /\ lua_pc = "route"
  /\ lua_pc' = "run"
  /\ UNCHANGED <<server_vars, request_vars, call_vars, lua_request, lua_tasks,
                 stop_lua_thread, late>>

\* The task has ended; only now does its future become ready.
TaskEnds(left) ==
  /\ lua_pc = "run"
  /\ response' = [response EXCEPT ![lua_request] = left]
  /\ execution' = [execution EXCEPT ![lua_request] = "ready"]
  /\ lua_pc' = "check"
  /\ lua_request' = NoRequest
  /\ UNCHANGED <<server_vars, stage, task_started, call_vars, lua_tasks,
                 stop_lua_thread, late>>

EndpointReturns == TaskEnds("scripted")

\* lua::RuntimeError: the serializer starts again with a 500 response.
EndpointFails == TaskEnds("error")

\* Anything else is kept in the future.
EndpointThrows == ScriptsThrow /\ TaskEnds("partial")

-----------------------------------------------------------------------------

\* The data thread reads `endpoints` while the Lua thread changes it.
RouteRace == looking # NoRequest /\ lua_pc = "route"

\* A worker is about to use the queue, the mutex or the condition variable of
\* an application that has been destroyed.
DeadApplication ==
  /\ main_pc \in {"application_destroyed", "pool_destroyed", "destroyed"}
  /\ \E w \in Workers : call_pc[w] \in {"push", "notify"}

\* Undefined behaviour: nothing is said of what comes after.
Undefined == RouteRace \/ DeadApplication

MainStep ==
  \/ SetStop \/ NotifyStop \/ Join
  \/ DestroyApplication \/ DestroyPool \/ DestroyConnections

WorkerStep(w) == PushTask(w) \/ NotifyTask(w) \/ Poll(w)

TaskStep == EndpointReturns \/ EndpointFails \/ EndpointThrows

Next ==
  /\ ~Undefined
  /\ \/ Construct \/ RunReturns \/ MainStep
     \/ \E r \in Requests :
          \/ LookUp(r) \/ LookedUp(r) \/ EnqueueProcess(r) \/ EraseConnection(r)
          \/ \E w \in Workers : CallProcess(w, r)
     \/ \E w \in Workers : WorkerStep(w)
     \/ LuaWait \/ LuaTake \/ SpuriousWakeup \/ RouteBegins \/ RouteEnds
     \/ TaskStep

Spec == Init /\ [][Next]_vars

\* Every thread runs; the pool is a FIFO, so a queued process is called in the
\* end (SF); an endpoint returns in the end (SF).
Fairness ==
  /\ WF_vars(MainStep)
  /\ \A r \in Requests :
       /\ WF_vars(EnqueueProcess(r))
       /\ SF_vars(\E w \in Workers : CallProcess(w, r))
  /\ \A w \in Workers : WF_vars(WorkerStep(w))
  /\ WF_vars(LuaWait \/ LuaTake \/ RouteEnds)
  /\ SF_vars(TaskStep)

FairSpec == Spec /\ Fairness

-----------------------------------------------------------------------------
(* Properties *)

\* What the threads, the requests and the queue hold.
TypeOK ==
  /\ main_pc \in {"construct", "failed", "serving", "returned", "notify",
                  "join", "joined", "application_destroyed", "pool_destroyed",
                  "destroyed"}
  /\ looking \in Requests \cup {NoRequest}
  /\ stage \in [Requests -> Stages]
  /\ response \in [Requests -> Responses]
  /\ task_started \in [Requests -> BOOLEAN]
  /\ execution \in [Requests -> Executions]
  /\ call_pc \in [Workers -> {"idle", "push", "notify", "poll"}]
  /\ call_request \in [Workers -> Requests \cup {NoRequest}]
  /\ lua_pc \in {"none", "check", "asleep", "run", "route", "exited"}
  /\ lua_request \in Requests \cup {NoRequest}
  /\ lua_tasks \in Seq(Requests)
  /\ stop_lua_thread \in BOOLEAN
  /\ late \subseteq Requests

InLua == (Queued \cup {lua_request}) \ {NoRequest}

\* Notifying after the lock is released loses no wakeup: the Lua thread does
\* not sleep over a task or a stop that nobody is going to announce.
NoLostLuaWakeup ==
  lua_pc = "asleep" /\ (lua_tasks # <<>> \/ stop_lua_thread) =>
    \/ main_pc = "notify"
    \/ \E w \in Workers : call_pc[w] = "notify"

\* The handler, request and response a Lua task refers to outlast process,
\* which returned false long ago: while the task is queued or runs, its
\* context is in the map and nobody sends its response.
LuaReferencesAlive ==
  \A r \in InLua : stage[r] \in {"handled", "queued", "running"}

\* However often process is called, a request gets one task, and its future is
\* pending exactly while that task is queued or runs: process, which polls it,
\* waits neither for a task that has gone nor for one there never was.
OneTaskPerRequest ==
  /\ \A i, j \in 1 .. Len(lua_tasks) : lua_tasks[i] = lua_tasks[j] => i = j
  /\ lua_request \notin Queued
  /\ \A r \in Requests : execution[r] = "pending" <=> r \in InLua

\* When the destructor has joined the Lua thread, every task that was there
\* before the stop has run: only later ones still wait, to be broken with the
\* queue.
TasksRunBeforeJoin ==
  lua_pc = "exited" =>
    \A r \in Requests : execution[r] \in {"pending", "broken"} => r \in late

\* A request whose task is in the Lua queue is answered, unless the server
\* stops first.
LuaAnswers ==
  \A r \in Requests :
    execution[r] = "pending" ~>
      \/ stage[r] = "answered"
      \/ main_pc # "serving"
      \/ Undefined

\* The destructor returns, whatever the queue holds.
ApplicationDestroyed == main_pc = "notify" ~> main_pc = "application_destroyed"

\* main.cpp:23, where the application is registered: "LuaServerApplication ya
\* es Thread-Safe por dentro" (it is thread-safe inside).
RoutesThreadSafe == ~RouteRace

\* LuaServerApplication.hpp:108: the destructor is there "para apagar el hilo
\* limpiamente" (to shut the thread down cleanly): nobody still uses it.
ApplicationOutlivesHandlers == ~DeadApplication

=============================================================================
