---------------------- MODULE LuaServerApplicationProofs ----------------------
(***************************************************************************)
(* Proofs about LuaServerApplication, for any sets of requests and pool    *)
(* workers, whatever the scripts do.                                       *)
(***************************************************************************)
EXTENDS LuaServerApplication, QueueLemmas

(***************************************************************************)
(* The inductive invariant, in named parts.                                *)
(***************************************************************************)

Destroyed == {"application_destroyed", "pool_destroyed", "destroyed"}

\* Where the Lua thread is in each phase of the program.
LuaPhases ==
  /\ lua_pc = "none" <=> main_pc \in {"construct", "failed"}
  /\ main_pc \in {"joined"} \cup Destroyed => lua_pc = "exited"
  /\ stop_lua_thread <=> main_pc \in {"notify", "join", "joined"} \cup Destroyed
  /\ lua_pc = "exited" => stop_lua_thread
  /\ lua_pc \in {"run", "route"} <=> lua_request # NoRequest
  /\ main_pc \in Destroyed => lua_tasks = <<>>

\* Which calls of process there are, and how far each request has come.
Calls ==
  /\ \A w \in Workers : call_pc[w] = "idle" <=> call_request[w] = NoRequest
  /\ \A w \in Workers : call_request[w] # NoRequest =>
       stage[call_request[w]] = "running" /\ task_started[call_request[w]]
  /\ \A v, w \in Workers :
       call_request[v] = call_request[w] /\ call_request[v] # NoRequest => v = w
  /\ \A w \in Workers : call_pc[w] = "push" => execution[call_request[w]] = "none"
  /\ \A r \in Requests : ~task_started[r] => execution[r] = "none"
  /\ \A r \in Requests : execution[r] = "broken" => r \in late
  /\ looking # NoRequest => stage[looking] = "new" /\ main_pc = "serving"
  /\ main_pc \in {"pool_destroyed", "destroyed"} =>
       \A r \in Requests : stage[r] \notin {"queued", "running"}

IInv ==
  /\ TypeOK
  /\ LuaPhases
  /\ Calls
  /\ LuaReferencesAlive
  /\ OneTaskPerRequest
  /\ TasksRunBeforeJoin
  /\ NoLostLuaWakeup

-----------------------------------------------------------------------------
(* Frames *)

\* The queue as the lemmas about queues name it.
LEMMA QueuedElements ==
  /\ Queued = Elements(lua_tasks)
  /\ Queued' = Elements(lua_tasks')
  BY DEF Queued, Elements

Waiting == {"handled", "queued", "running"}

\* A step that leaves the queue, the running task and the futures alone, and
\* every request they wait for in the server.
LEMMA QueueFrame ==
  ASSUME LuaReferencesAlive, OneTaskPerRequest,
         UNCHANGED <<lua_tasks, lua_request, execution>>,
         \A r \in InLua : stage'[r] \in Waiting
  PROVE  LuaReferencesAlive' /\ OneTaskPerRequest'
<1>1. Queued' = Queued /\ InLua' = InLua
  BY DEF Queued, InLua
<1>2. LuaReferencesAlive'
  BY <1>1 DEF LuaReferencesAlive, Waiting
<1>3. OneTaskPerRequest'
  BY <1>1 DEF OneTaskPerRequest
<1> QED
  BY <1>2, <1>3

-----------------------------------------------------------------------------
(* The invariant holds *)

\* Every step keeps the types.
LEMMA TypeNext == ASSUME TypeOK, Calls, [Next]_vars PROVE TypeOK'
<1> USE ApplicationAssumption DEF server_vars, request_vars, call_vars, lua_vars
<1>1. ASSUME Construct PROVE TypeOK'
  BY <1>1 DEF Construct, TypeOK, Stages, Executions, Ready, Responses
<1>2. ASSUME RunReturns PROVE TypeOK'
  BY <1>2 DEF RunReturns, TypeOK, Stages, Executions, Ready, Responses
<1>3. ASSUME SetStop PROVE TypeOK'
  BY <1>3 DEF SetStop, TypeOK, Stages, Executions, Ready, Responses
<1>4. ASSUME NotifyStop PROVE TypeOK'
  BY <1>4 DEF NotifyStop, Woken, TypeOK, Stages, Executions, Ready, Responses
<1>5. ASSUME Join PROVE TypeOK'
  BY <1>5 DEF Join, TypeOK, Stages, Executions, Ready, Responses
<1>6. ASSUME DestroyApplication PROVE TypeOK'
  BY <1>6 DEF DestroyApplication, TypeOK, Stages, Executions, Ready, Responses
<1>7. ASSUME DestroyPool PROVE TypeOK'
  BY <1>7 DEF DestroyPool, TypeOK, Stages, Executions, Ready, Responses
<1>8. ASSUME DestroyConnections PROVE TypeOK'
  BY <1>8 DEF DestroyConnections, TypeOK, Stages, Executions, Ready, Responses
<1>9. ASSUME NEW r \in Requests, LookUp(r) PROVE TypeOK'
  BY <1>9 DEF LookUp, TypeOK, Stages, Executions, Ready, Responses
<1>10. ASSUME NEW r \in Requests, LookedUp(r) PROVE TypeOK'
  BY <1>10 DEF LookedUp, TypeOK, Stages, Executions, Ready, Responses
<1>11. ASSUME NEW r \in Requests, EnqueueProcess(r) PROVE TypeOK'
  BY <1>11 DEF EnqueueProcess, TypeOK, Stages, Executions, Ready, Responses
<1>12. ASSUME NEW r \in Requests, EraseConnection(r) PROVE TypeOK'
  BY <1>12 DEF EraseConnection, TypeOK, Stages, Executions, Ready, Responses
<1>13. ASSUME NEW w \in Workers, NEW r \in Requests, CallProcess(w, r) PROVE TypeOK'
  BY <1>13 DEF CallProcess, TypeOK, Stages, Executions, Ready, Responses
<1>14. ASSUME NEW w \in Workers, PushTask(w) PROVE TypeOK'
  <2>1. CASE call_request[w] \in Requests
    <3>1. lua_tasks' \in Seq(Requests)
      BY <1>14, <2>1, AppendElements DEF PushTask, TypeOK
    <3>2. late' \in SUBSET Requests
      BY <1>14, <2>1 DEF PushTask, TypeOK
    <3> QED
      BY <1>14, <3>1, <3>2 DEF PushTask, TypeOK, Executions, Ready
  <2>2. call_request[w] \in Requests
    BY <1>14 DEF PushTask, TypeOK, Calls
  <2> QED
    BY <2>1, <2>2
<1>15. ASSUME NEW w \in Workers, NotifyTask(w) PROVE TypeOK'
  BY <1>15 DEF NotifyTask, Return, Woken, TypeOK, Stages, Executions, Ready,
     Responses
<1>16. ASSUME NEW w \in Workers, Poll(w) PROVE TypeOK'
  BY <1>16 DEF Poll, Return, TypeOK, Stages
<1>17. ASSUME LuaWait PROVE TypeOK'
  BY <1>17 DEF LuaWait, TypeOK, Stages, Executions, Ready, Responses
<1>18. ASSUME LuaTake PROVE TypeOK'
  <2>1. lua_request' \in Requests /\ lua_tasks' \in Seq(Requests)
    BY <1>18, TakeElements DEF LuaTake, TypeOK
  <2> QED
    BY <1>18, <2>1 DEF LuaTake, TypeOK
<1>19. ASSUME SpuriousWakeup PROVE TypeOK'
  BY <1>19 DEF SpuriousWakeup, TypeOK, Stages, Executions, Ready, Responses
<1>20. ASSUME RouteBegins PROVE TypeOK'
  BY <1>20 DEF RouteBegins, TypeOK, Stages, Executions, Ready, Responses
<1>21. ASSUME RouteEnds PROVE TypeOK'
  BY <1>21 DEF RouteEnds, TypeOK, Stages, Executions, Ready, Responses
<1>22. ASSUME NEW x \in Responses, TaskEnds(x) PROVE TypeOK'
  BY <1>22 DEF TaskEnds, TypeOK, Executions, Ready
<1>23. ASSUME UNCHANGED vars PROVE TypeOK'
  BY <1>23 DEF vars, TypeOK
<1>24. ASSUME TaskStep PROVE TypeOK'
  <2>1. \E x \in Responses : TaskEnds(x)
    BY <1>24 DEF TaskStep, EndpointReturns, EndpointFails, EndpointThrows,
       Responses
  <2> QED
    BY <1>22, <2>1
<1> QED
  BY <1>1, <1>2, <1>3, <1>4, <1>5, <1>6, <1>7, <1>8, <1>9, <1>10, <1>11,
     <1>12, <1>13, <1>14, <1>15, <1>16, <1>17, <1>18, <1>19, <1>20, <1>21,
     <1>23, <1>24 DEF Next, MainStep, WorkerStep

\* Every step keeps the invariant.  What comes after undefined behaviour is not
\* a step: Next says nothing of it.
LEMMA NextInv == ASSUME IInv, [Next]_vars PROVE IInv'
<1> USE ApplicationAssumption DEF server_vars, request_vars, call_vars, lua_vars
<1>0. TypeOK /\ TypeOK'
  BY TypeNext DEF IInv
<1> USE DEF IInv
<1>1. ASSUME Construct PROVE IInv'
  <2>1. LuaPhases'
    BY <1>1, <1>0 DEF Construct, TypeOK, LuaPhases, Calls, Destroyed
  <2>2. Calls'
    BY <1>1, <1>0 DEF Construct, TypeOK, Calls
  <2>3. LuaReferencesAlive' /\ OneTaskPerRequest'
    BY <1>1, <1>0, QueueFrame DEF Construct, TypeOK, LuaReferencesAlive,
       Waiting, Calls, LuaPhases, Destroyed, InLua
  <2>4. TasksRunBeforeJoin' /\ NoLostLuaWakeup'
    BY <1>1, <1>0 DEF Construct, TypeOK, TasksRunBeforeJoin,
       NoLostLuaWakeup, Calls, LuaPhases
  <2> QED
    BY <1>0, <2>1, <2>2, <2>3, <2>4
<1>2. ASSUME RunReturns PROVE IInv'
  <2>1. LuaPhases'
    BY <1>2, <1>0 DEF RunReturns, TypeOK, LuaPhases, Calls, Destroyed
  <2>2. Calls'
    BY <1>2, <1>0 DEF RunReturns, TypeOK, Calls
  <2>3. LuaReferencesAlive' /\ OneTaskPerRequest'
    BY <1>2, <1>0, QueueFrame DEF RunReturns, TypeOK, LuaReferencesAlive,
       Waiting, Calls, LuaPhases, Destroyed, InLua
  <2>4. TasksRunBeforeJoin' /\ NoLostLuaWakeup'
    BY <1>2, <1>0 DEF RunReturns, TypeOK, TasksRunBeforeJoin,
       NoLostLuaWakeup, Calls, LuaPhases
  <2> QED
    BY <1>0, <2>1, <2>2, <2>3, <2>4
<1>3. ASSUME SetStop PROVE IInv'
  <2>1. LuaPhases'
    BY <1>3, <1>0 DEF SetStop, TypeOK, LuaPhases, Calls, Destroyed
  <2>2. Calls'
    BY <1>3, <1>0 DEF SetStop, TypeOK, Calls
  <2>3. LuaReferencesAlive' /\ OneTaskPerRequest'
    BY <1>3, <1>0, QueueFrame DEF SetStop, TypeOK, LuaReferencesAlive,
       Waiting, Calls, LuaPhases, Destroyed, InLua
  <2>4. TasksRunBeforeJoin' /\ NoLostLuaWakeup'
    BY <1>3, <1>0 DEF SetStop, TypeOK, TasksRunBeforeJoin, NoLostLuaWakeup,
       Calls, LuaPhases
  <2> QED
    BY <1>0, <2>1, <2>2, <2>3, <2>4
<1>4. ASSUME NotifyStop PROVE IInv'
  <2>1. LuaPhases'
    BY <1>4, <1>0 DEF NotifyStop, Woken, TypeOK, LuaPhases, Calls, Destroyed
  <2>2. Calls'
    BY <1>4, <1>0 DEF NotifyStop, Woken, TypeOK, Calls
  <2>3. LuaReferencesAlive' /\ OneTaskPerRequest'
    BY <1>4, <1>0, QueueFrame DEF NotifyStop, Woken, TypeOK,
       LuaReferencesAlive, Waiting, Calls, LuaPhases, Destroyed, InLua
  <2>4. TasksRunBeforeJoin' /\ NoLostLuaWakeup'
    BY <1>4, <1>0 DEF NotifyStop, Woken, TypeOK, TasksRunBeforeJoin,
       NoLostLuaWakeup, Calls, LuaPhases
  <2> QED
    BY <1>0, <2>1, <2>2, <2>3, <2>4
<1>5. ASSUME Join PROVE IInv'
  <2>1. LuaPhases'
    BY <1>5, <1>0 DEF Join, TypeOK, LuaPhases, Calls, Destroyed
  <2>2. Calls'
    BY <1>5, <1>0 DEF Join, TypeOK, Calls
  <2>3. LuaReferencesAlive' /\ OneTaskPerRequest'
    BY <1>5, <1>0, QueueFrame DEF Join, TypeOK, LuaReferencesAlive, Waiting,
       Calls, LuaPhases, Destroyed, InLua
  <2>4. TasksRunBeforeJoin' /\ NoLostLuaWakeup'
    BY <1>5, <1>0 DEF Join, TypeOK, TasksRunBeforeJoin, NoLostLuaWakeup,
       Calls, LuaPhases
  <2> QED
    BY <1>0, <2>1, <2>2, <2>3, <2>4
<1>6. ASSUME DestroyApplication PROVE IInv'
  <2>1. LuaPhases'
    BY <1>6, <1>0 DEF DestroyApplication, TypeOK, LuaPhases, Destroyed
  <2>2. lua_request = NoRequest /\ lua_pc = "exited"
    BY <1>6, <1>0 DEF DestroyApplication, LuaPhases
  <2>3. \A r \in Requests :
          /\ r \in Queued <=> execution[r] = "pending"
          /\ execution'[r] = IF r \in Queued THEN "broken" ELSE execution[r]
    <3>1. InLua = Queued
      BY <1>0, <2>2, QueuedElements DEF InLua, TypeOK, Elements
    <3> QED
      BY <1>6, <3>1 DEF DestroyApplication, OneTaskPerRequest
  <2>4. \A r \in Requests : execution[r] = "pending" => r \in late
    BY <2>2 DEF TasksRunBeforeJoin
  <2>5. Calls'
    <3>1. /\ \A r \in Requests : execution'[r] = "none" <=> execution[r] = "none"
          /\ \A r \in Requests : execution'[r] = "broken" => r \in late
      BY <2>3, <2>4 DEF Calls
    <3> QED
      BY <1>6, <1>0, <3>1 DEF DestroyApplication, TypeOK, Calls
  <2>6. InLua' = {}
    BY <1>6, <2>2 DEF DestroyApplication, Queued, InLua
  <2>7. LuaReferencesAlive'
    BY <2>6 DEF LuaReferencesAlive
  <2>8. OneTaskPerRequest'
    <3>1. Queued' = {} /\ Len(lua_tasks') = 0 /\ lua_request' = NoRequest
      BY <1>6, <2>2 DEF DestroyApplication, Queued
    <3>2. \A i, j \in 1 .. Len(lua_tasks') : lua_tasks'[i] = lua_tasks'[j] => i = j
      BY <3>1
    <3>3. \A r \in Requests : execution'[r] # "pending"
      BY <2>3
    <3> QED
      BY <2>6, <3>1, <3>2, <3>3 DEF OneTaskPerRequest
  <2>9. TasksRunBeforeJoin' /\ NoLostLuaWakeup'
    BY <1>6, <2>2, <2>5 DEF DestroyApplication, TasksRunBeforeJoin, Calls,
       NoLostLuaWakeup
  <2> QED
    BY <1>0, <2>1, <2>5, <2>7, <2>8, <2>9
<1>7. ASSUME DestroyPool PROVE IInv'
  <2>1. LuaPhases'
    BY <1>7, <1>0 DEF DestroyPool, TypeOK, LuaPhases, Calls, Destroyed
  <2>2. Calls'
    BY <1>7, <1>0 DEF DestroyPool, TypeOK, Calls
  <2>3. LuaReferencesAlive' /\ OneTaskPerRequest'
    BY <1>7, <1>0, QueueFrame DEF DestroyPool, TypeOK, LuaReferencesAlive,
       Waiting, Calls, LuaPhases, Destroyed, InLua
  <2>4. TasksRunBeforeJoin' /\ NoLostLuaWakeup'
    BY <1>7, <1>0 DEF DestroyPool, TypeOK, TasksRunBeforeJoin,
       NoLostLuaWakeup, Calls, LuaPhases
  <2> QED
    BY <1>0, <2>1, <2>2, <2>3, <2>4
<1>8. ASSUME DestroyConnections PROVE IInv'
  <2>1. LuaPhases'
    BY <1>8, <1>0 DEF DestroyConnections, TypeOK, LuaPhases, Destroyed
  <2>2. \A w \in Workers : call_request[w] = NoRequest
    BY <1>8, <1>0 DEF DestroyConnections, TypeOK, Calls
  <2>3. Calls'
    BY <1>8, <1>0, <2>2 DEF DestroyConnections, TypeOK, Calls
  <2>4. lua_request = NoRequest /\ lua_tasks = <<>>
    BY <1>8, <1>0 DEF DestroyConnections, LuaPhases, Destroyed
  <2>5. InLua = {}
    BY <2>4 DEF Queued, InLua
  <2>6. LuaReferencesAlive' /\ OneTaskPerRequest'
    BY <1>8, <2>5, QueueFrame DEF DestroyConnections, Destroyed
  <2>7. TasksRunBeforeJoin' /\ NoLostLuaWakeup'
    BY <1>8, <1>0 DEF DestroyConnections, TypeOK, TasksRunBeforeJoin,
       NoLostLuaWakeup, LuaPhases, Destroyed
  <2> QED
    BY <1>0, <2>1, <2>3, <2>6, <2>7
<1>9. ASSUME NEW r \in Requests, LookUp(r) PROVE IInv'
  <2>1. LuaPhases'
    BY <1>9, <1>0 DEF LookUp, TypeOK, LuaPhases, Calls, Destroyed
  <2>2. Calls'
    BY <1>9, <1>0 DEF LookUp, TypeOK, Calls
  <2>3. LuaReferencesAlive' /\ OneTaskPerRequest'
    BY <1>9, <1>0, QueueFrame DEF LookUp, TypeOK, LuaReferencesAlive,
       Waiting, Calls, LuaPhases, Destroyed, InLua
  <2>4. TasksRunBeforeJoin' /\ NoLostLuaWakeup'
    BY <1>9, <1>0 DEF LookUp, TypeOK, TasksRunBeforeJoin, NoLostLuaWakeup,
       Calls, LuaPhases
  <2> QED
    BY <1>0, <2>1, <2>2, <2>3, <2>4
<1>10. ASSUME NEW r \in Requests, LookedUp(r) PROVE IInv'
  <2>1. LuaPhases'
    BY <1>10, <1>0 DEF LookedUp, TypeOK, LuaPhases, Calls, Destroyed
  <2>2. Calls'
    BY <1>10, <1>0 DEF LookedUp, TypeOK, Calls
  <2>3. LuaReferencesAlive' /\ OneTaskPerRequest'
    BY <1>10, <1>0, QueueFrame DEF LookedUp, TypeOK, LuaReferencesAlive,
       Waiting, Calls, LuaPhases, Destroyed, InLua
  <2>4. TasksRunBeforeJoin' /\ NoLostLuaWakeup'
    BY <1>10, <1>0 DEF LookedUp, TypeOK, TasksRunBeforeJoin,
       NoLostLuaWakeup, Calls, LuaPhases
  <2> QED
    BY <1>0, <2>1, <2>2, <2>3, <2>4
<1>11. ASSUME NEW r \in Requests, EnqueueProcess(r) PROVE IInv'
  <2>1. LuaPhases'
    BY <1>11, <1>0 DEF EnqueueProcess, TypeOK, LuaPhases, Calls, Destroyed
  <2>2. Calls'
    BY <1>11, <1>0 DEF EnqueueProcess, TypeOK, Calls
  <2>3. LuaReferencesAlive' /\ OneTaskPerRequest'
    BY <1>11, <1>0, QueueFrame DEF EnqueueProcess, TypeOK,
       LuaReferencesAlive, Waiting, Calls, LuaPhases, Destroyed, InLua
  <2>4. TasksRunBeforeJoin' /\ NoLostLuaWakeup'
    BY <1>11, <1>0 DEF EnqueueProcess, TypeOK, TasksRunBeforeJoin,
       NoLostLuaWakeup, Calls, LuaPhases
  <2> QED
    BY <1>0, <2>1, <2>2, <2>3, <2>4
<1>12. ASSUME NEW r \in Requests, EraseConnection(r) PROVE IInv'
  <2>1. LuaPhases'
    BY <1>12, <1>0 DEF EraseConnection, TypeOK, LuaPhases, Calls, Destroyed
  <2>2. Calls'
    BY <1>12, <1>0 DEF EraseConnection, TypeOK, Calls
  <2>3. LuaReferencesAlive' /\ OneTaskPerRequest'
    BY <1>12, <1>0, QueueFrame DEF EraseConnection, TypeOK,
       LuaReferencesAlive, Waiting, Calls, LuaPhases, Destroyed, InLua
  <2>4. TasksRunBeforeJoin' /\ NoLostLuaWakeup'
    BY <1>12, <1>0 DEF EraseConnection, TypeOK, TasksRunBeforeJoin,
       NoLostLuaWakeup, Calls, LuaPhases
  <2> QED
    BY <1>0, <2>1, <2>2, <2>3, <2>4
<1>13. ASSUME NEW w \in Workers, NEW r \in Requests, CallProcess(w, r) PROVE IInv'
  <2>1. LuaPhases'
    BY <1>13, <1>0 DEF CallProcess, TypeOK, LuaPhases, Calls, Destroyed
  <2>2. Calls'
    BY <1>13, <1>0 DEF CallProcess, TypeOK, Calls
  <2>3. LuaReferencesAlive' /\ OneTaskPerRequest'
    BY <1>13, <1>0, QueueFrame DEF CallProcess, TypeOK, LuaReferencesAlive,
       Waiting, Calls, LuaPhases, Destroyed, InLua
  <2>4. TasksRunBeforeJoin' /\ NoLostLuaWakeup'
    BY <1>13, <1>0 DEF CallProcess, TypeOK, TasksRunBeforeJoin,
       NoLostLuaWakeup, Calls, LuaPhases
  <2> QED
    BY <1>0, <2>1, <2>2, <2>3, <2>4
<1>14. ASSUME NEW w \in Workers, ~Undefined, PushTask(w) PROVE IInv'
  <2> DEFINE r == call_request[w]
  <2>1. r \in Requests /\ execution[r] = "none" /\ stage[r] = "running"
    BY <1>14, <1>0 DEF PushTask, TypeOK, Calls
  <2>2. main_pc \notin Destroyed
    BY <1>14 DEF PushTask, Undefined, DeadApplication, Destroyed
  <2>3. /\ lua_tasks' = Append(lua_tasks, r)
        /\ execution' = [execution EXCEPT ![r] = "pending"]
        /\ UNCHANGED <<main_pc, stage, lua_request, lua_pc, stop_lua_thread>>
    BY <1>14 DEF PushTask, server_vars
  <2>4. LuaPhases'
    BY <1>14, <1>0, <2>2, <2>3 DEF LuaPhases
  <2>5. Calls'
    BY <1>14, <1>0 DEF PushTask, TypeOK, Calls
  <2> HIDE DEF r
  <2>6. Queued' = Queued \cup {r} /\ InLua' = InLua \cup {r}
    <3>1. Queued' = Queued \cup {r}
      BY <1>0, <2>1, <2>3, AppendElements, QueuedElements DEF TypeOK
    <3> QED
      BY <2>1, <2>3, <3>1 DEF InLua
  <2>7. r \notin InLua /\ r \notin Queued /\ r # lua_request
    BY <2>1 DEF OneTaskPerRequest, InLua
  <2>8. LuaReferencesAlive'
    BY <2>1, <2>3, <2>6 DEF LuaReferencesAlive
  <2>9. OneTaskPerRequest'
    <3>1. Distinct(lua_tasks')
      <4>1. Distinct(lua_tasks) /\ r \notin Elements(lua_tasks)
        BY <2>7, QueuedElements DEF OneTaskPerRequest, Distinct
      <4> QED
        BY <1>0, <2>1, <2>3, <4>1, AppendDistinct DEF TypeOK
    <3>2. lua_request' \notin Queued'
      BY <2>3, <2>6, <2>7 DEF OneTaskPerRequest
    <3>3. ASSUME NEW s \in Requests
          PROVE  execution'[s] = "pending" <=> s = r \/ execution[s] = "pending"
      BY <1>0, <2>1, <2>3 DEF TypeOK
    <3>4. \A s \in Requests : execution'[s] = "pending" <=> s \in InLua'
      BY <2>6, <3>3 DEF OneTaskPerRequest
    <3> QED
      BY <3>1, <3>2, <3>4 DEF OneTaskPerRequest, Distinct
  <2>10. TasksRunBeforeJoin' /\ NoLostLuaWakeup'
    BY <1>14, <1>0, <2>1, <2>3 DEF PushTask, TypeOK, TasksRunBeforeJoin,
       NoLostLuaWakeup, LuaPhases, r
  <2> QED
    BY <1>0, <2>4, <2>5, <2>8, <2>9, <2>10
<1>15. ASSUME NEW w \in Workers, ~Undefined, NotifyTask(w) PROVE IInv'
  <2>1. LuaPhases'
    BY <1>15, <1>0 DEF NotifyTask, Return, Woken, TypeOK, LuaPhases, Calls,
       Destroyed
  <2>2. Calls'
    BY <1>15, <1>0 DEF NotifyTask, Return, Woken, TypeOK, Calls
  <2>3. LuaReferencesAlive' /\ OneTaskPerRequest'
    BY <1>15, <1>0, QueueFrame DEF NotifyTask, Return, Woken, TypeOK,
       LuaReferencesAlive, Waiting, Calls, LuaPhases, Destroyed, InLua
  <2>4. TasksRunBeforeJoin' /\ NoLostLuaWakeup'
    BY <1>15, <1>0 DEF NotifyTask, Return, Woken, TypeOK,
       TasksRunBeforeJoin, NoLostLuaWakeup, Calls, LuaPhases
  <2> QED
    BY <1>0, <2>1, <2>2, <2>3, <2>4
<1>16. ASSUME NEW w \in Workers, Poll(w) PROVE IInv'
  <2> DEFINE r == call_request[w]
  <2>1. r \in Requests /\ stage[r] = "running"
    BY <1>16, <1>0 DEF Poll, TypeOK, Calls
  <2>2. LuaPhases'
    BY <1>16, <1>0 DEF Poll, Return, TypeOK, LuaPhases
  <2>3. Calls'
    BY <1>16, <1>0 DEF Poll, Return, TypeOK, Calls
  <2>4. r \in InLua => execution[r] \notin Ready
    BY <2>1 DEF OneTaskPerRequest, Ready
  <2>5. \A s \in InLua : stage'[s] \in Waiting
    <3>1. InLua \subseteq Requests
      BY <1>0, QueuedElements DEF TypeOK, InLua, Elements
    <3> QED
      BY <1>16, <1>0, <2>1, <2>4, <3>1 DEF Poll, Return, TypeOK,
         LuaReferencesAlive, Waiting
  <2>6. LuaReferencesAlive' /\ OneTaskPerRequest'
    BY <1>16, <2>5, QueueFrame DEF Poll, Return
  <2>7. TasksRunBeforeJoin' /\ NoLostLuaWakeup'
    BY <1>16, <1>0 DEF Poll, Return, TypeOK, TasksRunBeforeJoin,
       NoLostLuaWakeup, Calls
  <2> QED
    BY <1>0, <2>2, <2>3, <2>6, <2>7
<1>17. ASSUME LuaWait PROVE IInv'
  <2>1. LuaPhases' /\ Calls'
    BY <1>17, <1>0 DEF LuaWait, TypeOK, LuaPhases, Calls, Destroyed
  <2>2. LuaReferencesAlive' /\ OneTaskPerRequest'
    BY <1>17, <1>0, QueueFrame DEF LuaWait, LuaReferencesAlive, Waiting
  <2>3. InLua = {}
    BY <1>17, <1>0 DEF LuaWait, LuaPhases, Queued, InLua
  <2>4. TasksRunBeforeJoin'
    <3>1. \A r \in Requests : execution[r] # "pending"
      BY <2>3 DEF OneTaskPerRequest
    <3> QED
      BY <1>17, <3>1 DEF LuaWait, TasksRunBeforeJoin, Calls
  <2>5. NoLostLuaWakeup'
    BY <1>17 DEF LuaWait, NoLostLuaWakeup
  <2> QED
    BY <1>0, <2>1, <2>2, <2>4, <2>5
<1>18. ASSUME LuaTake PROVE IInv'
  <2> DEFINE r == Head(lua_tasks)
  <2>1. LuaPhases'
    <3>1. r \in Requests
      BY <1>18, <1>0, TakeElements DEF LuaTake, TypeOK
    <3> QED
      BY <1>18, <1>0, <3>1 DEF LuaTake, TypeOK, LuaPhases, Destroyed
  <2>2. Calls'
    BY <1>18, <1>0 DEF LuaTake, TypeOK, Calls
  <2>3. lua_request' = r /\ lua_tasks' = Tail(lua_tasks) /\ lua_request = NoRequest
    BY <1>18 DEF LuaTake, LuaPhases
  <2>4. /\ Distinct(lua_tasks') /\ r \notin Queued' /\ r \in Requests
        /\ Queued = {r} \cup Queued'
    <3>1. lua_tasks \in Seq(Requests) /\ lua_tasks # <<>> /\ Distinct(lua_tasks)
      BY <1>18, <1>0 DEF LuaTake, TypeOK, OneTaskPerRequest, Distinct
    <3> QED
      BY <2>3, <3>1, TakeElements, TakeDistinct, QueuedElements
  <2> HIDE DEF r
  <2>5. InLua' = InLua
    <3>1. NoRequest \notin Queued
      BY <1>0, QueuedElements DEF TypeOK, Elements
    <3> QED
      BY <2>3, <2>4, <3>1 DEF InLua
  <2>6. LuaReferencesAlive'
    BY <1>18, <2>5 DEF LuaTake, LuaReferencesAlive
  <2>7. OneTaskPerRequest'
    BY <1>18, <2>3, <2>4, <2>5 DEF LuaTake, OneTaskPerRequest, Distinct
  <2>8. TasksRunBeforeJoin' /\ NoLostLuaWakeup'
    BY <1>18 DEF LuaTake, TasksRunBeforeJoin, NoLostLuaWakeup
  <2> QED
    BY <1>0, <2>1, <2>2, <2>6, <2>7, <2>8
<1>19. ASSUME SpuriousWakeup PROVE IInv'
  <2>1. LuaPhases'
    BY <1>19, <1>0 DEF SpuriousWakeup, TypeOK, LuaPhases, Calls, Destroyed
  <2>2. Calls'
    BY <1>19, <1>0 DEF SpuriousWakeup, TypeOK, Calls
  <2>3. LuaReferencesAlive' /\ OneTaskPerRequest'
    BY <1>19, <1>0, QueueFrame DEF SpuriousWakeup, TypeOK,
       LuaReferencesAlive, Waiting, Calls, LuaPhases, Destroyed, InLua
  <2>4. TasksRunBeforeJoin' /\ NoLostLuaWakeup'
    BY <1>19, <1>0 DEF SpuriousWakeup, TypeOK, TasksRunBeforeJoin,
       NoLostLuaWakeup, Calls, LuaPhases
  <2> QED
    BY <1>0, <2>1, <2>2, <2>3, <2>4
<1>20. ASSUME RouteBegins PROVE IInv'
  <2>1. LuaPhases'
    BY <1>20, <1>0 DEF RouteBegins, TypeOK, LuaPhases, Calls, Destroyed
  <2>2. Calls'
    BY <1>20, <1>0 DEF RouteBegins, TypeOK, Calls
  <2>3. LuaReferencesAlive' /\ OneTaskPerRequest'
    BY <1>20, <1>0, QueueFrame DEF RouteBegins, TypeOK, LuaReferencesAlive,
       Waiting, Calls, LuaPhases, Destroyed, InLua
  <2>4. TasksRunBeforeJoin' /\ NoLostLuaWakeup'
    BY <1>20, <1>0 DEF RouteBegins, TypeOK, TasksRunBeforeJoin,
       NoLostLuaWakeup, Calls, LuaPhases
  <2> QED
    BY <1>0, <2>1, <2>2, <2>3, <2>4
<1>21. ASSUME RouteEnds PROVE IInv'
  <2>1. LuaPhases'
    BY <1>21, <1>0 DEF RouteEnds, TypeOK, LuaPhases, Calls, Destroyed
  <2>2. Calls'
    BY <1>21, <1>0 DEF RouteEnds, TypeOK, Calls
  <2>3. LuaReferencesAlive' /\ OneTaskPerRequest'
    BY <1>21, <1>0, QueueFrame DEF RouteEnds, TypeOK, LuaReferencesAlive,
       Waiting, Calls, LuaPhases, Destroyed, InLua
  <2>4. TasksRunBeforeJoin' /\ NoLostLuaWakeup'
    BY <1>21, <1>0 DEF RouteEnds, TypeOK, TasksRunBeforeJoin,
       NoLostLuaWakeup, Calls, LuaPhases
  <2> QED
    BY <1>0, <2>1, <2>2, <2>3, <2>4
<1>22. ASSUME NEW x \in Responses, TaskEnds(x) PROVE IInv'
  <2> DEFINE r == lua_request
  <2>1. r \in Requests /\ r \in InLua /\ execution[r] = "pending"
    BY <1>22, <1>0 DEF TaskEnds, TypeOK, LuaPhases, InLua, OneTaskPerRequest
  <2>2. LuaPhases'
    BY <1>22, <1>0 DEF TaskEnds, TypeOK, LuaPhases, Destroyed
  <2>3. Calls'
    BY <1>22, <1>0, <2>1 DEF TaskEnds, TypeOK, Calls
  <2>4. Queued' = Queued /\ InLua' = InLua \ {r}
    BY <1>22, <2>1 DEF TaskEnds, Queued, InLua, OneTaskPerRequest
  <2>5. LuaReferencesAlive'
    BY <1>22, <2>4 DEF TaskEnds, LuaReferencesAlive
  <2>6. \A s \in Requests : execution'[s] = IF s = r THEN "ready" ELSE execution[s]
    BY <1>22, <1>0, <2>1 DEF TaskEnds, TypeOK
  <2>7. OneTaskPerRequest'
    <3>1. NoRequest \notin Queued
      BY <1>0, QueuedElements DEF TypeOK, Elements
    <3>2. lua_tasks' = lua_tasks /\ lua_request' = NoRequest
      BY <1>22 DEF TaskEnds
    <3>3. \A s \in Requests : execution'[s] = "pending" <=> s \in InLua'
      BY <2>4, <2>6 DEF OneTaskPerRequest
    <3> QED
      BY <2>4, <3>1, <3>2, <3>3 DEF OneTaskPerRequest
  <2>8. TasksRunBeforeJoin' /\ NoLostLuaWakeup'
    BY <1>22 DEF TaskEnds, TasksRunBeforeJoin, NoLostLuaWakeup
  <2> QED
    BY <1>0, <2>2, <2>3, <2>5, <2>7, <2>8
<1>23. ASSUME UNCHANGED vars PROVE IInv'
  <2>1. LuaPhases' /\ Calls'
    BY <1>23 DEF vars, LuaPhases, Calls
  <2>2. LuaReferencesAlive' /\ OneTaskPerRequest'
    BY <1>23, QueueFrame DEF vars, LuaReferencesAlive, Waiting
  <2>3. TasksRunBeforeJoin' /\ NoLostLuaWakeup'
    BY <1>23 DEF vars, TasksRunBeforeJoin, NoLostLuaWakeup
  <2> QED
    BY <1>0, <2>1, <2>2, <2>3
<1>24. ASSUME TaskStep PROVE IInv'
  <2>1. \E x \in Responses : TaskEnds(x)
    BY <1>24 DEF TaskStep, EndpointReturns, EndpointFails, EndpointThrows,
       Responses
  <2> QED
    BY <1>22, <2>1
<1> QED
  BY <1>1, <1>2, <1>3, <1>4, <1>5, <1>6, <1>7, <1>8, <1>9, <1>10, <1>11,
     <1>12, <1>13, <1>14, <1>15, <1>16, <1>17, <1>18, <1>19, <1>20, <1>21,
     <1>23, <1>24 DEF Next, MainStep, WorkerStep

\* The program starts with the invariant.
LEMMA InitInv == ASSUME Init PROVE IInv
<1> USE ApplicationAssumption DEF Init
<1>1. lua_tasks \in Seq(Requests)
  OBVIOUS
<1>2. TypeOK
  BY <1>1 DEF TypeOK, Stages, Responses, Executions, Ready, NotStarted
<1>3. LuaPhases /\ Calls
  BY DEF LuaPhases, Calls, Destroyed
<1>4. Queued = {} /\ InLua = {}
  BY DEF Queued, InLua
<1>5. LuaReferencesAlive /\ OneTaskPerRequest
  BY <1>4 DEF LuaReferencesAlive, OneTaskPerRequest
<1>6. TasksRunBeforeJoin /\ NoLostLuaWakeup
  BY DEF TasksRunBeforeJoin, NoLostLuaWakeup
<1> QED
  BY <1>2, <1>3, <1>5, <1>6 DEF IInv

\* IInv holds throughout.
LEMMA Invariant == Spec => []IInv
<1>1. Init => IInv
  BY InitInv
<1>2. IInv /\ [Next]_vars => IInv'
  BY NextInv
<1> QED
  BY <1>1, <1>2, PTL DEF Spec

-----------------------------------------------------------------------------
(* The theorems *)

\* Every variable keeps its type.
THEOREM TypeCorrect == Spec => []TypeOK
  BY Invariant, PTL DEF IInv

\* The Lua thread never sleeps over a task or a stop nobody will announce.
THEOREM LuaWakeupSafety == Spec => []NoLostLuaWakeup
  BY Invariant, PTL DEF IInv

\* What a Lua task refers to outlives it, as long as main destroys the
\* application before the server and behaviour is defined.
THEOREM LuaReferenceSafety == Spec => []LuaReferencesAlive
  BY Invariant, PTL DEF IInv

\* A request has one Lua task, however often process is called.
THEOREM OneTaskSafety == Spec => []OneTaskPerRequest
  BY Invariant, PTL DEF IInv

\* The destructor joins a thread that has run every task from before the stop.
THEOREM JoinSafety == Spec => []TasksRunBeforeJoin
  BY Invariant, PTL DEF IInv

=============================================================================
