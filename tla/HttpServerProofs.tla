-------------------------- MODULE HttpServerProofs --------------------------
(***************************************************************************)
(* Proofs about HttpServer, for any sets of handles, contexts, workers and *)
(* response sizes.                                                         *)
(***************************************************************************)
EXTENDS HttpServerRefinement, QueueLemmas

(***************************************************************************)
(* The inductive invariant, in named parts.                                *)
(***************************************************************************)

\* The two threads live between StartThreads and JoinThreads, and the listener
\* is open while they do; the pool is empty once it is destroyed; a context is
\* on its way into the map exactly inside the accept loop.
Lifecycle ==
  /\ main_pc \in {"loop", "lock", "visit", "join"}
       \/ (conn_pc = "ended" /\ data_pc = "ended")
  /\ main_pc \in {"start", "loop", "lock", "visit", "join"} => listening
  /\ main_pc \in {"pool_destroyed", "destroyed"} =>
       /\ pool_queue = <<>>
       /\ \A w \in Workers : worker_conn[w] = NoConn
  /\ conn_pc = "emplace" => arriving # NoConn

\* An identity that has not been used has no socket.
Unused == \A c \in Conns : c \notin accepted => context[c].socket = NoHandle

IInv ==
  /\ TypeOK
  /\ Lifecycle
  /\ PassesExclude
  /\ Unused
  /\ SocketsOwned
  /\ PoolTasksAlive
  /\ OneTaskPerConnection

-----------------------------------------------------------------------------
(* Types *)

\* A piece of a response is a sequence of units, as long as it was meant to be.
LEMMA NextUnitsType ==
  ASSUME NEW part \in {"header", "body"}, NEW k \in Nat, NEW n \in Nat
  PROVE  /\ NextUnits(part, k, n) \in Seq(Units)
         /\ Len(NextUnits(part, k, n)) = n
         /\ \A i \in 1 .. n : NextUnits(part, k, n)[i] = <<part, k + i>>
<1>1. \A i \in 1 .. n : <<part, k + i>> \in Units
  BY DEF Units
<1>2. NextUnits(part, k, n) \in [1 .. n -> Units]
  BY <1>1 DEF NextUnits
<1> QED
  BY <1>2 DEF NextUnits

\* What the wire holds after a piece has been added to it.
LEMMA WireGrows ==
  ASSUME NEW v \in Seq(Units), NEW u \in Seq(Units)
  PROVE  /\ v \o u \in Seq(Units)
         /\ Len(v \o u) = Len(v) + Len(u)
         /\ \A i \in 1 .. Len(v) : (v \o u)[i] = v[i]
         /\ \A i \in 1 .. Len(u) : (v \o u)[Len(v) + i] = u[i]
  OBVIOUS

\* The parts of a response have a size.
LEMMA SizesNat ==
  ASSUME NEW r \in Sizes
  PROVE  r.header \in Nat /\ r.body \in Nat
<1>1. r.header \in HeaderSizes \cup {0} /\ r.body \in BodySizes \cup {0}
  BY DEF Sizes
<1>2. HeaderSizes \cup {0} \subseteq Nat /\ BodySizes \cup {0} \subseteq Nat
  BY ServerAssumption
<1> QED
  BY <1>1, <1>2, Zenon

\* Every step keeps the types.
LEMMA TypeNext == ASSUME TypeOK, [Next]_vars PROVE TypeOK'
<1> USE ServerAssumption
<1>0. \A c \in Conns : context[c] \in Contexts
  BY DEF TypeOK
<1>1. ASSUME Listen PROVE TypeOK'
  <2>1. main_pc' \in {"start", "returned"} /\ listening' \in BOOLEAN
    BY <1>1 DEF Listen, TypeOK
  <2> QED
    BY <1>1, <2>1 DEF Listen, TypeOK, mutex_vars, control_vars, map_vars,
       pool_vars, history_vars
<1>2. ASSUME StartThreads PROVE TypeOK'
  BY <1>2 DEF StartThreads, TypeOK, mutex_vars, control_vars, map_vars,
     pool_vars, history_vars
<1>3. ASSUME MainTest PROVE TypeOK'
  BY <1>3 DEF MainTest, TypeOK, mutex_vars, control_vars, map_vars,
     pool_vars, history_vars
<1>4. ASSUME MainLock PROVE TypeOK'
  BY <1>4 DEF MainLock, Lock, TypeOK, mutex_vars, control_vars, map_vars,
     pool_vars, history_vars, Live
<1>5. ASSUME MainUnlock PROVE TypeOK'
  BY <1>5 DEF MainUnlock, Unlock, TypeOK, mutex_vars, control_vars,
     map_vars, pool_vars, history_vars
<1>6. ASSUME JoinThreads PROVE TypeOK'
  BY <1>6 DEF JoinThreads, TypeOK, mutex_vars, control_vars, map_vars,
     pool_vars, history_vars
<1>7. ASSUME DestroyPool PROVE TypeOK'
  BY <1>7 DEF DestroyPool, PoolDrained, TypeOK, mutex_vars, control_vars,
     map_vars, pool_vars, history_vars
<1>8. ASSUME DestroyConnections PROVE TypeOK'
  <2>1. \A c \in Conns : [context[c] EXCEPT !.socket = NoHandle] \in Contexts
    BY <1>0 DEF Contexts
  <2>2. context' \in [Conns -> Contexts]
    BY <1>8, <2>1 DEF DestroyConnections
  <2> QED
    BY <1>8, <2>2 DEF DestroyConnections, TypeOK, mutex_vars, control_vars,
       map_vars, pool_vars, history_vars
<1>9. ASSUME Stop PROVE TypeOK'
  <2>1. running' \in BOOLEAN /\ stop_requested' \in BOOLEAN
    BY <1>9 DEF Stop, TypeOK
  <2> QED
    BY <1>9, <2>1 DEF Stop, TypeOK, mutex_vars, control_vars, map_vars,
       pool_vars, history_vars
<1>10. ASSUME NEW c \in Conns, EnqueueHandler(c) PROVE TypeOK'
  <2> DEFINE x == [context[c] EXCEPT !.future = "pending"]
  <2>1. x \in Contexts
    BY <1>0 DEF Contexts, Futures
  <2>2. context' = [context EXCEPT ![c] = x]
    BY <1>10 DEF EnqueueHandler, TypeOK
  <2> HIDE DEF x
  <2>3. context' \in [Conns -> Contexts]
    BY <2>1, <2>2 DEF TypeOK
  <2> QED
    BY <1>10, <2>3 DEF EnqueueHandler, Visit, TypeOK, mutex_vars,
       control_vars, map_vars, pool_vars, history_vars
<1>11. ASSUME NEW c \in Conns, CollectResult(c) PROVE TypeOK'
  <2> DEFINE x == [context[c] EXCEPT
             !.future = "invalid",
             !.state = IF context[c].future = "finished" THEN "WRITING_RESPONSE_HEADER" ELSE @]
  <2>1. x \in Contexts
    BY <1>0 DEF Contexts, States, Futures
  <2>2. context' = [context EXCEPT ![c] = x]
    BY <1>11 DEF CollectResult, TypeOK
  <2> HIDE DEF x
  <2>3. context' \in [Conns -> Contexts]
    BY <2>1, <2>2 DEF TypeOK
  <2> QED
    BY <1>11, <2>3 DEF CollectResult, Visit, TypeOK, mutex_vars,
       control_vars, map_vars, pool_vars, history_vars
<1>12. ASSUME NEW c \in Conns, CollectException(c) PROVE TypeOK'
  BY <1>12 DEF CollectException, Visit, HasHandler, TypeOK, mutex_vars,
     control_vars, map_vars, pool_vars, history_vars
<1>13. ASSUME NEW c \in Conns, NothingToRun(c) PROVE TypeOK'
  BY <1>13 DEF NothingToRun, Visit, HasHandler, TypeOK, mutex_vars,
     control_vars, map_vars, pool_vars, history_vars
<1>14. ASSUME NEW w \in Workers, WorkerStart(w) PROVE TypeOK'
  BY <1>14 DEF WorkerStart, TypeOK, mutex_vars, control_vars, map_vars,
     pool_vars, history_vars
<1>15. ASSUME NEW w \in Workers, NEW c \in Conns, HandlerFinishes(w, c)
      PROVE  TypeOK'
  <2>0. PICK h \in HeaderSizes, b \in BodySizes :
           context' = [context EXCEPT
             ![c].future = "finished",
             ![c].response = [header |-> h, body |-> b]]
    BY <1>15 DEF HandlerFinishes
  <2> DEFINE x == [context[c] EXCEPT
             !.future = "finished",
             !.response = [header |-> h, body |-> b]]
  <2>1. x \in Contexts
    BY <1>0 DEF Contexts, Sizes, Futures
  <2>2. context' = [context EXCEPT ![c] = x]
    BY <2>0 DEF TypeOK
  <2> HIDE DEF x
  <2>3. context' \in [Conns -> Contexts]
    BY <2>1, <2>2 DEF TypeOK
  <2> QED
    BY <1>15, <2>3 DEF HandlerFinishes, WorkerEnds, TypeOK, mutex_vars,
       control_vars, map_vars, pool_vars, history_vars
<1>16. ASSUME NEW w \in Workers, NEW c \in Conns, HandlerAsksAgain(w, c)
      PROVE  TypeOK'
  <2> DEFINE x == [context[c] EXCEPT !.future = "again"]
  <2>1. x \in Contexts
    BY <1>0 DEF Contexts, Futures
  <2>2. context' = [context EXCEPT ![c] = x]
    BY <1>16 DEF HandlerAsksAgain, WorkerEnds, TypeOK
  <2> HIDE DEF x
  <2>3. context' \in [Conns -> Contexts]
    BY <2>1, <2>2 DEF TypeOK
  <2> QED
    BY <1>16, <2>3 DEF HandlerAsksAgain, WorkerEnds, TypeOK, mutex_vars,
       control_vars, map_vars, pool_vars, history_vars
<1>17. ASSUME NEW w \in Workers, NEW c \in Conns, HandlerThrows(w, c)
      PROVE  TypeOK'
  <2> DEFINE x == [context[c] EXCEPT !.future = "threw"]
  <2>1. x \in Contexts
    BY <1>0 DEF Contexts, Futures
  <2>2. context' = [context EXCEPT ![c] = x]
    BY <1>17 DEF HandlerThrows, WorkerEnds, TypeOK
  <2> HIDE DEF x
  <2>3. context' \in [Conns -> Contexts]
    BY <2>1, <2>2 DEF TypeOK
  <2> QED
    BY <1>17, <2>3 DEF HandlerThrows, WorkerEnds, TypeOK, mutex_vars,
       control_vars, map_vars, pool_vars, history_vars
<1>18. ASSUME ConnectionTest PROVE TypeOK'
  BY <1>18 DEF ConnectionTest, TypeOK, mutex_vars, control_vars, map_vars,
     pool_vars, history_vars
<1>19. ASSUME NEW h \in Handles, NEW c \in Conns, Accept(h, c) PROVE TypeOK'
  <2>1. <<>> \in Seq(Units)
    OBVIOUS
  <2>2. NewContext(h) \in Contexts
    BY <2>1 DEF NewContext, Contexts, Sizes, States, Futures, Endings
  <2>3. context' \in [Conns -> Contexts]
    BY <1>19, <2>2 DEF Accept, TypeOK
  <2> QED
    BY <1>19, <2>3 DEF Accept, TypeOK, mutex_vars, control_vars, map_vars,
       pool_vars, history_vars
<1>20. ASSUME AcceptNothing PROVE TypeOK'
  BY <1>20 DEF AcceptNothing, TypeOK, mutex_vars, control_vars, map_vars,
     pool_vars, history_vars
<1>21. ASSUME Emplace PROVE TypeOK'
  <2>1. ASSUME arriving \in Conns PROVE context' \in [Conns -> Contexts]
    <3> DEFINE s == IF connections[context[arriving].socket] = NoConn
                      THEN context[arriving].socket ELSE NoHandle
               x == [context[arriving] EXCEPT !.socket = s]
    <3>1. s \in Handles \cup {NoHandle}
      BY <1>0, <2>1 DEF Contexts
    <3>2. x \in Contexts
      BY <1>0, <2>1, <3>1 DEF Contexts
    <3>3. context' = [context EXCEPT ![arriving] = x]
      BY <1>0, <1>21, <2>1 DEF TypeOK, Emplace
    <3> QED
      BY <2>1, <3>2, <3>3 DEF TypeOK
  <2>2. ASSUME arriving \notin Conns PROVE context' \in [Conns -> Contexts]
    BY <1>21, <2>2 DEF TypeOK, Emplace
  <2>3. context' \in [Conns -> Contexts]
    BY <2>1, <2>2
  <2> QED
    BY <1>21, <2>3 DEF Emplace, TypeOK, mutex_vars, control_vars, map_vars,
       pool_vars, history_vars
<1>22. ASSUME CloseLock PROVE TypeOK'
  BY <1>22 DEF CloseLock, Lock, TypeOK, mutex_vars, control_vars, map_vars,
     pool_vars, history_vars, Live
<1>23. ASSUME CloseUnlock PROVE TypeOK'
  BY <1>23 DEF CloseUnlock, Unlock, TypeOK, mutex_vars, control_vars,
     map_vars, pool_vars, history_vars
<1>24. ASSUME NEW c \in Conns, CloseAndErase(c) PROVE TypeOK'
  <2> DEFINE x == [context[c] EXCEPT
             !.socket = NoHandle,
             !.ending = IF context[c].state = "CLOSED" THEN @ ELSE "timeout"]
  <2>1. x \in Contexts
    BY <1>0 DEF Contexts, Endings
  <2>2. context' = [context EXCEPT ![c] = x]
    BY <1>24 DEF CloseAndErase, TypeOK
  <2> HIDE DEF x
  <2>3. context' \in [Conns -> Contexts]
    BY <2>1, <2>2 DEF TypeOK
  <2>4. connections' \in [Handles -> Conns \cup {NoConn}]
    BY <1>24 DEF CloseAndErase, TypeOK
  <2> QED
    BY <1>24, <2>3, <2>4 DEF CloseAndErase, Visit, TypeOK, mutex_vars,
       control_vars, map_vars, pool_vars, history_vars
<1>25. ASSUME NEW c \in Conns, KeepConnection(c) PROVE TypeOK'
  BY <1>25 DEF KeepConnection, Visit, TimedOut, TypeOK, mutex_vars,
     control_vars, map_vars, pool_vars, history_vars
<1>26. ASSUME NEW c \in Conns, Expire(c) PROVE TypeOK'
  <2> DEFINE x == [context[c] EXCEPT !.expired = TRUE]
  <2>1. x \in Contexts
    BY <1>0 DEF Contexts
  <2>2. context' = [context EXCEPT ![c] = x]
    BY <1>26 DEF Expire, TypeOK
  <2> HIDE DEF x
  <2>3. context' \in [Conns -> Contexts]
    BY <2>1, <2>2 DEF TypeOK
  <2> QED
    BY <1>26, <2>3 DEF Expire, TypeOK, mutex_vars, control_vars, map_vars,
       pool_vars, history_vars
<1>27. ASSUME DataTest PROVE TypeOK'
  BY <1>27 DEF DataTest, TypeOK, mutex_vars, control_vars, map_vars,
     pool_vars, history_vars
<1>28. ASSUME DataLock PROVE TypeOK'
  BY <1>28 DEF DataLock, Lock, TypeOK, mutex_vars, control_vars, map_vars,
     pool_vars, history_vars, Live
<1>29. ASSUME DataUnlock PROVE TypeOK'
  BY <1>29 DEF DataUnlock, Unlock, TypeOK, mutex_vars, control_vars,
     map_vars, pool_vars, history_vars
<1>30. ASSUME NEW c \in Conns, ReceiveEmpty(c) PROVE TypeOK'
  BY <1>30 DEF ReceiveEmpty, DataVisit, Visit, TypeOK, mutex_vars,
     control_vars, map_vars, pool_vars, history_vars
<1>31. ASSUME NEW c \in Conns, ReceiveClosed(c) PROVE TypeOK'
  <2> DEFINE x == [context[c] EXCEPT
             !.state = "CLOSED",
             !.ending = "peer_closed"]
  <2>1. x \in Contexts
    BY <1>0 DEF Contexts, States, Endings
  <2>2. context' = [context EXCEPT ![c] = x]
    BY <1>31 DEF ReceiveClosed, DataVisit, TypeOK
  <2> HIDE DEF x
  <2>3. context' \in [Conns -> Contexts]
    BY <2>1, <2>2 DEF TypeOK
  <2> QED
    BY <1>31, <2>3 DEF ReceiveClosed, DataVisit, Visit, TypeOK, mutex_vars,
       control_vars, map_vars, pool_vars, history_vars
<1>32. ASSUME NEW c \in Conns, ReceivePart(c) PROVE TypeOK'
  <2> DEFINE x == [context[c] EXCEPT !.expired = FALSE]
  <2>1. x \in Contexts
    BY <1>0 DEF Contexts
  <2>2. context' = [context EXCEPT ![c] = x]
    BY <1>32 DEF ReceivePart, DataVisit, TypeOK
  <2> HIDE DEF x
  <2>3. context' \in [Conns -> Contexts]
    BY <2>1, <2>2 DEF TypeOK
  <2> QED
    BY <1>32, <2>3 DEF ReceivePart, DataVisit, Visit, TypeOK, mutex_vars,
       control_vars, map_vars, pool_vars, history_vars
<1>33. ASSUME NEW c \in Conns, ReceiveRequest(c) PROVE TypeOK'
  <2> DEFINE x == [context[c] EXCEPT
             !.state = "RUNNING_HANDLER",
             !.handler = TRUE,
             !.expired = FALSE]
  <2>1. x \in Contexts
    BY <1>0 DEF Contexts, States
  <2>2. context' = [context EXCEPT ![c] = x]
    BY <1>33 DEF ReceiveRequest, DataVisit, TypeOK
  <2> HIDE DEF x
  <2>3. context' \in [Conns -> Contexts]
    BY <2>1, <2>2 DEF TypeOK
  <2> QED
    BY <1>33, <2>3 DEF ReceiveRequest, DataVisit, Visit, TypeOK, mutex_vars,
       control_vars, map_vars, pool_vars, history_vars
<1>34. ASSUME NEW c \in Conns, ReceiveUnknown(c) PROVE TypeOK'
  <2>0. PICK h \in HeaderSizes, b \in BodySizes :
           context' = [context EXCEPT
             ![c].state = "WRITING_RESPONSE_HEADER",
             ![c].response = [header |-> h, body |-> b],
             ![c].expired = FALSE]
    BY <1>34 DEF ReceiveUnknown
  <2> DEFINE x == [context[c] EXCEPT
             !.state = "WRITING_RESPONSE_HEADER",
             !.response = [header |-> h, body |-> b],
             !.expired = FALSE]
  <2>1. x \in Contexts
    BY <1>0 DEF Contexts, Sizes, States
  <2>2. context' = [context EXCEPT ![c] = x]
    BY <2>0 DEF TypeOK
  <2> HIDE DEF x
  <2>3. context' \in [Conns -> Contexts]
    BY <2>1, <2>2 DEF TypeOK
  <2> QED
    BY <1>34, <2>3 DEF ReceiveUnknown, DataVisit, Visit, TypeOK, mutex_vars,
       control_vars, map_vars, pool_vars, history_vars
<1>35. ASSUME NEW c \in Conns, CreateHandlerThrows(c) PROVE TypeOK'
  BY <1>35 DEF CreateHandlerThrows, DataVisit, Visit, TypeOK, mutex_vars,
     control_vars, map_vars, pool_vars, history_vars
<1>36. ASSUME NEW c \in Conns, NEW n \in 0 .. context[c].response.header - context[c].sent, HeaderSent(c, n)
      PROVE  TypeOK'
  <2> DEFINE done == context[c].sent + n = context[c].response.header
             v == context[c].wire \o NextUnits("header", context[c].sent, n)
             s == IF done THEN 0 ELSE context[c].sent + n
             t == IF done THEN "WRITING_RESPONSE_BODY" ELSE context[c].state
             e == context[c].expired /\ n = 0
             x == [context[c] EXCEPT !.wire = v, !.sent = s, !.state = t,
                                     !.expired = e]
  <2>0. context[c].sent \in Nat /\ context[c].response \in Sizes
    BY <1>0 DEF Contexts
  <2>1. context[c].sent \in Nat /\ context[c].response.header \in Nat /\ n \in Nat
    BY <2>0, SizesNat
  <2>2. /\ context[c].wire \in Seq(Units)
        /\ NextUnits("header", context[c].sent, n) \in Seq(Units)
    BY <1>0, <2>1, NextUnitsType DEF Contexts
  <2>3. v \in Seq(Units)
    BY <2>2, WireGrows
  <2>4. s \in Nat /\ t \in States /\ e \in BOOLEAN
    BY <1>0, <2>1 DEF Contexts, States
  <2>5. context' = [context EXCEPT ![c] = x]
    BY <1>36 DEF HeaderSent, TypeOK
  <2> HIDE DEF v, s, t, e
  <2>6. x \in Contexts
    BY <1>0, <2>3, <2>4 DEF Contexts
  <2> HIDE DEF x
  <2>7. context' \in [Conns -> Contexts]
    BY <2>5, <2>6 DEF TypeOK
  <2> QED
    BY <1>36, <2>7 DEF HeaderSent, DataVisit, Visit, TypeOK, mutex_vars,
       control_vars, map_vars, pool_vars, history_vars
<1>37. ASSUME NEW c \in Conns, NEW n \in 0 .. context[c].response.body - context[c].sent, BodySent(c, n)
      PROVE  TypeOK'
  <2> DEFINE done == context[c].sent + n = context[c].response.body
             v == context[c].wire \o NextUnits("body", context[c].sent, n)
             s == context[c].sent + n
             t == IF done THEN "CLOSED" ELSE context[c].state
             g == IF done THEN "answered" ELSE context[c].ending
             e == context[c].expired /\ n = 0
             x == [context[c] EXCEPT !.wire = v, !.sent = s, !.state = t,
                                     !.ending = g, !.expired = e]
  <2>0. context[c].sent \in Nat /\ context[c].response \in Sizes
    BY <1>0 DEF Contexts
  <2>1. context[c].sent \in Nat /\ context[c].response.body \in Nat /\ n \in Nat
    BY <2>0, SizesNat
  <2>2. /\ context[c].wire \in Seq(Units)
        /\ NextUnits("body", context[c].sent, n) \in Seq(Units)
    BY <1>0, <2>1, NextUnitsType DEF Contexts
  <2>3. v \in Seq(Units)
    BY <2>2, WireGrows
  <2>4. s \in Nat /\ t \in States /\ e \in BOOLEAN /\ g \in Endings
    BY <1>0, <2>1 DEF Contexts, States, Endings
  <2>5. context' = [context EXCEPT ![c] = x]
    BY <1>37 DEF BodySent, TypeOK
  <2> HIDE DEF v, s, t, e, g
  <2>6. x \in Contexts
    BY <1>0, <2>3, <2>4 DEF Contexts
  <2> HIDE DEF x
  <2>7. context' \in [Conns -> Contexts]
    BY <2>5, <2>6 DEF TypeOK
  <2> QED
    BY <1>37, <2>7 DEF BodySent, DataVisit, Visit, TypeOK, mutex_vars,
       control_vars, map_vars, pool_vars, history_vars
<1>38. ASSUME NEW c \in Conns, TransferFails(c) PROVE TypeOK'
  <2> DEFINE x == [context[c] EXCEPT !.state = "CLOSED", !.ending = "failed"]
  <2>1. x \in Contexts
    BY <1>0 DEF Contexts, States, Endings
  <2>2. context' = [context EXCEPT ![c] = x]
    BY <1>38 DEF TransferFails, DataVisit, TypeOK
  <2> HIDE DEF x
  <2>3. context' \in [Conns -> Contexts]
    BY <2>1, <2>2 DEF TypeOK
  <2> QED
    BY <1>38, <2>3 DEF TransferFails, DataVisit, Visit, TypeOK, mutex_vars,
       control_vars, map_vars, pool_vars, history_vars
<1>39. ASSUME NEW c \in Conns, NothingToTransfer(c) PROVE TypeOK'
  BY <1>39 DEF NothingToTransfer, DataVisit, Visit, TypeOK, mutex_vars,
     control_vars, map_vars, pool_vars, history_vars
<1>40. ASSUME UNCHANGED vars PROVE TypeOK'
  BY <1>40 DEF vars, mutex_vars, control_vars, map_vars, pool_vars,
     history_vars, TypeOK
<1> QED
  BY <1>1, <1>2, <1>3, <1>4, <1>5, <1>6, <1>7, <1>8, <1>9, <1>10, <1>11,
     <1>12, <1>13, <1>14, <1>15, <1>16, <1>17, <1>18, <1>19, <1>20, <1>21,
     <1>22, <1>23, <1>24, <1>25, <1>26, <1>27, <1>28, <1>29, <1>30, <1>31,
     <1>32, <1>33, <1>34, <1>35, <1>36, <1>37, <1>38, <1>39, <1>40 DEF Next,
     MainStep, ConnectionStep, DataStep, RunHandlersVisit, CloseInactiveVisit,
     TransferVisit, HandlerReturns, WriteHeader, WriteBody

-----------------------------------------------------------------------------
(* The inductive invariant holds *)

\* The queue of the pool as the lemmas about queues name it.
LEMMA QueuedElements ==
  /\ Queued = Elements(pool_queue)
  /\ Queued' = Elements(pool_queue')
  BY DEF Queued, Elements

\* A step that leaves the map and every socket alone keeps their agreement.
LEMMA MapFrame ==
  ASSUME Unused, SocketsOwned, UNCHANGED map_vars,
         conn_pc = "emplace" => conn_pc' = "emplace",
         \A c \in Conns : context'[c].socket = context[c].socket,
         arriving \in Conns \cup {NoConn}
  PROVE  Unused' /\ SocketsOwned'
<1> USE ServerAssumption DEF map_vars
<1>1. Unused'
  BY DEF Unused
<1>2. SocketsOwned'
  BY DEF SocketsOwned
<1> QED
  BY <1>1, <1>2

\* A context whose handler the pool has or runs.
Busy(x) == x.state = "RUNNING_HANDLER" /\ x.future = "pending"

\* What the pool has and runs does not change unless its variables do.
LEMMA QueueFrame ==
  ASSUME OneTaskPerConnection, UNCHANGED pool_vars
  PROVE  OneTaskPerConnection'
<1>1. Queued' = Queued /\ Running' = Running
  BY DEF pool_vars, Queued, Running
<1> QED
  BY <1>1 DEF OneTaskPerConnection, pool_vars

\* A step that leaves the pool and the map alone, and every busy context busy,
\* keeps the references of the pool valid.
LEMMA PoolFrame ==
  ASSUME PoolTasksAlive, OneTaskPerConnection, TypeOK,
         UNCHANGED <<pool_vars, connections>>,
         \A c \in Conns : Busy(context[c]) => Busy(context'[c])
  PROVE  PoolTasksAlive' /\ OneTaskPerConnection'
<1>1. Queued' = Queued /\ Running' = Running /\ Live' = Live
  BY DEF pool_vars, Queued, Running, Live
<1>2. Live \subseteq Conns
  BY DEF TypeOK, Live
<1>3. PoolTasksAlive'
  BY <1>1, <1>2 DEF PoolTasksAlive, Busy
<1> QED
  BY <1>3, QueueFrame

\* When a worker is done with a context, the pool has no other task for it.
LEMMA WorkerEndsFrame ==
  ASSUME TypeOK, PoolTasksAlive, OneTaskPerConnection,
         NEW w \in Workers, NEW c \in Conns, WorkerEnds(w, c),
         \A d \in Conns \ {c} : context'[d] = context[d]
  PROVE  PoolTasksAlive' /\ OneTaskPerConnection'
<1>1. /\ Queued' = Queued /\ Live' = Live /\ c \in Running
      /\ pool_queue' = pool_queue
  BY DEF WorkerEnds, map_vars, Queued, Live, Running
<1>2. \A v \in Workers : v # w => worker_conn'[v] = worker_conn[v]
  BY DEF WorkerEnds
<1>3. worker_conn'[w] = NoConn
  BY DEF WorkerEnds, TypeOK
<1>4. \A v \in Workers : v # w => worker_conn[v] # c
  BY DEF WorkerEnds, OneTaskPerConnection
<1>5. Running' \subseteq Running \ {c}
  BY <1>2, <1>3, <1>4 DEF Running
<1>6. c \notin Queued' \cup Running'
  BY <1>1, <1>5 DEF OneTaskPerConnection
<1>7. Live \subseteq Conns
  BY DEF TypeOK, Live
<1>8. PoolTasksAlive'
  BY <1>1, <1>5, <1>6, <1>7 DEF PoolTasksAlive
<1>9. OneTaskPerConnection'
  BY <1>1, <1>2, <1>3, <1>5 DEF OneTaskPerConnection
<1> QED
  BY <1>8, <1>9

\* Every step of every thread keeps the invariant.
LEMMA NextInv == ASSUME IInv, [Next]_vars PROVE IInv'
<1> USE ServerAssumption
<1>0. TypeOK /\ TypeOK'
  BY TypeNext DEF IInv
<1>ctx. context \in [Conns -> Contexts]
  BY <1>0 DEF TypeOK
<1> USE DEF IInv
<1>1. ASSUME Listen PROVE IInv'
  <2>1. Lifecycle' /\ PassesExclude'
    BY <1>1, <1>0 DEF Listen, mutex_vars, control_vars, map_vars, pool_vars,
       history_vars, TypeOK, Lifecycle, PassesExclude, Live
  <2>2. Unused' /\ SocketsOwned'
    BY <1>1, <1>0, MapFrame DEF Listen, TypeOK, map_vars
  <2>3. PoolTasksAlive' /\ OneTaskPerConnection'
    BY <1>1, <1>0, PoolFrame DEF Listen, map_vars
  <2> QED
    BY <1>0, <2>1, <2>2, <2>3
<1>2. ASSUME StartThreads PROVE IInv'
  <2>1. Lifecycle' /\ PassesExclude'
    BY <1>2, <1>0 DEF StartThreads, mutex_vars, control_vars, map_vars,
       pool_vars, history_vars, TypeOK, Lifecycle, PassesExclude, Live
  <2>2. Unused' /\ SocketsOwned'
    BY <1>2, <1>0, MapFrame DEF StartThreads, TypeOK, map_vars, Lifecycle
  <2>3. PoolTasksAlive' /\ OneTaskPerConnection'
    BY <1>2, <1>0, PoolFrame DEF StartThreads, map_vars
  <2> QED
    BY <1>0, <2>1, <2>2, <2>3
<1>3. ASSUME MainTest PROVE IInv'
  <2>1. Lifecycle' /\ PassesExclude'
    BY <1>3, <1>0 DEF MainTest, mutex_vars, control_vars, map_vars,
       pool_vars, history_vars, TypeOK, Lifecycle, PassesExclude, Live
  <2>2. Unused' /\ SocketsOwned'
    BY <1>3, <1>0, MapFrame DEF MainTest, TypeOK, map_vars
  <2>3. PoolTasksAlive' /\ OneTaskPerConnection'
    BY <1>3, <1>0, PoolFrame DEF MainTest, map_vars
  <2> QED
    BY <1>0, <2>1, <2>2, <2>3
<1>4. ASSUME MainLock PROVE IInv'
  <2>1. Lifecycle' /\ PassesExclude'
    BY <1>4, <1>0 DEF MainLock, Lock, mutex_vars, control_vars, map_vars,
       pool_vars, history_vars, TypeOK, Lifecycle, PassesExclude, Live
  <2>2. Unused' /\ SocketsOwned'
    BY <1>4, <1>0, MapFrame DEF MainLock, Lock, TypeOK, map_vars
  <2>3. PoolTasksAlive' /\ OneTaskPerConnection'
    BY <1>4, <1>0, PoolFrame DEF MainLock, Lock, map_vars
  <2> QED
    BY <1>0, <2>1, <2>2, <2>3
<1>5. ASSUME MainUnlock PROVE IInv'
  <2>1. Lifecycle' /\ PassesExclude'
    BY <1>5, <1>0 DEF MainUnlock, Unlock, mutex_vars, control_vars,
       map_vars, pool_vars, history_vars, TypeOK, Lifecycle, PassesExclude,
       Live
  <2>2. Unused' /\ SocketsOwned'
    BY <1>5, <1>0, MapFrame DEF MainUnlock, Unlock, TypeOK, map_vars
  <2>3. PoolTasksAlive' /\ OneTaskPerConnection'
    BY <1>5, <1>0, PoolFrame DEF MainUnlock, Unlock, map_vars
  <2> QED
    BY <1>0, <2>1, <2>2, <2>3
<1>6. ASSUME JoinThreads PROVE IInv'
  <2>1. Lifecycle' /\ PassesExclude'
    BY <1>6, <1>0 DEF JoinThreads, mutex_vars, control_vars, map_vars,
       pool_vars, history_vars, TypeOK, Lifecycle, PassesExclude, Live
  <2>2. Unused' /\ SocketsOwned'
    BY <1>6, <1>0, MapFrame DEF JoinThreads, TypeOK, map_vars
  <2>3. PoolTasksAlive' /\ OneTaskPerConnection'
    BY <1>6, <1>0, PoolFrame DEF JoinThreads, map_vars
  <2> QED
    BY <1>0, <2>1, <2>2, <2>3
<1>7. ASSUME DestroyPool PROVE IInv'
  <2>1. \A w \in Workers : worker_conn[w] = NoConn
    BY <1>7 DEF DestroyPool, PoolDrained, Running
  <2>2. Queued' = {} /\ Running' = {}
    BY <1>7, <2>1 DEF DestroyPool, Queued, Running
  <2>3. Lifecycle' /\ PassesExclude'
    BY <1>7, <2>1 DEF DestroyPool, mutex_vars, map_vars, Lifecycle,
      PassesExclude, Live
  <2>4. Unused' /\ SocketsOwned'
    BY <1>7, <1>0, MapFrame DEF DestroyPool, TypeOK
  <2>5. PoolTasksAlive'
    BY <2>2 DEF PoolTasksAlive
  <2>6. OneTaskPerConnection'
    BY <1>7, <2>1, <2>2 DEF DestroyPool, OneTaskPerConnection
  <2> QED
    BY <1>0, <2>3, <2>4, <2>5, <2>6
<1>8. ASSUME DestroyConnections PROVE IInv'
  <2>1. \A c \in Conns : context'[c].socket = NoHandle
    BY <1>8, <1>ctx DEF DestroyConnections, Contexts
  <2>2. arriving = NoConn /\ connections_mutex = "free"
    BY <1>8, <1>0 DEF DestroyConnections, Lifecycle, SocketsOwned, PassesExclude,
      TypeOK
  <2>3. Queued = {} /\ Running = {}
    BY <1>8 DEF DestroyConnections, Lifecycle, Queued, Running
  <2>4. Lifecycle' /\ PassesExclude'
    BY <1>8, <2>2 DEF DestroyConnections, mutex_vars, pool_vars, Lifecycle,
      PassesExclude
  <2>5. Unused' /\ SocketsOwned'
    <3>1. /\ arriving' = NoConn
          /\ \A h \in Handles : connections'[h] = NoConn
      BY <1>8, <2>2 DEF DestroyConnections
    <3>2. \A h \in Handles, c \in Conns :
             connections'[h] # c /\ context'[c].socket # h
      BY <2>1, <3>1
    <3> QED
      BY <2>1, <3>1, <3>2 DEF Unused, SocketsOwned
  <2>6. PoolTasksAlive'
    <3>1. Queued' = {} /\ Running' = {}
      BY <1>8, <2>3 DEF DestroyConnections, pool_vars, Queued, Running
    <3> QED
      BY <3>1 DEF PoolTasksAlive
  <2>7. OneTaskPerConnection'
    BY <1>8, QueueFrame DEF DestroyConnections
  <2> QED
    BY <1>0, <2>4, <2>5, <2>6, <2>7
<1>9. ASSUME Stop PROVE IInv'
  <2>1. Lifecycle' /\ PassesExclude'
    BY <1>9, <1>0 DEF Stop, mutex_vars, control_vars, map_vars, pool_vars,
       history_vars, TypeOK, Lifecycle, PassesExclude, Live
  <2>2. Unused' /\ SocketsOwned'
    BY <1>9, <1>0, MapFrame DEF Stop, TypeOK, map_vars
  <2>3. PoolTasksAlive' /\ OneTaskPerConnection'
    BY <1>9, <1>0, PoolFrame DEF Stop, map_vars
  <2> QED
    BY <1>0, <2>1, <2>2, <2>3
<1>10. ASSUME NEW c \in Conns, EnqueueHandler(c) PROVE IInv'
  <2>1. c \in Live /\ Busy(context'[c]) /\ ~Busy(context[c])
    BY <1>10, <1>0 DEF EnqueueHandler, Visit, HasHandler, PassesExclude, Busy,
      TypeOK, Contexts
  <2>2. \A d \in Conns : /\ context'[d].socket = context[d].socket
                         /\ d # c => context'[d] = context[d]
    BY <1>10, <1>ctx DEF EnqueueHandler, Contexts
  <2>3. /\ Queued' = Queued \cup {c}
        /\ Running' = Running
        /\ Live' = Live
    BY <1>10, <1>0, AppendElements, QueuedElements
      DEF EnqueueHandler, map_vars, TypeOK, Running, Live
  <2>4. c \notin Queued \cup Running
    BY <2>1 DEF PoolTasksAlive, Busy
  <2>5. Lifecycle' /\ PassesExclude'
    BY <1>10, <1>0 DEF EnqueueHandler, Visit, control_vars, map_vars, Lifecycle,
      PassesExclude, Live
  <2>6. Unused' /\ SocketsOwned'
    BY <1>10, <2>2, <1>0, MapFrame DEF EnqueueHandler, control_vars, TypeOK
  <2>7. Live \subseteq Conns
    BY <1>0 DEF TypeOK, Live
  <2>8. PoolTasksAlive'
    BY <2>1, <2>2, <2>3, <2>7 DEF PoolTasksAlive, Busy
  <2>9. Distinct(pool_queue)
    BY DEF OneTaskPerConnection, Distinct
  <2>10. Distinct(pool_queue')
    BY <1>10, <1>0, <2>4, <2>9, AppendDistinct, QueuedElements
      DEF EnqueueHandler, TypeOK
  <2>11. OneTaskPerConnection'
    BY <1>10, <2>3, <2>4, <2>10 DEF EnqueueHandler, OneTaskPerConnection, Distinct
  <2> QED
    BY <1>0, <2>5, <2>6, <2>8, <2>11
<1>11. ASSUME NEW c \in Conns, CollectResult(c) PROVE IInv'
  <2>1. \A d \in Conns : /\ context'[d].socket = context[d].socket
                         /\ Busy(context[d]) => Busy(context'[d])
    BY <1>11, <1>ctx DEF CollectResult, Contexts, Busy
  <2>2. Lifecycle' /\ PassesExclude'
    BY <1>11, <1>0 DEF CollectResult, Visit, mutex_vars, control_vars,
       map_vars, pool_vars, history_vars, Lifecycle, PassesExclude, Live
  <2>3. Unused' /\ SocketsOwned'
    BY <1>11, <1>0, <2>1, MapFrame DEF CollectResult, Visit, control_vars,
       TypeOK
  <2>4. PoolTasksAlive' /\ OneTaskPerConnection'
    BY <1>11, <1>0, <2>1, PoolFrame DEF CollectResult, Visit, map_vars
  <2> QED
    BY <1>0, <2>2, <2>3, <2>4
<1>12. ASSUME NEW c \in Conns, CollectException(c) PROVE IInv'
  <2>1. Lifecycle' /\ PassesExclude'
    BY <1>12, <1>0 DEF CollectException, Visit, mutex_vars, control_vars,
       map_vars, pool_vars, history_vars, TypeOK, Lifecycle, PassesExclude,
       Live
  <2>2. Unused' /\ SocketsOwned'
    BY <1>12, <1>0, MapFrame DEF CollectException, Visit, TypeOK, map_vars,
       control_vars
  <2>3. PoolTasksAlive' /\ OneTaskPerConnection'
    BY <1>12, <1>0, PoolFrame DEF CollectException, Visit, map_vars
  <2> QED
    BY <1>0, <2>1, <2>2, <2>3
<1>13. ASSUME NEW c \in Conns, NothingToRun(c) PROVE IInv'
  <2>1. Lifecycle' /\ PassesExclude'
    BY <1>13, <1>0 DEF NothingToRun, Visit, mutex_vars, control_vars,
       map_vars, pool_vars, history_vars, TypeOK, Lifecycle, PassesExclude,
       Live
  <2>2. Unused' /\ SocketsOwned'
    BY <1>13, <1>0, MapFrame DEF NothingToRun, Visit, TypeOK, map_vars,
       control_vars
  <2>3. PoolTasksAlive' /\ OneTaskPerConnection'
    BY <1>13, <1>0, PoolFrame DEF NothingToRun, Visit, map_vars
  <2> QED
    BY <1>0, <2>1, <2>2, <2>3
<1>14. ASSUME NEW w \in Workers, WorkerStart(w) PROVE IInv'
  <2> DEFINE c == Head(pool_queue)
  <2>1. c \in Conns /\ Queued = {c} \cup Queued'
    BY <1>14, <1>0, TakeElements, QueuedElements DEF WorkerStart, TypeOK
  <2>2. Distinct(pool_queue)
    BY DEF OneTaskPerConnection, Distinct
  <2>3. Distinct(pool_queue') /\ c \notin Queued'
    BY <1>14, <1>0, <2>2, TakeDistinct, QueuedElements DEF WorkerStart, TypeOK
  <2>4. worker_conn' = [worker_conn EXCEPT ![w] = c]
    BY <1>14 DEF WorkerStart
  <2> HIDE DEF c
  <2>5. Running' \subseteq Running \cup {c}
    BY <1>0, <2>4 DEF TypeOK, Running
  <2>6. Lifecycle' /\ PassesExclude'
    BY <1>14 DEF WorkerStart, mutex_vars, control_vars, map_vars, Lifecycle,
      PassesExclude, Live
  <2>7. Unused' /\ SocketsOwned'
    BY <1>14, <1>0, MapFrame DEF WorkerStart, control_vars, TypeOK
  <2>8. PoolTasksAlive'
    BY <1>14, <2>1, <2>5 DEF WorkerStart, map_vars, PoolTasksAlive, Live
  <2>9. c \notin Running
    BY <2>1 DEF OneTaskPerConnection
  <2>10. \A u, v \in Workers :
           worker_conn'[u] = worker_conn'[v] /\ worker_conn'[u] # NoConn => u = v
    BY <1>0, <2>4, <2>9 DEF TypeOK, OneTaskPerConnection, Running
  <2>11. OneTaskPerConnection'
    BY <2>1, <2>3, <2>5, <2>10 DEF OneTaskPerConnection, Distinct
  <2> QED
    BY <1>0, <2>6, <2>7, <2>8, <2>11
<1>15. ASSUME NEW w \in Workers, NEW c \in Conns, HandlerFinishes(w, c)
      PROVE  IInv'
  <2>1. WorkerEnds(w, c)
    BY <1>15 DEF HandlerFinishes
  <2>2. \A d \in Conns : /\ context'[d].socket = context[d].socket
                         /\ d # c => context'[d] = context[d]
    BY <1>15, <1>ctx DEF HandlerFinishes, Contexts
  <2>3. Lifecycle' /\ PassesExclude'
    BY <2>1, <1>0 DEF WorkerEnds, mutex_vars, control_vars, map_vars, Lifecycle, TypeOK,
      PassesExclude, Live
  <2>4. Unused' /\ SocketsOwned'
    BY <2>1, <2>2, <1>0, MapFrame DEF WorkerEnds, control_vars, TypeOK
  <2>5. PoolTasksAlive' /\ OneTaskPerConnection'
    BY <2>1, <2>2, <1>0, WorkerEndsFrame
  <2> QED
    BY <1>0, <2>3, <2>4, <2>5
<1>16. ASSUME NEW w \in Workers, NEW c \in Conns, HandlerAsksAgain(w, c)
      PROVE  IInv'
  <2>1. WorkerEnds(w, c)
    BY <1>16 DEF HandlerAsksAgain
  <2>2. \A d \in Conns : /\ context'[d].socket = context[d].socket
                         /\ d # c => context'[d] = context[d]
    BY <1>16, <1>ctx DEF HandlerAsksAgain, Contexts
  <2>3. Lifecycle' /\ PassesExclude'
    BY <2>1, <1>0 DEF WorkerEnds, mutex_vars, control_vars, map_vars, Lifecycle, TypeOK,
      PassesExclude, Live
  <2>4. Unused' /\ SocketsOwned'
    BY <2>1, <2>2, <1>0, MapFrame DEF WorkerEnds, control_vars, TypeOK
  <2>5. PoolTasksAlive' /\ OneTaskPerConnection'
    BY <2>1, <2>2, <1>0, WorkerEndsFrame
  <2> QED
    BY <1>0, <2>3, <2>4, <2>5
<1>17. ASSUME NEW w \in Workers, NEW c \in Conns, HandlerThrows(w, c)
      PROVE  IInv'
  <2>1. WorkerEnds(w, c)
    BY <1>17 DEF HandlerThrows
  <2>2. \A d \in Conns : /\ context'[d].socket = context[d].socket
                         /\ d # c => context'[d] = context[d]
    BY <1>17, <1>ctx DEF HandlerThrows, Contexts
  <2>3. Lifecycle' /\ PassesExclude'
    BY <2>1, <1>0 DEF WorkerEnds, mutex_vars, control_vars, map_vars, Lifecycle, TypeOK,
      PassesExclude, Live
  <2>4. Unused' /\ SocketsOwned'
    BY <2>1, <2>2, <1>0, MapFrame DEF WorkerEnds, control_vars, TypeOK
  <2>5. PoolTasksAlive' /\ OneTaskPerConnection'
    BY <2>1, <2>2, <1>0, WorkerEndsFrame
  <2> QED
    BY <1>0, <2>3, <2>4, <2>5
<1>18. ASSUME ConnectionTest PROVE IInv'
  <2>1. Lifecycle' /\ PassesExclude'
    BY <1>18, <1>0 DEF ConnectionTest, mutex_vars, control_vars, map_vars,
       pool_vars, history_vars, TypeOK, Lifecycle, PassesExclude, Live
  <2>2. Unused' /\ SocketsOwned'
    BY <1>18, <1>0, MapFrame DEF ConnectionTest, TypeOK, map_vars
  <2>3. PoolTasksAlive' /\ OneTaskPerConnection'
    BY <1>18, <1>0, PoolFrame DEF ConnectionTest, map_vars
  <2> QED
    BY <1>0, <2>1, <2>2, <2>3
<1>19. ASSUME NEW h \in Handles, NEW c \in Conns, Accept(h, c) PROVE IInv'
  <2>1. Lifecycle'
    BY <1>19, <1>0 DEF Accept, NewContext, OpenHandles, mutex_vars,
       control_vars, map_vars, pool_vars, history_vars, TypeOK, Lifecycle,
       PassesExclude
  <2>2. PassesExclude'
    BY <1>19, <1>0 DEF Accept, NewContext, OpenHandles, mutex_vars,
       control_vars, map_vars, pool_vars, history_vars, TypeOK, PassesExclude,
       Lifecycle, SocketsOwned, Live
  <2>3. Unused'
    BY <1>19, <1>0 DEF Accept, NewContext, OpenHandles, mutex_vars,
       control_vars, map_vars, pool_vars, history_vars, TypeOK, Unused,
       PassesExclude
  <2>4. SocketsOwned'
    BY <1>19, <1>0 DEF Accept, NewContext, OpenHandles, mutex_vars,
       control_vars, map_vars, pool_vars, history_vars, TypeOK, SocketsOwned,
       Lifecycle, Unused, PassesExclude, Live
  <2>5. PoolTasksAlive'
    BY <1>19, <1>0 DEF Accept, NewContext, OpenHandles, mutex_vars,
       control_vars, map_vars, pool_vars, history_vars, TypeOK, PoolTasksAlive,
       Lifecycle, SocketsOwned, Unused, OneTaskPerConnection, Live, Queued,
       Running, PassesExclude
  <2>6. OneTaskPerConnection'
    BY <1>19, QueueFrame DEF Accept
  <2> QED
    BY <1>0, <2>1, <2>2, <2>3, <2>4, <2>5, <2>6
<1>20. ASSUME AcceptNothing PROVE IInv'
  <2>1. Lifecycle' /\ PassesExclude'
    BY <1>20, <1>0 DEF AcceptNothing, mutex_vars, control_vars, map_vars,
       pool_vars, history_vars, TypeOK, Lifecycle, PassesExclude, Live
  <2>2. Unused' /\ SocketsOwned'
    BY <1>20, <1>0, MapFrame DEF AcceptNothing, TypeOK, map_vars
  <2>3. PoolTasksAlive' /\ OneTaskPerConnection'
    BY <1>20, <1>0, PoolFrame DEF AcceptNothing, map_vars
  <2> QED
    BY <1>0, <2>1, <2>2, <2>3
<1>21. ASSUME Emplace PROVE IInv'
  <2>1. Lifecycle'
    BY <1>21, <1>0 DEF Emplace, mutex_vars, control_vars, map_vars,
       pool_vars, history_vars, TypeOK, Lifecycle, PassesExclude
  <2>2. PassesExclude'
    BY <1>21, <1>0 DEF Emplace, mutex_vars, control_vars, map_vars,
       pool_vars, history_vars, TypeOK, PassesExclude, Lifecycle, SocketsOwned,
       Live
  <2>3. Unused'
    BY <1>21, <1>0 DEF Emplace, mutex_vars, control_vars, map_vars,
       pool_vars, history_vars, TypeOK, Unused, PassesExclude
  <2>4. SocketsOwned'
    BY <1>21, <1>0 DEF Emplace, mutex_vars, control_vars, map_vars,
       pool_vars, history_vars, TypeOK, SocketsOwned, Lifecycle, Unused,
       PassesExclude, Live
  <2>5. PoolTasksAlive'
    BY <1>21, <1>0 DEF Emplace, mutex_vars, control_vars, map_vars,
       pool_vars, history_vars, TypeOK, PoolTasksAlive, Lifecycle,
       SocketsOwned, Unused, OneTaskPerConnection, Live, Queued, Running,
       PassesExclude
  <2>6. OneTaskPerConnection'
    BY <1>21, QueueFrame DEF Emplace
  <2> QED
    BY <1>0, <2>1, <2>2, <2>3, <2>4, <2>5, <2>6
<1>22. ASSUME CloseLock PROVE IInv'
  <2>1. Lifecycle' /\ PassesExclude'
    BY <1>22, <1>0 DEF CloseLock, Lock, mutex_vars, control_vars, map_vars,
       pool_vars, history_vars, TypeOK, Lifecycle, PassesExclude, Live
  <2>2. Unused' /\ SocketsOwned'
    BY <1>22, <1>0, MapFrame DEF CloseLock, Lock, TypeOK, map_vars
  <2>3. PoolTasksAlive' /\ OneTaskPerConnection'
    BY <1>22, <1>0, PoolFrame DEF CloseLock, Lock, map_vars
  <2> QED
    BY <1>0, <2>1, <2>2, <2>3
<1>23. ASSUME CloseUnlock PROVE IInv'
  <2>1. Lifecycle' /\ PassesExclude'
    BY <1>23, <1>0 DEF CloseUnlock, Unlock, mutex_vars, control_vars,
       map_vars, pool_vars, history_vars, TypeOK, Lifecycle, PassesExclude,
       Live
  <2>2. Unused' /\ SocketsOwned'
    BY <1>23, <1>0, MapFrame DEF CloseUnlock, Unlock, TypeOK, map_vars
  <2>3. PoolTasksAlive' /\ OneTaskPerConnection'
    BY <1>23, <1>0, PoolFrame DEF CloseUnlock, Unlock, map_vars
  <2> QED
    BY <1>0, <2>1, <2>2, <2>3
<1>24. ASSUME NEW c \in Conns, CloseAndErase(c) PROVE IInv'
  <2>1. Lifecycle'
    BY <1>24, <1>0 DEF CloseAndErase, Visit, TimedOut, mutex_vars,
       control_vars, map_vars, pool_vars, history_vars, TypeOK, Lifecycle,
       PassesExclude
  <2>2. PassesExclude'
    BY <1>24, <1>0 DEF CloseAndErase, Visit, TimedOut, mutex_vars,
       control_vars, map_vars, pool_vars, history_vars, TypeOK, PassesExclude,
       Lifecycle, SocketsOwned, Live
  <2>3. Unused'
    BY <1>24, <1>0 DEF CloseAndErase, Visit, TimedOut, mutex_vars,
       control_vars, map_vars, pool_vars, history_vars, TypeOK, Unused,
       PassesExclude
  <2>4. SocketsOwned'
    BY <1>24, <1>0 DEF CloseAndErase, Visit, TimedOut, mutex_vars,
       control_vars, map_vars, pool_vars, history_vars, TypeOK, SocketsOwned,
       Lifecycle, Unused, PassesExclude, Live
  <2>5. PoolTasksAlive'
    BY <1>24, <1>0 DEF CloseAndErase, Visit, TimedOut, mutex_vars,
       control_vars, map_vars, pool_vars, history_vars, TypeOK, PoolTasksAlive,
       Lifecycle, SocketsOwned, Unused, OneTaskPerConnection, Live, Queued,
       Running, PassesExclude
  <2>6. OneTaskPerConnection'
    BY <1>24, QueueFrame DEF CloseAndErase
  <2> QED
    BY <1>0, <2>1, <2>2, <2>3, <2>4, <2>5, <2>6
<1>25. ASSUME NEW c \in Conns, KeepConnection(c) PROVE IInv'
  <2>1. Lifecycle' /\ PassesExclude'
    BY <1>25, <1>0 DEF KeepConnection, Visit, mutex_vars, control_vars,
       map_vars, pool_vars, history_vars, TypeOK, Lifecycle, PassesExclude,
       Live
  <2>2. Unused' /\ SocketsOwned'
    BY <1>25, <1>0, MapFrame DEF KeepConnection, Visit, TypeOK, map_vars,
       control_vars
  <2>3. PoolTasksAlive' /\ OneTaskPerConnection'
    BY <1>25, <1>0, PoolFrame DEF KeepConnection, Visit, map_vars
  <2> QED
    BY <1>0, <2>1, <2>2, <2>3
<1>26. ASSUME NEW c \in Conns, Expire(c) PROVE IInv'
  <2>1. \A d \in Conns : /\ context'[d].socket = context[d].socket
                         /\ Busy(context[d]) => Busy(context'[d])
    BY <1>26, <1>ctx DEF Expire, Contexts, Busy
  <2>2. Lifecycle' /\ PassesExclude'
    BY <1>26, <1>0 DEF Expire, mutex_vars, control_vars, map_vars,
       pool_vars, history_vars, Lifecycle, PassesExclude, Live
  <2>3. Unused' /\ SocketsOwned'
    BY <1>26, <1>0, <2>1, MapFrame DEF Expire, control_vars, TypeOK
  <2>4. PoolTasksAlive' /\ OneTaskPerConnection'
    BY <1>26, <1>0, <2>1, PoolFrame DEF Expire, map_vars
  <2> QED
    BY <1>0, <2>2, <2>3, <2>4
<1>27. ASSUME DataTest PROVE IInv'
  <2>1. Lifecycle' /\ PassesExclude'
    BY <1>27, <1>0 DEF DataTest, mutex_vars, control_vars, map_vars,
       pool_vars, history_vars, TypeOK, Lifecycle, PassesExclude, Live
  <2>2. Unused' /\ SocketsOwned'
    BY <1>27, <1>0, MapFrame DEF DataTest, TypeOK, map_vars
  <2>3. PoolTasksAlive' /\ OneTaskPerConnection'
    BY <1>27, <1>0, PoolFrame DEF DataTest, map_vars
  <2> QED
    BY <1>0, <2>1, <2>2, <2>3
<1>28. ASSUME DataLock PROVE IInv'
  <2>1. Lifecycle' /\ PassesExclude'
    BY <1>28, <1>0 DEF DataLock, Lock, mutex_vars, control_vars, map_vars,
       pool_vars, history_vars, TypeOK, Lifecycle, PassesExclude, Live
  <2>2. Unused' /\ SocketsOwned'
    BY <1>28, <1>0, MapFrame DEF DataLock, Lock, TypeOK, map_vars
  <2>3. PoolTasksAlive' /\ OneTaskPerConnection'
    BY <1>28, <1>0, PoolFrame DEF DataLock, Lock, map_vars
  <2> QED
    BY <1>0, <2>1, <2>2, <2>3
<1>29. ASSUME DataUnlock PROVE IInv'
  <2>1. Lifecycle' /\ PassesExclude'
    BY <1>29, <1>0 DEF DataUnlock, Unlock, mutex_vars, control_vars,
       map_vars, pool_vars, history_vars, TypeOK, Lifecycle, PassesExclude,
       Live
  <2>2. Unused' /\ SocketsOwned'
    BY <1>29, <1>0, MapFrame DEF DataUnlock, Unlock, TypeOK, map_vars
  <2>3. PoolTasksAlive' /\ OneTaskPerConnection'
    BY <1>29, <1>0, PoolFrame DEF DataUnlock, Unlock, map_vars
  <2> QED
    BY <1>0, <2>1, <2>2, <2>3
<1>30. ASSUME NEW c \in Conns, ReceiveEmpty(c) PROVE IInv'
  <2>1. Lifecycle' /\ PassesExclude'
    BY <1>30, <1>0 DEF ReceiveEmpty, DataVisit, Visit, mutex_vars,
       control_vars, map_vars, pool_vars, history_vars, TypeOK, Lifecycle,
       PassesExclude, Live
  <2>2. Unused' /\ SocketsOwned'
    BY <1>30, <1>0, MapFrame DEF ReceiveEmpty, DataVisit, Visit, TypeOK,
       map_vars, control_vars
  <2>3. PoolTasksAlive' /\ OneTaskPerConnection'
    BY <1>30, <1>0, PoolFrame DEF ReceiveEmpty, DataVisit, Visit, map_vars
  <2> QED
    BY <1>0, <2>1, <2>2, <2>3
<1>31. ASSUME NEW c \in Conns, ReceiveClosed(c) PROVE IInv'
  <2>1. \A d \in Conns : /\ context'[d].socket = context[d].socket
                         /\ Busy(context[d]) => Busy(context'[d])
    BY <1>31, <1>ctx DEF ReceiveClosed, DataVisit, Visit, Contexts, Busy
  <2>2. Lifecycle' /\ PassesExclude'
    BY <1>31, <1>0 DEF ReceiveClosed, DataVisit, Visit, mutex_vars,
       control_vars, map_vars, pool_vars, history_vars, Lifecycle,
       PassesExclude, Live
  <2>3. Unused' /\ SocketsOwned'
    BY <1>31, <1>0, <2>1, MapFrame DEF ReceiveClosed, DataVisit, Visit,
       control_vars, TypeOK
  <2>4. PoolTasksAlive' /\ OneTaskPerConnection'
    BY <1>31, <1>0, <2>1, PoolFrame DEF ReceiveClosed, DataVisit, Visit,
       map_vars
  <2> QED
    BY <1>0, <2>2, <2>3, <2>4
<1>32. ASSUME NEW c \in Conns, ReceivePart(c) PROVE IInv'
  <2>1. \A d \in Conns : /\ context'[d].socket = context[d].socket
                         /\ Busy(context[d]) => Busy(context'[d])
    BY <1>32, <1>ctx DEF ReceivePart, DataVisit, Visit, Contexts, Busy
  <2>2. Lifecycle' /\ PassesExclude'
    BY <1>32, <1>0 DEF ReceivePart, DataVisit, Visit, mutex_vars,
       control_vars, map_vars, pool_vars, history_vars, Lifecycle,
       PassesExclude, Live
  <2>3. Unused' /\ SocketsOwned'
    BY <1>32, <1>0, <2>1, MapFrame DEF ReceivePart, DataVisit, Visit,
       control_vars, TypeOK
  <2>4. PoolTasksAlive' /\ OneTaskPerConnection'
    BY <1>32, <1>0, <2>1, PoolFrame DEF ReceivePart, DataVisit, Visit, map_vars
  <2> QED
    BY <1>0, <2>2, <2>3, <2>4
<1>33. ASSUME NEW c \in Conns, ReceiveRequest(c) PROVE IInv'
  <2>1. \A d \in Conns : /\ context'[d].socket = context[d].socket
                         /\ Busy(context[d]) => Busy(context'[d])
    BY <1>33, <1>ctx DEF ReceiveRequest, DataVisit, Visit, Contexts, Busy
  <2>2. Lifecycle' /\ PassesExclude'
    BY <1>33, <1>0 DEF ReceiveRequest, DataVisit, Visit, mutex_vars,
       control_vars, map_vars, pool_vars, history_vars, Lifecycle,
       PassesExclude, Live
  <2>3. Unused' /\ SocketsOwned'
    BY <1>33, <1>0, <2>1, MapFrame DEF ReceiveRequest, DataVisit, Visit,
       control_vars, TypeOK
  <2>4. PoolTasksAlive' /\ OneTaskPerConnection'
    BY <1>33, <1>0, <2>1, PoolFrame DEF ReceiveRequest, DataVisit, Visit,
       map_vars
  <2> QED
    BY <1>0, <2>2, <2>3, <2>4
<1>34. ASSUME NEW c \in Conns, ReceiveUnknown(c) PROVE IInv'
  <2>1. \A d \in Conns : /\ context'[d].socket = context[d].socket
                         /\ Busy(context[d]) => Busy(context'[d])
    BY <1>34, <1>ctx DEF ReceiveUnknown, DataVisit, Visit, Contexts, Busy
  <2>2. Lifecycle' /\ PassesExclude'
    BY <1>34, <1>0 DEF ReceiveUnknown, DataVisit, Visit, mutex_vars,
       control_vars, map_vars, pool_vars, history_vars, Lifecycle,
       PassesExclude, Live
  <2>3. Unused' /\ SocketsOwned'
    BY <1>34, <1>0, <2>1, MapFrame DEF ReceiveUnknown, DataVisit, Visit,
       control_vars, TypeOK
  <2>4. PoolTasksAlive' /\ OneTaskPerConnection'
    BY <1>34, <1>0, <2>1, PoolFrame DEF ReceiveUnknown, DataVisit, Visit,
       map_vars
  <2> QED
    BY <1>0, <2>2, <2>3, <2>4
<1>35. ASSUME NEW c \in Conns, CreateHandlerThrows(c) PROVE IInv'
  <2>1. Lifecycle' /\ PassesExclude'
    BY <1>35, <1>0 DEF CreateHandlerThrows, DataVisit, Visit, mutex_vars,
       control_vars, map_vars, pool_vars, history_vars, TypeOK, Lifecycle,
       PassesExclude, Live
  <2>2. Unused' /\ SocketsOwned'
    BY <1>35, <1>0, MapFrame DEF CreateHandlerThrows, DataVisit, Visit,
       TypeOK, map_vars, control_vars
  <2>3. PoolTasksAlive' /\ OneTaskPerConnection'
    BY <1>35, <1>0, PoolFrame DEF CreateHandlerThrows, DataVisit, Visit,
       map_vars
  <2> QED
    BY <1>0, <2>1, <2>2, <2>3
<1>36. ASSUME NEW c \in Conns, NEW n \in 0 .. context[c].response.header - context[c].sent, HeaderSent(c, n)
      PROVE  IInv'
  <2>1. \A d \in Conns : /\ context'[d].socket = context[d].socket
                         /\ Busy(context[d]) => Busy(context'[d])
    <3>1. /\ context[c].state # "RUNNING_HANDLER"
          /\ context'[c].socket = context[c].socket
      BY <1>36, <1>ctx DEF HeaderSent, DataVisit, Contexts
    <3>2. \A d \in Conns \ {c} : context'[d] = context[d]
      BY <1>36, <1>ctx DEF HeaderSent
    <3> QED
      BY <3>1, <3>2 DEF Busy
  <2>2. Lifecycle' /\ PassesExclude'
    BY <1>36, <1>0 DEF HeaderSent, DataVisit, Visit, mutex_vars,
       control_vars, map_vars, pool_vars, history_vars, Lifecycle,
       PassesExclude, Live
  <2>3. Unused' /\ SocketsOwned'
    BY <1>36, <1>0, <2>1, MapFrame DEF HeaderSent, DataVisit, Visit,
       control_vars, TypeOK
  <2>4. PoolTasksAlive' /\ OneTaskPerConnection'
    BY <1>36, <1>0, <2>1, PoolFrame DEF HeaderSent, DataVisit, Visit, map_vars
  <2> QED
    BY <1>0, <2>2, <2>3, <2>4
<1>37. ASSUME NEW c \in Conns, NEW n \in 0 .. context[c].response.body - context[c].sent, BodySent(c, n)
      PROVE  IInv'
  <2>1. \A d \in Conns : /\ context'[d].socket = context[d].socket
                         /\ Busy(context[d]) => Busy(context'[d])
    <3>1. /\ context[c].state # "RUNNING_HANDLER"
          /\ context'[c].socket = context[c].socket
      BY <1>37, <1>ctx DEF BodySent, DataVisit, Contexts
    <3>2. \A d \in Conns \ {c} : context'[d] = context[d]
      BY <1>37, <1>ctx DEF BodySent
    <3> QED
      BY <3>1, <3>2 DEF Busy
  <2>2. Lifecycle' /\ PassesExclude'
    BY <1>37, <1>0 DEF BodySent, DataVisit, Visit, mutex_vars, control_vars,
       map_vars, pool_vars, history_vars, Lifecycle, PassesExclude, Live
  <2>3. Unused' /\ SocketsOwned'
    BY <1>37, <1>0, <2>1, MapFrame DEF BodySent, DataVisit, Visit,
       control_vars, TypeOK
  <2>4. PoolTasksAlive' /\ OneTaskPerConnection'
    BY <1>37, <1>0, <2>1, PoolFrame DEF BodySent, DataVisit, Visit, map_vars
  <2> QED
    BY <1>0, <2>2, <2>3, <2>4
<1>38. ASSUME NEW c \in Conns, TransferFails(c) PROVE IInv'
  <2>1. \A d \in Conns : /\ context'[d].socket = context[d].socket
                         /\ Busy(context[d]) => Busy(context'[d])
    BY <1>38, <1>ctx DEF TransferFails, DataVisit, Visit, Contexts, Busy
  <2>2. Lifecycle' /\ PassesExclude'
    BY <1>38, <1>0 DEF TransferFails, DataVisit, Visit, mutex_vars,
       control_vars, map_vars, pool_vars, history_vars, Lifecycle,
       PassesExclude, Live
  <2>3. Unused' /\ SocketsOwned'
    BY <1>38, <1>0, <2>1, MapFrame DEF TransferFails, DataVisit, Visit,
       control_vars, TypeOK
  <2>4. PoolTasksAlive' /\ OneTaskPerConnection'
    BY <1>38, <1>0, <2>1, PoolFrame DEF TransferFails, DataVisit, Visit,
       map_vars
  <2> QED
    BY <1>0, <2>2, <2>3, <2>4
<1>39. ASSUME NEW c \in Conns, NothingToTransfer(c) PROVE IInv'
  <2>1. Lifecycle' /\ PassesExclude'
    BY <1>39, <1>0 DEF NothingToTransfer, DataVisit, Visit, mutex_vars,
       control_vars, map_vars, pool_vars, history_vars, TypeOK, Lifecycle,
       PassesExclude, Live
  <2>2. Unused' /\ SocketsOwned'
    BY <1>39, <1>0, MapFrame DEF NothingToTransfer, DataVisit, Visit,
       TypeOK, map_vars, control_vars
  <2>3. PoolTasksAlive' /\ OneTaskPerConnection'
    BY <1>39, <1>0, PoolFrame DEF NothingToTransfer, DataVisit, Visit, map_vars
  <2> QED
    BY <1>0, <2>1, <2>2, <2>3
<1>40. ASSUME UNCHANGED vars PROVE IInv'
  <2>1. Lifecycle' /\ PassesExclude'
    BY <1>40 DEF vars, mutex_vars, control_vars, map_vars, pool_vars, history_vars, Lifecycle, PassesExclude, Live
  <2>2. Unused' /\ SocketsOwned'
    BY <1>40, <1>0, MapFrame DEF vars, control_vars, TypeOK
  <2>3. PoolTasksAlive' /\ OneTaskPerConnection'
    BY <1>40, <1>0, PoolFrame DEF vars, map_vars
  <2> QED
    BY <1>0, <2>1, <2>2, <2>3
<1> QED
  BY <1>1, <1>2, <1>3, <1>4, <1>5, <1>6, <1>7, <1>8, <1>9, <1>10, <1>11,
     <1>12, <1>13, <1>14, <1>15, <1>16, <1>17, <1>18, <1>19, <1>20, <1>21,
     <1>22, <1>23, <1>24, <1>25, <1>26, <1>27, <1>28, <1>29, <1>30, <1>31,
     <1>32, <1>33, <1>34, <1>35, <1>36, <1>37, <1>38, <1>39, <1>40 DEF Next,
     MainStep, ConnectionStep, DataStep, RunHandlersVisit, CloseInactiveVisit,
     TransferVisit, HandlerReturns, WriteHeader, WriteBody

\* The constructors establish the invariant.
LEMMA InitInv == ASSUME Init PROVE IInv
<1> USE ServerAssumption DEF Init
<1>1. <<>> \in Seq(Units) /\ pool_queue \in Seq(Conns)
  OBVIOUS
<1>2. NewContext(NoHandle) \in Contexts
  BY <1>1 DEF NewContext, Contexts, Sizes, States, Futures, Endings
<1>3. TypeOK
  BY <1>1, <1>2 DEF TypeOK
<1>4. \A c \in Conns : context[c].socket = NoHandle
  BY DEF NewContext
<1>5. Queued = {} /\ Running = {}
  BY DEF Queued, Running
<1>6. Lifecycle /\ PassesExclude /\ Unused /\ SocketsOwned
  BY <1>4 DEF Lifecycle, PassesExclude, Unused, SocketsOwned
<1>7. PoolTasksAlive /\ OneTaskPerConnection
  BY <1>5 DEF PoolTasksAlive, OneTaskPerConnection
<1> QED
  BY <1>3, <1>6, <1>7 DEF IInv

\* IInv holds throughout.
LEMMA Invariant == Spec => []IInv
<1>1. Init => IInv
  BY InitInv
<1>2. IInv /\ [Next]_vars => IInv'
  BY NextInv
<1> QED
  BY <1>1, <1>2, PTL DEF Spec

-----------------------------------------------------------------------------
(* The safety theorems *)

\* Every variable keeps its type.
THEOREM TypeCorrect == Spec => []TypeOK
  BY Invariant, PTL DEF IInv

\* The passes over the map exclude one another, and what a pass has still to
\* visit is in the map.
THEOREM PassSafety == Spec => []PassesExclude
  BY Invariant, PTL DEF IInv

\* Every open socket belongs to one context, under its own handle.
THEOREM SocketSafety == Spec => []SocketsOwned
  BY Invariant, PTL DEF IInv

\* The references the pool holds are valid, whatever times out, stops or is
\* destroyed meanwhile.
THEOREM ReferenceSafety == Spec => []PoolTasksAlive
  BY Invariant, PTL DEF IInv

\* process never runs twice at once for one connection.
THEOREM ExclusiveHandlers == Spec => []OneTaskPerConnection
  BY Invariant, PTL DEF IInv

\* The connection thread accepts only on an open listener.
THEOREM ListenerSafety == Spec => []ListenerOutlivesAccept
<1>1. IInv => ListenerOutlivesAccept
  BY DEF IInv, Lifecycle, ListenerOutlivesAccept
<1> QED
  BY <1>1, Invariant, PTL

-----------------------------------------------------------------------------
(* Responses arrive whole and in order *)

\* How much of a response is on the wire in each state of its connection.
Progress(x) ==
  /\ x.state \in {"RECEIVING_REQUEST", "RUNNING_HANDLER"} =>
       x.wire = <<>> /\ x.sent = 0
  /\ x.state = "WRITING_RESPONSE_HEADER" =>
       x.sent <= x.response.header /\ Len(x.wire) = x.sent
  /\ x.state = "WRITING_RESPONSE_BODY" =>
       x.sent <= x.response.body /\ Len(x.wire) = x.response.header + x.sent
  /\ x.state # "CLOSED" => x.ending \in {"none", "timeout"}

\* What ResponseInOrder says of one context.
Ordered(x) ==
  /\ Len(x.wire) <= x.response.header + x.response.body
  /\ \A i \in 1 .. Len(x.wire) : x.wire[i] = ResponseUnits(x.response)[i]
  /\ x.ending = "answered" => Len(x.wire) = x.response.header + x.response.body

WireInv == \A c \in Conns : Progress(context[c]) /\ Ordered(context[c])

\* The units of a response, header first.
LEMMA UnitsOfResponse ==
  ASSUME NEW r \in Sizes
  PROVE  /\ r.header \in Nat
         /\ r.body \in Nat
         /\ Len(ResponseUnits(r)) = r.header + r.body
         /\ \A i \in 1 .. r.header : ResponseUnits(r)[i] = <<"header", i>>
         /\ \A i \in 1 .. r.body :
              ResponseUnits(r)[r.header + i] = <<"body", i>>
<1> DEFINE m == r.header
           k == r.body
<1>1. m \in Nat /\ k \in Nat
  BY SizesNat
<1>2. ResponseUnits(r) = [i \in 1 .. m + k |-> IF i <= m THEN <<"header", i>>
                                               ELSE <<"body", i - m>>]
  BY DEF ResponseUnits
<1> HIDE DEF m, k
<1>3. Len(ResponseUnits(r)) = m + k
  BY <1>1, <1>2
<1>4. \A i \in 1 .. m : ResponseUnits(r)[i] = <<"header", i>>
  BY <1>1, <1>2
<1>5. \A i \in 1 .. k : ResponseUnits(r)[m + i] = <<"body", i>>
  BY <1>1, <1>2
<1> QED
  BY <1>1, <1>3, <1>4, <1>5 DEF m, k

\* Nothing has been sent: every order is right.
LEMMA EmptyWire ==
  ASSUME NEW x \in Contexts, x.wire = <<>>, x.sent = 0,
         x.state \in {"RECEIVING_REQUEST", "RUNNING_HANDLER",
                      "WRITING_RESPONSE_HEADER"},
         x.ending \in {"none", "timeout"}
  PROVE  Progress(x) /\ Ordered(x)
<1>1. x.response \in Sizes
  BY DEF Contexts
<1>2. x.response.header \in Nat /\ x.response.body \in Nat
  BY <1>1, SizesNat
<1>3. Progress(x)
  BY <1>2 DEF Progress
<1>4. Ordered(x)
  BY <1>2 DEF Ordered
<1> QED
  BY <1>3, <1>4

\* Nothing more is sent: at most the connection is given up.
Kept(x, y) ==
  /\ y.wire = x.wire
  /\ y.sent = x.sent
  /\ y.response = x.response
  /\ \/ y.state = x.state /\ y.ending \in {x.ending, "timeout"}
     \/ y.state = "CLOSED" /\ y.ending \in {"peer_closed", "failed"}

LEMMA SameWire ==
  ASSUME NEW x, NEW y, Progress(x), Ordered(x), Kept(x, y)
  PROVE  Progress(y) /\ Ordered(y)
<1>1. Progress(y)
  BY DEF Progress, Kept
<1>2. Ordered(y)
  BY DEF Ordered, Kept
<1> QED
  BY <1>1, <1>2

\* The wire w holds the first l units of response r.
OnWire(w, r, l) ==
  Len(w) = l /\ \A i \in 1 .. l : w[i] = ResponseUnits(r)[i]

\* After the first `base` units of response r come l units of `part`.
PartAt(r, part, base, l) ==
  \A i \in 1 .. l : ResponseUnits(r)[base + i] = <<part, i>>

\* A piece of one part of a response, put after what is on the wire: `base`
\* units of the parts before it and `s` of its own.
LEMMA PieceInOrder ==
  ASSUME NEW r \in Sizes, NEW part \in {"header", "body"}, NEW base \in Nat,
         NEW s \in Nat, NEW n \in Nat, NEW v \in Seq(Units),
         OnWire(v, r, base + s), PartAt(r, part, base, s + n)
  PROVE  OnWire(v \o NextUnits(part, s, n), r, base + s + n)
<1> DEFINE u == NextUnits(part, s, n)
           whole == ResponseUnits(r)
<1>0. /\ Len(v) = base + s
      /\ \A i \in 1 .. base + s : v[i] = whole[i]
      /\ \A i \in 1 .. s + n : whole[base + i] = <<part, i>>
  BY DEF OnWire, PartAt
<1>1. u \in Seq(Units) /\ Len(u) = n /\ \A i \in 1 .. n : u[i] = <<part, s + i>>
  <2>1. part \in {"header", "body"} /\ s \in Nat /\ n \in Nat
    OBVIOUS
  <2>2. /\ NextUnits(part, s, n) \in Seq(Units)
        /\ Len(NextUnits(part, s, n)) = n
        /\ \A i \in 1 .. n : NextUnits(part, s, n)[i] = <<part, s + i>>
    BY ONLY <2>1, NextUnitsType
  <2> QED
    BY ONLY <2>2
<1> HIDE DEF u, whole
<1>2. /\ Len(v \o u) = Len(v) + n
      /\ \A i \in 1 .. Len(v) : (v \o u)[i] = v[i]
      /\ \A i \in 1 .. n : (v \o u)[Len(v) + i] = u[i]
  BY <1>1, WireGrows
<1>3. ASSUME NEW i \in 1 .. base + s + n PROVE (v \o u)[i] = whole[i]
  <2>1. CASE i <= base + s
    BY <1>0, <1>2, <2>1
  <2>2. CASE i > base + s
    <3> DEFINE j == i - (base + s)
    <3>1. j \in 1 .. n /\ base + s + j = i /\ s + j \in 1 .. s + n /\ base + (s + j) = i
      BY <2>2
    <3> HIDE DEF j
    <3>2. (v \o u)[base + s + j] = <<part, s + j>>
      BY <1>0, <1>1, <1>2, <3>1
    <3>3. whole[base + (s + j)] = <<part, s + j>>
      BY <1>0, <3>1
    <3> QED
      BY <3>1, <3>2, <3>3
  <2>3. i <= base + s \/ i > base + s
    OBVIOUS
  <2> QED
    BY <2>1, <2>2, <2>3
<1>4. Len(v \o u) = base + s + n
  BY <1>0, <1>2
<1> QED
  BY <1>3, <1>4 DEF OnWire, u, whole

\* What a piece of the header leaves in `sent` and `state`.
HeaderStep(x, y, n) ==
  /\ y.response = x.response
  /\ y.ending = x.ending
  /\ y.wire = x.wire \o NextUnits("header", x.sent, n)
  /\ \/ /\ x.sent + n = x.response.header
        /\ y.sent = 0
        /\ y.state = "WRITING_RESPONSE_BODY"
     \/ /\ x.sent + n # x.response.header
        /\ y.sent = x.sent + n
        /\ y.state = "WRITING_RESPONSE_HEADER"

\* A piece of the header that follows what is on the wire.
LEMMA HeaderInOrder ==
  ASSUME NEW x \in Contexts, NEW y, Progress(x), Ordered(x),
         x.state = "WRITING_RESPONSE_HEADER",
         NEW n \in 0 .. x.response.header - x.sent,
         HeaderStep(x, y, n)
  PROVE  Progress(y) /\ Ordered(y)
<1>1. x.response \in Sizes /\ x.sent \in Nat /\ x.wire \in Seq(Units)
  BY DEF Contexts
<1> DEFINE r == x.response
           m == x.response.header
           k == x.response.body
           s == x.sent
           v == x.wire
           w == v \o NextUnits("header", s, n)
<1>2. m \in Nat /\ k \in Nat
  BY <1>1, SizesNat
<1>3. s <= m /\ Len(v) = s /\ x.ending \in {"none", "timeout"}
  BY DEF Progress
<1>4. n \in Nat /\ s + n <= m
  BY <1>1, <1>2, <1>3
<1>5. \A i \in 1 .. s : v[i] = ResponseUnits(r)[i]
  BY <1>3 DEF Ordered
<1>6. \A i \in 1 .. m : ResponseUnits(r)[i] = <<"header", i>>
  BY <1>1, UnitsOfResponse
<1>7. /\ y.response = r /\ y.ending \in {"none", "timeout"} /\ y.wire = w
      /\ \/ s + n = m /\ y.sent = 0 /\ y.state = "WRITING_RESPONSE_BODY"
         \/ s + n # m /\ y.sent = s + n /\ y.state = "WRITING_RESPONSE_HEADER"
  BY <1>3, Zenon DEF HeaderStep
<1>8. r \in Sizes /\ s \in Nat /\ v \in Seq(Units)
  BY <1>1
<1>9. r.header = m /\ r.body = k
  OBVIOUS
<1> HIDE DEF r, m, k, s, v
<1>10. Len(w) = s + n /\ \A i \in 1 .. s + n : w[i] = ResponseUnits(r)[i]
  <2>1. OnWire(v, r, 0 + s)
    BY <1>3, <1>5, <1>8 DEF OnWire
  <2>2. PartAt(r, "header", 0, s + n)
    BY <1>2, <1>4, <1>6, <1>8 DEF PartAt
  <2>3. OnWire(w, r, 0 + s + n)
    BY <1>4, <1>8, <2>1, <2>2, PieceInOrder
  <2> QED
    BY <1>4, <1>8, <2>3 DEF OnWire
<1> HIDE DEF w
<1>11. Progress(y)
  <2>1. CASE s + n = m /\ y.sent = 0 /\ y.state = "WRITING_RESPONSE_BODY"
    <3>1. 0 <= k /\ Len(w) = m + 0
      BY <1>2, <1>10, <2>1
    <3> QED
      BY <1>7, <1>9, <2>1, <3>1, Zenon DEF Progress
  <2>2. CASE s + n # m /\ y.sent = s + n /\ y.state = "WRITING_RESPONSE_HEADER"
    BY <1>4, <1>7, <1>9, <1>10, <2>2, Zenon DEF Progress
  <2> QED
    BY <1>7, <2>1, <2>2, Zenon
<1>12. Ordered(y)
  <2>1. Len(w) <= m + k
    BY <1>2, <1>4, <1>8, <1>10
  <2>2. y.ending # "answered"
    BY <1>7
  <2> QED
    BY <1>7, <1>9, <1>10, <2>1, <2>2, Zenon DEF Ordered
<1> QED
  BY <1>11, <1>12

\* What a piece of the body leaves in `sent`, `state` and `ending`.
BodyStep(x, y, n) ==
  /\ y.response = x.response
  /\ y.sent = x.sent + n
  /\ y.wire = x.wire \o NextUnits("body", x.sent, n)
  /\ \/ /\ x.sent + n = x.response.body
        /\ y.state = "CLOSED"
        /\ y.ending = "answered"
     \/ /\ y.state = "WRITING_RESPONSE_BODY"
        /\ y.ending = x.ending

\* A piece of the body that follows what is on the wire.
LEMMA BodyInOrder ==
  ASSUME NEW x \in Contexts, NEW y, Progress(x), Ordered(x),
         x.state = "WRITING_RESPONSE_BODY",
         NEW n \in 0 .. x.response.body - x.sent,
         BodyStep(x, y, n)
  PROVE  Progress(y) /\ Ordered(y)
<1>1. x.response \in Sizes /\ x.sent \in Nat /\ x.wire \in Seq(Units)
  BY DEF Contexts
<1> DEFINE r == x.response
           m == x.response.header
           k == x.response.body
           s == x.sent
           v == x.wire
           w == v \o NextUnits("body", s, n)
<1>2. m \in Nat /\ k \in Nat
  BY <1>1, SizesNat
<1>3. s <= k /\ Len(v) = m + s /\ x.ending \in {"none", "timeout"}
  BY DEF Progress
<1>4. n \in Nat /\ s + n <= k
  BY <1>1, <1>2, <1>3
<1>5. \A i \in 1 .. m + s : v[i] = ResponseUnits(r)[i]
  BY <1>3 DEF Ordered
<1>6. \A i \in 1 .. k : ResponseUnits(r)[m + i] = <<"body", i>>
  BY <1>1, UnitsOfResponse
<1>7. /\ y.response = r /\ y.sent = s + n /\ y.wire = w
      /\ \/ s + n = k /\ y.state = "CLOSED" /\ y.ending = "answered"
         \/ y.state = "WRITING_RESPONSE_BODY" /\ y.ending \in {"none", "timeout"}
  BY <1>3, Zenon DEF BodyStep
<1>8. r \in Sizes /\ s \in Nat /\ v \in Seq(Units)
  BY <1>1
<1>9. r.header = m /\ r.body = k
  OBVIOUS
<1> HIDE DEF r, m, k, s, v
<1>10. Len(w) = m + s + n /\ \A i \in 1 .. m + s + n : w[i] = ResponseUnits(r)[i]
  <2>1. OnWire(v, r, m + s)
    BY <1>3, <1>5 DEF OnWire
  <2>2. PartAt(r, "body", m, s + n)
    BY <1>2, <1>4, <1>6, <1>8 DEF PartAt
  <2>3. OnWire(w, r, m + s + n)
    BY <1>2, <1>4, <1>8, <2>1, <2>2, PieceInOrder
  <2> QED
    BY <2>3 DEF OnWire
<1> HIDE DEF w
<1>11. Progress(y)
  <2>1. Len(w) = m + (s + n)
    BY <1>2, <1>4, <1>8, <1>10
  <2>2. CASE y.state = "CLOSED"
    BY <2>2 DEF Progress
  <2>3. CASE y.state = "WRITING_RESPONSE_BODY" /\ y.ending \in {"none", "timeout"}
    BY <1>4, <1>7, <1>9, <2>1, <2>3, Zenon DEF Progress
  <2> QED
    BY <1>7, <2>2, <2>3, Zenon
<1>12. Ordered(y)
  <2>1. Len(w) <= m + k
    BY <1>2, <1>4, <1>8, <1>10
  <2>2. ASSUME y.ending = "answered" PROVE Len(w) = m + k
    <3>1. s + n = k
      BY <1>7, <2>2
    <3> QED
      BY <1>2, <1>4, <1>8, <1>10, <3>1
  <2> QED
    BY <1>7, <1>9, <1>10, <2>1, <2>2, Zenon DEF Ordered
<1> QED
  BY <1>11, <1>12

\* A step that touches one context.
LEMMA WireStep ==
  ASSUME WireInv, NEW c \in Conns,
         \A d \in Conns \ {c} : context'[d] = context[d],
         Progress(context'[c]), Ordered(context'[c])
  PROVE  WireInv'
  BY DEF WireInv

\* A step that sends nothing on the context it touches.
LEMMA WireKept ==
  ASSUME WireInv, NEW c \in Conns,
         \A d \in Conns \ {c} : context'[d] = context[d],
         Kept(context[c], context'[c])
  PROVE  WireInv'
<1>1. Progress(context[c]) /\ Ordered(context[c])
  BY DEF WireInv
<1>2. Progress(context'[c]) /\ Ordered(context'[c])
  BY <1>1, SameWire
<1> QED
  BY <1>2, WireStep

\* Every step keeps what is on the wire in order.  That a worker's context is
\* RUNNING_HANDLER (PoolTasksAlive) is why a late handler cannot change a
\* response that is being sent.
LEMMA WireNext == ASSUME IInv, WireInv, [Next]_vars PROVE WireInv'
<1>0. TypeOK /\ TypeOK'
  BY TypeNext DEF IInv
<1>ctx. context \in [Conns -> Contexts]
  BY <1>0 DEF TypeOK
<1>1. ASSUME UNCHANGED context PROVE WireInv'
  BY <1>1 DEF WireInv
<1>2. ASSUME DestroyConnections PROVE WireInv'
  <2>1. ASSUME NEW d \in Conns PROVE Kept(context[d], context'[d])
    BY <1>2, <1>ctx DEF DestroyConnections, Contexts, Kept
  <2> QED
    BY <2>1, SameWire DEF WireInv
<1>3. ASSUME NEW c \in Conns, EnqueueHandler(c) PROVE WireInv'
  <2>1. Kept(context[c], context'[c])
    BY <1>3, <1>ctx DEF EnqueueHandler, Contexts, Kept
  <2>2. \A d \in Conns \ {c} : context'[d] = context[d]
    BY <1>3, <1>0 DEF EnqueueHandler, TypeOK
  <2> QED
    BY <2>1, <2>2, WireKept
<1>4. ASSUME NEW c \in Conns, CollectResult(c) PROVE WireInv'
  <2>1. Progress(context[c])
    BY DEF WireInv
  <2>2. context'[c] \in Contexts
    BY <1>0 DEF TypeOK
  <2>4. /\ context'[c].wire = <<>> /\ context'[c].sent = 0
        /\ context'[c].state \in {"RECEIVING_REQUEST", "RUNNING_HANDLER",
                                  "WRITING_RESPONSE_HEADER"}
        /\ context'[c].ending \in {"none", "timeout"}
    BY <1>4, <1>ctx, <2>1 DEF CollectResult, HasHandler, Contexts, Progress
  <2>5. \A d \in Conns \ {c} : context'[d] = context[d]
    BY <1>4, <1>0 DEF CollectResult, HasHandler, TypeOK
  <2> QED
    BY <2>2, <2>4, <2>5, EmptyWire, WireStep
<1>5. ASSUME NEW w \in Workers, NEW c \in Conns, HandlerFinishes(w, c) PROVE WireInv'
  <2>1. Progress(context[c])
    BY DEF WireInv
  <2>2. context'[c] \in Contexts
    BY <1>0 DEF TypeOK
  <2>3. context[c].state = "RUNNING_HANDLER"
    BY <1>5 DEF HandlerFinishes, WorkerEnds, Running, IInv, PoolTasksAlive
  <2>4. /\ context'[c].wire = <<>> /\ context'[c].sent = 0
        /\ context'[c].state \in {"RECEIVING_REQUEST", "RUNNING_HANDLER",
                                  "WRITING_RESPONSE_HEADER"}
        /\ context'[c].ending \in {"none", "timeout"}
    BY <1>5, <1>ctx, <2>1, <2>3 DEF HandlerFinishes, WorkerEnds, Contexts, Progress
  <2>5. \A d \in Conns \ {c} : context'[d] = context[d]
    BY <1>5, <1>0 DEF HandlerFinishes, WorkerEnds, TypeOK
  <2> QED
    BY <2>2, <2>4, <2>5, EmptyWire, WireStep
<1>6. ASSUME NEW w \in Workers, NEW c \in Conns, HandlerAsksAgain(w, c) PROVE WireInv'
  <2>1. Kept(context[c], context'[c])
    BY <1>6, <1>ctx DEF HandlerAsksAgain, WorkerEnds, Contexts, Kept
  <2>2. \A d \in Conns \ {c} : context'[d] = context[d]
    BY <1>6, <1>0 DEF HandlerAsksAgain, WorkerEnds, TypeOK
  <2> QED
    BY <2>1, <2>2, WireKept
<1>7. ASSUME NEW w \in Workers, NEW c \in Conns, HandlerThrows(w, c) PROVE WireInv'
  <2>1. Kept(context[c], context'[c])
    BY <1>7, <1>ctx DEF HandlerThrows, WorkerEnds, Contexts, Kept
  <2>2. \A d \in Conns \ {c} : context'[d] = context[d]
    BY <1>7, <1>0 DEF HandlerThrows, WorkerEnds, TypeOK
  <2> QED
    BY <2>1, <2>2, WireKept
<1>8. ASSUME NEW h \in Handles, NEW c \in Conns, Accept(h, c) PROVE WireInv'
  <2>1. context'[c] \in Contexts
    BY <1>0 DEF TypeOK
  <2>2. context'[c] = NewContext(h)
    BY <1>8, <1>0 DEF Accept, TypeOK
  <2>3. /\ context'[c].wire = <<>> /\ context'[c].sent = 0
        /\ context'[c].state = "RECEIVING_REQUEST"
        /\ context'[c].ending = "none"
    BY <2>2 DEF NewContext
  <2>4. \A d \in Conns \ {c} : context'[d] = context[d]
    BY <1>8, <1>0 DEF Accept, TypeOK
  <2> QED
    BY <2>1, <2>3, <2>4, EmptyWire, WireStep
<1>9. ASSUME Emplace PROVE WireInv'
  <2>1. ASSUME NEW d \in Conns PROVE Kept(context[d], context'[d])
    BY <1>9, <1>ctx DEF Emplace, Contexts, Kept
  <2> QED
    BY <2>1, SameWire DEF WireInv
<1>10. ASSUME NEW c \in Conns, CloseAndErase(c) PROVE WireInv'
  <2>1. Kept(context[c], context'[c])
    BY <1>10, <1>ctx DEF CloseAndErase, Contexts, Kept
  <2>2. \A d \in Conns \ {c} : context'[d] = context[d]
    BY <1>10, <1>0 DEF CloseAndErase, TypeOK
  <2> QED
    BY <2>1, <2>2, WireKept
<1>11. ASSUME NEW c \in Conns, Expire(c) PROVE WireInv'
  <2>1. Kept(context[c], context'[c])
    BY <1>11, <1>ctx DEF Expire, Contexts, Kept
  <2>2. \A d \in Conns \ {c} : context'[d] = context[d]
    BY <1>11, <1>0 DEF Expire, TypeOK
  <2> QED
    BY <2>1, <2>2, WireKept
<1>12. ASSUME NEW c \in Conns, ReceiveClosed(c) PROVE WireInv'
  <2>1. Kept(context[c], context'[c])
    BY <1>12, <1>ctx DEF ReceiveClosed, DataVisit, Contexts, Kept
  <2>2. \A d \in Conns \ {c} : context'[d] = context[d]
    BY <1>12, <1>0 DEF ReceiveClosed, DataVisit, TypeOK
  <2> QED
    BY <2>1, <2>2, WireKept
<1>13. ASSUME NEW c \in Conns, ReceivePart(c) PROVE WireInv'
  <2>1. Kept(context[c], context'[c])
    BY <1>13, <1>ctx DEF ReceivePart, DataVisit, Contexts, Kept
  <2>2. \A d \in Conns \ {c} : context'[d] = context[d]
    BY <1>13, <1>0 DEF ReceivePart, DataVisit, TypeOK
  <2> QED
    BY <2>1, <2>2, WireKept
<1>14. ASSUME NEW c \in Conns, ReceiveRequest(c) PROVE WireInv'
  <2>1. Progress(context[c])
    BY DEF WireInv
  <2>2. context'[c] \in Contexts
    BY <1>0 DEF TypeOK
  <2>4. /\ context'[c].wire = <<>> /\ context'[c].sent = 0
        /\ context'[c].state \in {"RECEIVING_REQUEST", "RUNNING_HANDLER",
                                  "WRITING_RESPONSE_HEADER"}
        /\ context'[c].ending \in {"none", "timeout"}
    BY <1>14, <1>ctx, <2>1 DEF ReceiveRequest, DataVisit, Contexts, Progress
  <2>5. \A d \in Conns \ {c} : context'[d] = context[d]
    BY <1>14, <1>0 DEF ReceiveRequest, DataVisit, TypeOK
  <2> QED
    BY <2>2, <2>4, <2>5, EmptyWire, WireStep
<1>15. ASSUME NEW c \in Conns, ReceiveUnknown(c) PROVE WireInv'
  <2>1. Progress(context[c])
    BY DEF WireInv
  <2>2. context'[c] \in Contexts
    BY <1>0 DEF TypeOK
  <2>4. /\ context'[c].wire = <<>> /\ context'[c].sent = 0
        /\ context'[c].state \in {"RECEIVING_REQUEST", "RUNNING_HANDLER",
                                  "WRITING_RESPONSE_HEADER"}
        /\ context'[c].ending \in {"none", "timeout"}
    BY <1>15, <1>ctx, <2>1 DEF ReceiveUnknown, DataVisit, Contexts, Progress
  <2>5. \A d \in Conns \ {c} : context'[d] = context[d]
    BY <1>15, <1>0 DEF ReceiveUnknown, DataVisit, TypeOK
  <2> QED
    BY <2>2, <2>4, <2>5, EmptyWire, WireStep
<1>16. ASSUME NEW c \in Conns, TransferFails(c) PROVE WireInv'
  <2>1. Kept(context[c], context'[c])
    BY <1>16, <1>ctx DEF TransferFails, DataVisit, Contexts, Kept
  <2>2. \A d \in Conns \ {c} : context'[d] = context[d]
    BY <1>16, <1>0 DEF TransferFails, DataVisit, TypeOK
  <2> QED
    BY <2>1, <2>2, WireKept
<1>17. ASSUME NEW c \in Conns, WriteHeader(c) PROVE WireInv'
  <2>0. PICK n \in 0 .. context[c].response.header - context[c].sent : HeaderSent(c, n)
    BY <1>17 DEF WriteHeader
  <2>1. Progress(context[c]) /\ Ordered(context[c]) /\ context[c] \in Contexts
    BY <1>0 DEF WireInv, TypeOK
  <2>2. context[c].state = "WRITING_RESPONSE_HEADER"
    BY <2>0 DEF HeaderSent, DataVisit
  <2>3. HeaderStep(context[c], context'[c], n)
    BY <1>ctx, <2>0, <2>1, <2>2 DEF HeaderSent, HeaderStep, Contexts
  <2>4. Progress(context'[c]) /\ Ordered(context'[c])
    BY <2>1, <2>2, <2>3, HeaderInOrder
  <2>5. \A d \in Conns \ {c} : context'[d] = context[d]
    BY <1>0, <2>0 DEF HeaderSent, TypeOK
  <2> QED
    BY <2>4, <2>5, WireStep
<1>18. ASSUME NEW c \in Conns, WriteBody(c) PROVE WireInv'
  <2>0. PICK n \in 0 .. context[c].response.body - context[c].sent : BodySent(c, n)
    BY <1>18 DEF WriteBody
  <2>1. Progress(context[c]) /\ Ordered(context[c]) /\ context[c] \in Contexts
    BY <1>0 DEF WireInv, TypeOK
  <2>2. context[c].state = "WRITING_RESPONSE_BODY"
    BY <2>0 DEF BodySent, DataVisit
  <2>3. BodyStep(context[c], context'[c], n)
    BY <1>ctx, <2>0, <2>1, <2>2 DEF BodySent, BodyStep, Contexts
  <2>4. Progress(context'[c]) /\ Ordered(context'[c])
    BY <2>1, <2>2, <2>3, BodyInOrder
  <2>5. \A d \in Conns \ {c} : context'[d] = context[d]
    BY <1>0, <2>0 DEF BodySent, TypeOK
  <2> QED
    BY <2>4, <2>5, WireStep
<1>19. ASSUME MainStep \/ MainLock PROVE WireInv'
  <2>1. \/ UNCHANGED context \/ DestroyConnections
        \/ \E c \in Conns : EnqueueHandler(c) \/ CollectResult(c)
    BY <1>19, Zenon DEF MainStep, MainLock, Listen, StartThreads, MainTest,
       MainUnlock, JoinThreads, DestroyPool, RunHandlersVisit,
       CollectException, NothingToRun
  <2> QED
    BY <1>1, <1>2, <1>3, <1>4, <2>1
<1>20. ASSUME ConnectionStep \/ CloseLock PROVE WireInv'
  <2>1. \/ UNCHANGED context
        \/ \E h \in Handles, c \in Conns : Accept(h, c)
        \/ \E c \in Conns : CloseAndErase(c)
    BY <1>20, Zenon DEF ConnectionStep, CloseLock, ConnectionTest,
       AcceptNothing, CloseUnlock, CloseInactiveVisit, KeepConnection
  <2> QED
    BY <1>1, <1>8, <1>10, <2>1
<1>21. ASSUME DataStep \/ DataLock PROVE WireInv'
  <2>1. \/ UNCHANGED context
        \/ \E c \in Conns :
             \/ ReceiveClosed(c) \/ ReceivePart(c) \/ ReceiveRequest(c)
             \/ ReceiveUnknown(c) \/ TransferFails(c)
             \/ WriteHeader(c) \/ WriteBody(c)
    BY <1>21, Zenon DEF DataStep, DataLock, DataTest, DataUnlock,
       TransferVisit, ReceiveEmpty, CreateHandlerThrows, NothingToTransfer
  <2> QED
    BY <1>1, <1>12, <1>13, <1>14, <1>15, <1>16, <1>17, <1>18, <2>1
<1>22. ASSUME NEW w \in Workers, WorkerStart(w) \/ HandlerReturns(w) PROVE WireInv'
  BY <1>1, <1>5, <1>6, <1>7, <1>22 DEF WorkerStart, HandlerReturns
<1>23. ASSUME Stop \/ UNCHANGED vars PROVE WireInv'
  BY <1>1, <1>23 DEF Stop, vars
<1> QED
  BY <1>9, <1>11, <1>19, <1>20, <1>21, <1>22, <1>23 DEF Next

\* What is kept is what ResponseInOrder says.
LEMMA WireOrdered == ASSUME TypeOK, WireInv PROVE ResponseInOrder
<1>1. ASSUME NEW c \in Conns
      PROVE  LET wire == context[c].wire
                 whole == ResponseUnits(context[c].response)
             IN
             /\ Len(wire) <= Len(whole)
             /\ \A i \in 1 .. Len(wire) : wire[i] = whole[i]
             /\ context[c].ending = "answered" => Len(wire) = Len(whole)
  <2>1. context[c].response \in Sizes
    BY DEF TypeOK, Contexts
  <2>2. Len(ResponseUnits(context[c].response)) =
          context[c].response.header + context[c].response.body
    BY <2>1, UnitsOfResponse
  <2>3. Ordered(context[c])
    BY DEF WireInv
  <2> QED
    BY <2>2, <2>3 DEF Ordered
<1> QED
  BY <1>1 DEF ResponseInOrder

\* The order on the wire is kept for ever.
LEMMA WireInvariant == Spec => []WireInv
<1>1. Init => WireInv
  <2> SUFFICES ASSUME Init, NEW c \in Conns
               PROVE  Progress(context[c]) /\ Ordered(context[c])
    BY DEF WireInv
  <2>1. context[c] \in Contexts
    BY InitInv DEF IInv, TypeOK
  <2>2. context[c] = NewContext(NoHandle)
    BY DEF Init
  <2>3. /\ context[c].wire = <<>> /\ context[c].sent = 0
        /\ context[c].state = "RECEIVING_REQUEST"
        /\ context[c].ending = "none"
    BY <2>2 DEF NewContext
  <2> QED
    BY <2>1, <2>3, EmptyWire
<1>2. IInv /\ WireInv /\ [Next]_vars => WireInv'
  BY WireNext
<1> QED
  BY <1>1, <1>2, Invariant, PTL DEF Spec

\* Whatever the sockets take at a time, a client sees a prefix of its
\* response, and all of it if the server closes because it is done.
THEOREM ResponseSafety == Spec => []ResponseInOrder
<1>1. IInv /\ WireInv => ResponseInOrder
  BY WireOrdered DEF IInv
<1> QED
  BY <1>1, Invariant, WireInvariant, PTL

-----------------------------------------------------------------------------
(* Every client sees an HttpConnection *)

\* An identity that has not been used is as Init left it, and there is no
\* future before the request is complete.
Untouched ==
  \A c \in Conns :
    /\ c \notin accepted => context[c] = NewContext(NoHandle)
    /\ context[c].state = "RECEIVING_REQUEST" => context[c].future = "invalid"

\* The server has not begun to destroy its members.
Up == main_pc \notin {"pool_destroyed", "destroyed"}

\* A context in the map is of an accepted connection and has its socket.
LEMMA LiveServed ==
  ASSUME IInv, NEW c \in Live
  PROVE  /\ c \in Conns
         /\ c \in accepted
         /\ context[c].socket \in Handles
         /\ context[c].socket # NoHandle
<1>1. PICK h \in Handles : connections[h] = c /\ c # NoConn
  BY DEF Live
<1>2. c \in Conns
  BY <1>1 DEF IInv, TypeOK
<1>3. context[c].socket = h
  BY <1>1, <1>2 DEF IInv, SocketsOwned
<1> QED
  BY <1>1, <1>2, <1>3, ServerAssumption DEF IInv, Unused

\* So is one a pass visits, and the server is up.
LEMMA VisitServed ==
  ASSUME IInv, NEW thread \in {"main", "connection", "data"}, NEW c, Visit(thread, c)
  PROVE  c \in Live /\ Up
<1>1. c \in Live /\ connections_mutex = thread
  BY DEF IInv, PassesExclude, Visit
<1>2. main_pc = "visit" \/ conn_pc = "closing" \/ data_pc = "visit"
  BY <1>1 DEF IInv, PassesExclude
<1> QED
  BY <1>1, <1>2 DEF IInv, Lifecycle, Up

\* The context a worker is done with is in the map and busy.
LEMMA WorkerServed ==
  ASSUME IInv, NEW w \in Workers, NEW c, WorkerEnds(w, c)
  PROVE  c \in Live /\ Busy(context[c])
<1>1. c \in Running
  BY DEF WorkerEnds, Running
<1> QED
  BY <1>1 DEF IInv, PoolTasksAlive, Busy

\* A step that touches one context of the map at most, and sets no future of
\* one that is still receiving.
LEMMA UntouchedStep ==
  ASSUME IInv, Untouched, NEW c \in Live, UNCHANGED accepted,
         \A d \in Conns \ {c} : context'[d] = context[d],
         context'[c].state = "RECEIVING_REQUEST" => context'[c].future = "invalid"
  PROVE  Untouched'
<1>1. c \in Conns /\ c \in accepted
  BY LiveServed
<1> QED
  BY <1>1 DEF Untouched

\* Every step keeps both.
LEMMA UntouchedNext == ASSUME IInv, Untouched, [Next]_vars PROVE Untouched'
<1>0. TypeOK
  BY DEF IInv
<1>ctx. context \in [Conns -> Contexts]
  BY <1>0 DEF TypeOK
<1>1. ASSUME UNCHANGED <<context, accepted>> PROVE Untouched'
  BY <1>1 DEF Untouched
<1>2. ASSUME DestroyConnections PROVE Untouched'
  <2>1. UNCHANGED accepted
    BY <1>2 DEF DestroyConnections
  <2>2. ASSUME NEW c \in Conns
        PROVE  /\ context'[c].state = context[c].state
               /\ context'[c].future = context[c].future
    BY <1>2, <1>ctx DEF DestroyConnections, Contexts
  <2>3. ASSUME NEW c \in Conns, context[c] = NewContext(NoHandle)
        PROVE  context'[c] = NewContext(NoHandle)
    <3>1. context'[c] = [NewContext(NoHandle) EXCEPT !.socket = NoHandle]
      BY <1>2, <2>3 DEF DestroyConnections
    <3> QED
      BY <3>1 DEF NewContext
  <2> QED
    BY <2>1, <2>2, <2>3 DEF Untouched
<1>3. ASSUME NEW h \in Handles, NEW c \in Conns, Accept(h, c) PROVE Untouched'
  <2>1. context'[c] = NewContext(h) /\ accepted' = accepted \cup {c}
    BY <1>3, <1>0 DEF Accept, TypeOK
  <2>2. \A d \in Conns \ {c} : context'[d] = context[d]
    BY <1>3, <1>0 DEF Accept, TypeOK
  <2>3. context'[c].future = "invalid" /\ c \in accepted'
    BY <2>1 DEF NewContext
  <2>4. ASSUME NEW d \in Conns \ {c}
        PROVE  /\ d \notin accepted' => context'[d] = NewContext(NoHandle)
               /\ context'[d].state = "RECEIVING_REQUEST" => context'[d].future = "invalid"
    BY <2>1, <2>2 DEF Untouched
  <2> QED
    BY <2>3, <2>4 DEF Untouched
<1>4. ASSUME Emplace PROVE Untouched'
  <2>1. /\ arriving \in Conns /\ UNCHANGED accepted
        /\ connections[context[arriving].socket] = NoConn
    BY <1>4, <1>0 DEF Emplace, TypeOK, IInv, Lifecycle, SocketsOwned
  <2>2. context' = context
    BY <1>4, <1>ctx, <2>1 DEF Emplace, Contexts
  <2> QED
    BY <1>1, <2>1, <2>2
<1>5. ASSUME NEW c \in Conns, EnqueueHandler(c) \/ CollectResult(c) PROVE Untouched'
  <2>1. Visit("main", c) /\ context[c].state = "RUNNING_HANDLER" /\ UNCHANGED accepted
    BY <1>5 DEF EnqueueHandler, CollectResult, HasHandler, map_vars
  <2>2. \A d \in Conns \ {c} : context'[d] = context[d]
    BY <1>5, <1>0 DEF EnqueueHandler, CollectResult, TypeOK
  <2>3. context'[c].state # "RECEIVING_REQUEST"
    BY <1>5, <1>ctx, <2>1 DEF EnqueueHandler, CollectResult, Contexts
  <2> QED
    BY <2>1, <2>2, <2>3, VisitServed, UntouchedStep
<1>6. ASSUME NEW w \in Workers, NEW c \in Conns,
             HandlerFinishes(w, c) \/ HandlerAsksAgain(w, c) \/ HandlerThrows(w, c)
      PROVE  Untouched'
  <2>1. WorkerEnds(w, c) /\ UNCHANGED accepted
    BY <1>6 DEF HandlerFinishes, HandlerAsksAgain, HandlerThrows, WorkerEnds, map_vars
  <2>2. \A d \in Conns \ {c} : context'[d] = context[d]
    BY <1>6, <1>0 DEF HandlerFinishes, HandlerAsksAgain, HandlerThrows, TypeOK
  <2>3. c \in Live /\ context[c].state = "RUNNING_HANDLER"
    BY <2>1, WorkerServed DEF Busy
  <2>4. context'[c].state = context[c].state
    BY <1>6, <1>ctx DEF HandlerFinishes, HandlerAsksAgain, HandlerThrows, Contexts
  <2> QED
    BY <2>1, <2>2, <2>3, <2>4, UntouchedStep
<1>7. ASSUME NEW c \in Conns, CloseAndErase(c) PROVE Untouched'
  <2>1. Visit("connection", c) /\ UNCHANGED accepted
    BY <1>7 DEF CloseAndErase
  <2>2. \A d \in Conns \ {c} : context'[d] = context[d]
    BY <1>7, <1>0 DEF CloseAndErase, TypeOK
  <2>3. context'[c].state = context[c].state /\ context'[c].future = context[c].future
    BY <1>7, <1>ctx DEF CloseAndErase, Contexts
  <2> QED
    BY <2>1, <2>2, <2>3, VisitServed, UntouchedStep DEF Untouched
<1>8. ASSUME NEW c \in Conns, Expire(c) PROVE Untouched'
  <2>1. c \in Live /\ UNCHANGED accepted
    BY <1>8 DEF Expire, map_vars
  <2>2. \A d \in Conns \ {c} : context'[d] = context[d]
    BY <1>8, <1>0 DEF Expire, TypeOK
  <2>3. context'[c].state = context[c].state /\ context'[c].future = context[c].future
    BY <1>8, <1>ctx DEF Expire, Contexts
  <2> QED
    BY <2>1, <2>2, <2>3, UntouchedStep DEF Untouched
<1>9. ASSUME NEW c \in Conns,
             \/ ReceiveClosed(c) \/ ReceivePart(c) \/ ReceiveRequest(c)
             \/ ReceiveUnknown(c) \/ TransferFails(c)
      PROVE  Untouched'
  <2>1. Visit("data", c) /\ UNCHANGED accepted
    BY <1>9 DEF ReceiveClosed, ReceivePart, ReceiveRequest, ReceiveUnknown,
       TransferFails, DataVisit, map_vars
  <2>2. \A d \in Conns \ {c} : context'[d] = context[d]
    BY <1>9, <1>0 DEF ReceiveClosed, ReceivePart, ReceiveRequest, ReceiveUnknown,
       TransferFails, TypeOK
  <2>3. /\ context[c].state = "RECEIVING_REQUEST" => context[c].future = "invalid"
        /\ context'[c].future = context[c].future
    <3>1. CASE ReceiveClosed(c) \/ ReceivePart(c) \/ ReceiveRequest(c)
      BY <3>1, <1>ctx DEF ReceiveClosed, ReceivePart, ReceiveRequest, Contexts, Untouched
    <3>2. CASE ReceiveUnknown(c)
      BY <3>2, <1>ctx DEF ReceiveUnknown, Contexts, Untouched
    <3>3. CASE TransferFails(c)
      BY <3>3, <1>ctx DEF TransferFails, Contexts, Untouched
    <3> QED
      BY <1>9, <3>1, <3>2, <3>3
  <2>4. context'[c].state = "RECEIVING_REQUEST" => context[c].state = "RECEIVING_REQUEST"
    <3>1. CASE TransferFails(c)
      BY <3>1, <1>ctx DEF TransferFails, Contexts
    <3>2. CASE ~TransferFails(c)
      BY <1>9, <3>2 DEF ReceiveClosed, ReceivePart, ReceiveRequest, ReceiveUnknown, DataVisit
    <3> QED
      BY <3>1, <3>2
  <2> QED
    BY <2>1, <2>2, <2>3, <2>4, VisitServed, UntouchedStep
<1>10. ASSUME NEW c \in Conns, WriteHeader(c) \/ WriteBody(c) PROVE Untouched'
  <2>1. PICK n \in Nat : HeaderSent(c, n) \/ BodySent(c, n)
    BY <1>10 DEF WriteHeader, WriteBody
  <2>2. Visit("data", c) /\ UNCHANGED accepted
    BY <2>1 DEF HeaderSent, BodySent, DataVisit, map_vars
  <2>3. \A d \in Conns \ {c} : context'[d] = context[d]
    BY <2>1, <1>0 DEF HeaderSent, BodySent, TypeOK
  <2>4. context'[c].state # "RECEIVING_REQUEST"
    <3>1. CASE HeaderSent(c, n)
      <4>1. /\ context[c].state = "WRITING_RESPONSE_HEADER"
            /\ context'[c].state \in {"WRITING_RESPONSE_BODY", context[c].state}
        BY <3>1, <1>ctx DEF HeaderSent, DataVisit, Contexts
      <4> QED
        BY <4>1
    <3>2. CASE BodySent(c, n)
      <4>1. /\ context[c].state = "WRITING_RESPONSE_BODY"
            /\ context'[c].state \in {"CLOSED", context[c].state}
        BY <3>2, <1>ctx DEF BodySent, DataVisit, Contexts
      <4> QED
        BY <4>1
    <3> QED
      BY <2>1, <3>1, <3>2
  <2> QED
    BY <2>2, <2>3, <2>4, VisitServed, UntouchedStep
<1>11. ASSUME MainStep \/ MainLock PROVE Untouched'
  <2>1. \/ UNCHANGED <<context, accepted>> \/ DestroyConnections
        \/ \E c \in Conns : EnqueueHandler(c) \/ CollectResult(c)
    BY <1>11, Zenon DEF MainStep, MainLock, Listen, StartThreads, MainTest,
       MainUnlock, JoinThreads, DestroyPool, RunHandlersVisit,
       CollectException, NothingToRun, map_vars
  <2> QED
    BY <1>1, <1>2, <1>5, <2>1
<1>12. ASSUME ConnectionStep \/ CloseLock PROVE Untouched'
  <2>1. \/ UNCHANGED <<context, accepted>>
        \/ \E h \in Handles, c \in Conns : Accept(h, c)
        \/ \E c \in Conns : CloseAndErase(c)
    BY <1>12, Zenon DEF ConnectionStep, CloseLock, ConnectionTest,
       AcceptNothing, CloseUnlock, CloseInactiveVisit, KeepConnection, map_vars
  <2> QED
    BY <1>1, <1>3, <1>7, <2>1
<1>13. ASSUME DataStep \/ DataLock PROVE Untouched'
  <2>1. \/ UNCHANGED <<context, accepted>>
        \/ \E c \in Conns :
             \/ ReceiveClosed(c) \/ ReceivePart(c) \/ ReceiveRequest(c)
             \/ ReceiveUnknown(c) \/ TransferFails(c)
             \/ WriteHeader(c) \/ WriteBody(c)
    BY <1>13, Zenon DEF DataStep, DataLock, DataTest, DataUnlock, DataVisit,
       TransferVisit, ReceiveEmpty, CreateHandlerThrows, NothingToTransfer, map_vars
  <2> QED
    BY <1>1, <1>9, <1>10, <2>1
<1>14. ASSUME NEW w \in Workers, WorkerStart(w) \/ HandlerReturns(w) PROVE Untouched'
  BY <1>1, <1>6, <1>14 DEF WorkerStart, HandlerReturns, map_vars
<1>15. ASSUME Stop \/ UNCHANGED vars PROVE Untouched'
  BY <1>1, <1>15 DEF Stop, vars, map_vars
<1> QED
  BY <1>4, <1>8, <1>11, <1>12, <1>13, <1>14, <1>15 DEF Next

\* Both hold from the start.
LEMMA UntouchedInvariant == Spec => []Untouched
<1>1. Init => Untouched
  <2> SUFFICES ASSUME Init PROVE Untouched
    OBVIOUS
  <2>1. \A c \in Conns : context[c] = NewContext(NoHandle)
    BY DEF Init
  <2>2. NewContext(NoHandle).future = "invalid"
    BY DEF NewContext
  <2> QED
    BY <2>1, <2>2 DEF Untouched
<1>2. IInv /\ Untouched /\ [Next]_vars => Untouched'
  BY UntouchedNext
<1> QED
  BY <1>1, <1>2, Invariant, PTL DEF Spec

\* What a client sees, by cases.
PhaseTable(c) ==
  /\ c \notin accepted => Phase(c) = "absent"
  /\ c \in accepted /\ Ended(c) => Phase(c) = "over"
  /\ c \in accepted /\ ~Ended(c) =>
       /\ context[c].state = "RECEIVING_REQUEST" => Phase(c) = "requesting"
       /\ context[c].state = "RUNNING_HANDLER" =>
            Phase(c) = IF context[c].future = "finished" THEN "prepared" ELSE "processing"
       /\ context[c].state \notin {"RECEIVING_REQUEST", "RUNNING_HANDLER"} =>
            Phase(c) = "answering"

LEMMA PhaseRead ==
  ASSUME NEW c
  PROVE  PhaseTable(c) /\ PhaseTable(c)'
<1>1. PhaseTable(c)
  BY Zenon DEF Phase, Ended, PhaseTable
<1>2. PhaseTable(c)'
  BY Zenon DEF Phase, Ended, PhaseTable
<1> QED
  BY <1>1, <1>2

\* A client sees nothing of what happens elsewhere.
LEMMA SameView ==
  ASSUME NEW c, context'[c] = context[c], c \in accepted' <=> c \in accepted, Up' <=> Up
  PROVE  UNCHANGED Connection(c)!vars
<1>1. Ended(c)' <=> Ended(c)
  BY DEF Ended
<1>2. Phase(c)' = Phase(c)
  <2>1. CASE c \notin accepted
    BY <2>1, PhaseRead DEF PhaseTable
  <2>2. CASE c \in accepted /\ Ended(c)
    BY <1>1, <2>2, PhaseRead DEF PhaseTable
  <2>3. CASE c \in accepted /\ ~Ended(c)
    BY <1>1, <2>3, PhaseRead DEF PhaseTable
  <2> QED
    BY <2>1, <2>2, <2>3
<1>3. Fate(c)' = Fate(c)
  BY DEF Fate
<1>4. (main_pc \notin {"pool_destroyed", "destroyed"})'
        = (main_pc \notin {"pool_destroyed", "destroyed"})
  BY DEF Up
<1> QED
  BY <1>2, <1>3, <1>4 DEF Connection!vars

\* The step of one connection is a step of every one.
LEMMA OneClient ==
  ASSUME NEW c \in Conns, [Connection(c)!Next]_(Connection(c)!vars), Up' <=> Up,
         \A d \in Conns \ {c} : /\ context'[d] = context[d]
                                /\ d \in accepted' <=> d \in accepted
  PROVE  \A d \in Conns : [Connection(d)!Next]_(Connection(d)!vars)
<1> SUFFICES ASSUME NEW d \in Conns, d # c PROVE UNCHANGED Connection(d)!vars
  OBVIOUS
<1> QED
  BY SameView

\* Clients see nothing of a step that leaves contexts and identities alone.
LEMMA NoClient ==
  ASSUME UNCHANGED <<context, accepted>>, Up' <=> Up
  PROVE  \A d \in Conns : [Connection(d)!Next]_(Connection(d)!vars)
BY SameView

\* What is on the wire in order is the beginning of the response.
LEMMA OrderedPrefix ==
  ASSUME NEW x \in Contexts, Ordered(x)
  PROVE  /\ Len(x.wire) \in Nat
         /\ Len(x.wire) <= x.response.header + x.response.body
         /\ x.wire = SubSeq(ResponseUnits(x.response), 1, Len(x.wire))
         /\ x.ending = "answered" => x.wire = ResponseUnits(x.response)
<1> DEFINE U == ResponseUnits(x.response)
           n == Len(x.wire)
<1>1. x.wire \in Seq(Units) /\ n \in Nat /\ x.response \in Sizes
  BY DEF Contexts
<1>2. x.response.header \in Nat /\ x.response.body \in Nat
  BY <1>1, SizesNat
<1>3. U = [i \in 1 .. x.response.header + x.response.body |-> U[i]]
      /\ Len(U) = x.response.header + x.response.body
  BY <1>1, <1>2, UnitsOfResponse DEF ResponseUnits
<1>4. /\ n <= Len(U)
      /\ \A i \in 1 .. n : x.wire[i] = U[i]
      /\ x.ending = "answered" => n = Len(U)
  BY <1>3 DEF Ordered
<1> HIDE DEF U
<1>5. x.wire = [i \in 1 .. n |-> U[i]]
  BY <1>1, <1>4
<1>6. SubSeq(U, 1, n) = [i \in 1 .. n |-> U[i]]
  BY <1>1, <1>4
<1> HIDE DEF n
<1>7. n = Len(U) => x.wire = U
  BY <1>3, <1>5
<1> QED
  BY <1>1, <1>3, <1>4, <1>5, <1>6, <1>7 DEF U, n

\* Every step of the server is a step of HttpConnection to every client, or
\* nothing the client sees.
LEMMA ClientNext ==
  ASSUME IInv, WireInv, Untouched, [Next]_vars
  PROVE  \A d \in Conns : [Connection(d)!Next]_(Connection(d)!vars)
<1> USE PhaseRead
<1>0. TypeOK /\ TypeOK'
  BY TypeNext DEF IInv
<1>ctx. context \in [Conns -> Contexts]
  BY <1>0 DEF TypeOK
<1>1. ASSUME DestroyPool PROVE \A d \in Conns : [Connection(d)!Next]_(Connection(d)!vars)
  <2> SUFFICES ASSUME NEW d \in Conns PROVE Connection(d)!GoDown
    BY DEF Connection!Next
  <2>1. UNCHANGED <<context, accepted>>
    BY <1>1 DEF DestroyPool, map_vars
  <2>2. Phase(d)' = Phase(d) /\ Fate(d)' = Fate(d)
    BY <2>1, Zenon DEF Phase, Ended, Fate
  <2> QED
    BY <1>1, <2>1, <2>2 DEF DestroyPool, Connection!GoDown
<1>2. ASSUME DestroyConnections
      PROVE  \A d \in Conns : [Connection(d)!Next]_(Connection(d)!vars)
  <2> SUFFICES ASSUME NEW d \in Conns PROVE [Connection(d)!Next]_(Connection(d)!vars)
    OBVIOUS
  <2>1. /\ context'[d].socket = NoHandle
        /\ context'[d].response = context[d].response
        /\ context'[d].wire = context[d].wire
        /\ context'[d].ending = context[d].ending
        /\ accepted' = accepted
        /\ main_pc = "pool_destroyed" /\ main_pc' = "destroyed"
    BY <1>ctx, <1>2 DEF DestroyConnections, Contexts
  <2>2. Ended(d)' /\ Fate(d)' = Fate(d)
    BY <2>1 DEF Ended, Fate
  <2>3. CASE d \notin accepted \/ Ended(d)
    <3>1. Phase(d)' = Phase(d)
      BY <2>1, <2>2, <2>3 DEF PhaseTable
    <3> QED
      BY <2>1, <2>2, <3>1 DEF Connection!vars
  <2>4. CASE d \in accepted /\ ~Ended(d)
    <3>1. /\ Phase(d) \in {"requesting", "processing", "prepared", "answering"}
          /\ Phase(d)' = "over"
      BY <2>1, <2>2, <2>4 DEF PhaseTable
    <3>2. Connection(d)!Abandon
      BY <2>1, <2>2, <3>1 DEF Connection!Abandon, Connection!Goes
    <3> QED
      BY <3>2 DEF Connection!Next
  <2> QED
    BY <2>3, <2>4
<1>3. ASSUME NEW h \in Handles, NEW c \in Conns, Accept(h, c)
      PROVE  \A d \in Conns : [Connection(d)!Next]_(Connection(d)!vars)
  <2>1. context'[c] = NewContext(h) /\ accepted' = accepted \cup {c} /\ main_pc' = main_pc
    BY <1>3, <1>0 DEF Accept, TypeOK
  <2>2. \A d \in Conns \ {c} : context'[d] = context[d]
    BY <1>3, <1>0 DEF Accept, TypeOK
  <2>3. c \notin accepted /\ context[c] = NewContext(NoHandle) /\ Up
    BY <1>3 DEF Accept, Untouched, IInv, Lifecycle, Up
  <2>4. /\ context'[c].response = context[c].response
        /\ context'[c].wire = context[c].wire
        /\ Fate(c)' = Fate(c)
        /\ context'[c].state = "RECEIVING_REQUEST"
        /\ ~Ended(c)'
    BY <2>1, <2>3, ServerAssumption DEF NewContext, Fate, Ended
  <2>5. Phase(c) = "absent" /\ Phase(c)' = "requesting"
    BY <2>1, <2>3, <2>4 DEF PhaseTable
  <2>6. Connection(c)!Open
    BY <2>1, <2>3, <2>4, <2>5 DEF Connection!Open, Connection!Goes, Up
  <2>7. Connection(c)!Next
    BY <2>6 DEF Connection!Next
  <2> QED
    BY <2>1, <2>2, <2>7, OneClient DEF Up
<1>4. ASSUME Emplace PROVE \A d \in Conns : [Connection(d)!Next]_(Connection(d)!vars)
  <2>1. /\ arriving \in Conns /\ UNCHANGED <<accepted, main_pc>>
        /\ connections[context[arriving].socket] = NoConn
    BY <1>4, <1>0 DEF Emplace, TypeOK, IInv, Lifecycle, SocketsOwned
  <2>2. context' = context
    BY <1>4, <1>ctx, <2>1 DEF Emplace, Contexts
  <2> QED
    BY <2>1, <2>2, NoClient DEF Up
<1>5. ASSUME NEW c \in Conns, EnqueueHandler(c) \/ CollectResult(c)
      PROVE  \A d \in Conns : [Connection(d)!Next]_(Connection(d)!vars)
  <2>1. /\ Visit("main", c) /\ context[c].state = "RUNNING_HANDLER"
        /\ UNCHANGED <<accepted, main_pc>>
    BY <1>5 DEF EnqueueHandler, CollectResult, HasHandler, map_vars, control_vars
  <2>2. \A d \in Conns \ {c} : context'[d] = context[d]
    BY <1>5, <1>0 DEF EnqueueHandler, CollectResult, TypeOK
  <2>3. c \in accepted /\ context[c].socket # NoHandle /\ Up
    BY <2>1, LiveServed, VisitServed
  <2>4. /\ context'[c].socket = context[c].socket
        /\ context'[c].response = context[c].response
        /\ context'[c].wire = context[c].wire
        /\ context'[c].ending = context[c].ending
    <3>1. CASE EnqueueHandler(c)
      BY <3>1, <1>ctx DEF EnqueueHandler, Contexts
    <3>2. CASE CollectResult(c)
      BY <3>2, <1>ctx DEF CollectResult, Contexts
    <3> QED
      BY <1>5, <3>1, <3>2
  <2>5. Fate(c)' = Fate(c)
    BY <2>4 DEF Fate
  <2>6. CASE context[c].future # "finished"
    <3>1. context'[c].state = "RUNNING_HANDLER" /\ context'[c].future # "finished"
      <4>1. CASE EnqueueHandler(c)
        BY <4>1, <1>ctx, <2>1 DEF EnqueueHandler, Contexts
      <4>2. CASE CollectResult(c)
        BY <4>2, <1>ctx, <2>1, <2>6 DEF CollectResult, Contexts
      <4> QED
        BY <1>5, <4>1, <4>2
    <3>2. ~Ended(c) /\ ~Ended(c)'
      BY <2>1, <2>3, <2>4, <3>1 DEF Ended
    <3>3. Phase(c) = "processing" /\ Phase(c)' = "processing"
      BY <2>1, <2>3, <2>6, <3>1, <3>2 DEF PhaseTable
    <3>4. UNCHANGED Connection(c)!vars
      BY <2>1, <2>4, <2>5, <3>3 DEF Connection!vars
    <3> QED
      BY <2>1, <2>2, <3>4, OneClient DEF Up
  <2>7. CASE context[c].future = "finished"
    <3>1. context'[c].state = "WRITING_RESPONSE_HEADER"
      BY <1>5, <1>ctx, <2>1, <2>7 DEF EnqueueHandler, CollectResult, Contexts
    <3>2. ~Ended(c) /\ ~Ended(c)'
      BY <2>1, <2>3, <2>4, <3>1 DEF Ended
    <3>3. Phase(c) = "prepared" /\ Phase(c)' = "answering"
      BY <2>1, <2>3, <2>7, <3>1, <3>2 DEF PhaseTable
    <3>4. Connection(c)!Answer
      BY <2>1, <2>3, <2>4, <2>5, <3>3 DEF Connection!Answer, Connection!Goes, Up
    <3>5. Connection(c)!Next
      BY <3>4 DEF Connection!Next
    <3> QED
      BY <2>1, <2>2, <3>5, OneClient DEF Up
  <2> QED
    BY <2>6, <2>7
<1>6. ASSUME NEW w \in Workers, NEW c \in Conns,
             HandlerFinishes(w, c) \/ HandlerAsksAgain(w, c) \/ HandlerThrows(w, c)
      PROVE  \A d \in Conns : [Connection(d)!Next]_(Connection(d)!vars)
  <2>1. WorkerEnds(w, c) /\ UNCHANGED <<accepted, main_pc>>
    BY <1>6 DEF HandlerFinishes, HandlerAsksAgain, HandlerThrows, WorkerEnds,
       map_vars, control_vars
  <2>2. \A d \in Conns \ {c} : context'[d] = context[d]
    BY <1>6, <1>0 DEF HandlerFinishes, HandlerAsksAgain, HandlerThrows, TypeOK
  <2>3. c \in accepted /\ context[c].socket # NoHandle /\ Busy(context[c])
    BY <2>1, LiveServed, WorkerServed
  <2>4. /\ context'[c].socket = context[c].socket
        /\ context'[c].state = context[c].state
        /\ context'[c].wire = context[c].wire
        /\ context'[c].ending = context[c].ending
    BY <1>6, <1>ctx DEF HandlerFinishes, HandlerAsksAgain, HandlerThrows, Contexts
  <2>5. ~Ended(c) /\ ~Ended(c)' /\ Fate(c)' = Fate(c)
    BY <2>3, <2>4 DEF Ended, Fate, Busy
  <2>6. Phase(c) = "processing"
    BY <2>3, <2>5 DEF PhaseTable, Busy
  <2>7. CASE HandlerFinishes(w, c)
    <3>1. /\ context'[c].future = "finished"
          /\ context'[c].response \in [header : HeaderSizes, body : BodySizes]
      BY <2>7, <1>ctx DEF HandlerFinishes, Contexts
    <3>2. Phase(c)' = "prepared"
      BY <2>1, <2>3, <2>4, <2>5, <3>1 DEF PhaseTable, Busy
    <3>3. Connection(c)!Prepare
      BY <2>1, <2>4, <2>5, <2>6, <3>1, <3>2
         DEF Connection!Prepare, Connection!Goes, Connection!Sizes
    <3>4. Connection(c)!Next
      BY <3>3 DEF Connection!Next
    <3> QED
      BY <2>1, <2>2, <3>4, OneClient DEF Up
  <2>8. CASE HandlerAsksAgain(w, c) \/ HandlerThrows(w, c)
    <3>1. /\ context'[c].future # "finished"
          /\ context'[c].response = context[c].response
      BY <2>8, <1>ctx DEF HandlerAsksAgain, HandlerThrows, Contexts
    <3>2. Phase(c)' = "processing"
      BY <2>1, <2>3, <2>4, <2>5, <3>1 DEF PhaseTable, Busy
    <3>3. UNCHANGED Connection(c)!vars
      BY <2>1, <2>4, <2>5, <2>6, <3>1, <3>2 DEF Connection!vars
    <3> QED
      BY <2>1, <2>2, <3>3, OneClient DEF Up
  <2> QED
    BY <1>6, <2>7, <2>8
<1>7. ASSUME NEW c \in Conns, CloseAndErase(c)
      PROVE  \A d \in Conns : [Connection(d)!Next]_(Connection(d)!vars)
  <2>1. /\ Visit("connection", c) /\ UNCHANGED <<accepted, main_pc>>
        /\ context[c].state = "CLOSED" \/ TimedOut(c)
    BY <1>7 DEF CloseAndErase, control_vars
  <2>2. \A d \in Conns \ {c} : context'[d] = context[d]
    BY <1>7, <1>0 DEF CloseAndErase, TypeOK
  <2>3. c \in accepted /\ context[c].socket # NoHandle /\ Up
    BY <2>1, LiveServed, VisitServed
  <2>4. /\ context'[c].socket = NoHandle
        /\ context'[c].response = context[c].response
        /\ context'[c].wire = context[c].wire
        /\ context'[c].ending =
             IF context[c].state = "CLOSED" THEN context[c].ending ELSE "timeout"
    BY <1>7, <1>ctx DEF CloseAndErase, Contexts
  <2>5. Phase(c)' = "over"
    BY <2>1, <2>3, <2>4 DEF PhaseTable, Ended
  <2>6. CASE context[c].state = "CLOSED"
    <3>1. Phase(c) = "over" /\ Fate(c)' = Fate(c)
      BY <2>3, <2>4, <2>6 DEF PhaseTable, Ended, Fate
    <3>2. UNCHANGED Connection(c)!vars
      BY <2>1, <2>4, <2>5, <3>1 DEF Connection!vars
    <3> QED
      BY <2>1, <2>2, <3>2, OneClient DEF Up
  <2>7. CASE context[c].state # "CLOSED"
    <3>1. context[c].state # "RUNNING_HANDLER" /\ ~Ended(c)
      BY <2>1, <2>3, <2>7 DEF TimedOut, Ended
    <3>2. Phase(c) \in {"requesting", "answering"} /\ Fate(c)' = "broken"
      BY <2>3, <2>4, <2>7, <3>1 DEF PhaseTable, Fate
    <3>3. Connection(c)!Break
      BY <2>1, <2>3, <2>4, <2>5, <3>2 DEF Connection!Break, Connection!Goes, Up
    <3>4. Connection(c)!Next
      BY <3>3 DEF Connection!Next
    <3> QED
      BY <2>1, <2>2, <3>4, OneClient DEF Up
  <2> QED
    BY <2>6, <2>7
<1>8. ASSUME NEW c \in Conns, Expire(c) \/ ReceivePart(c)
      PROVE  \A d \in Conns : [Connection(d)!Next]_(Connection(d)!vars)
  <2>1. UNCHANGED <<accepted, main_pc>>
    BY <1>8 DEF Expire, ReceivePart, DataVisit, map_vars, control_vars
  <2>2. \A d \in Conns \ {c} : context'[d] = context[d]
    BY <1>8, <1>0 DEF Expire, ReceivePart, TypeOK
  <2>3. /\ context'[c].socket = context[c].socket
        /\ context'[c].state = context[c].state
        /\ context'[c].future = context[c].future
        /\ context'[c].response = context[c].response
        /\ context'[c].wire = context[c].wire
        /\ context'[c].ending = context[c].ending
    BY <1>8, <1>ctx DEF Expire, ReceivePart, Contexts
  <2>4. Phase(c)' = Phase(c) /\ Fate(c)' = Fate(c)
    BY <2>1, <2>3, Zenon DEF Phase, Ended, Fate
  <2>5. UNCHANGED Connection(c)!vars
    BY <2>1, <2>3, <2>4 DEF Connection!vars
  <2> QED
    BY <2>1, <2>2, <2>5, OneClient DEF Up
<1>9. ASSUME NEW c \in Conns, ReceiveClosed(c) \/ TransferFails(c)
      PROVE  \A d \in Conns : [Connection(d)!Next]_(Connection(d)!vars)
  <2>1. /\ Visit("data", c) /\ UNCHANGED <<accepted, main_pc>>
        /\ context[c].state \in {"RECEIVING_REQUEST", "WRITING_RESPONSE_HEADER",
                                 "WRITING_RESPONSE_BODY"}
    BY <1>9 DEF ReceiveClosed, TransferFails, DataVisit, map_vars, control_vars
  <2>2. \A d \in Conns \ {c} : context'[d] = context[d]
    BY <1>9, <1>0 DEF ReceiveClosed, TransferFails, TypeOK
  <2>3. c \in accepted /\ context[c].socket # NoHandle /\ Up
    BY <2>1, LiveServed, VisitServed
  <2>4. /\ context'[c].state = "CLOSED"
        /\ context'[c].response = context[c].response
        /\ context'[c].wire = context[c].wire
        /\ context'[c].ending \in {"peer_closed", "failed"}
    <3>1. CASE ReceiveClosed(c)
      BY <3>1, <1>ctx DEF ReceiveClosed, Contexts
    <3>2. CASE TransferFails(c)
      BY <3>2, <1>ctx DEF TransferFails, Contexts
    <3> QED
      BY <1>9, <3>1, <3>2
  <2>5. Phase(c)' = "over" /\ Fate(c)' = "broken"
    BY <2>1, <2>3, <2>4 DEF PhaseTable, Ended, Fate
  <2>6. Phase(c) \in {"requesting", "answering"}
    BY <2>1, <2>3 DEF PhaseTable, Ended
  <2>7. Connection(c)!Break
    BY <2>1, <2>3, <2>4, <2>5, <2>6 DEF Connection!Break, Connection!Goes, Up
  <2>8. Connection(c)!Next
    BY <2>7 DEF Connection!Next
  <2> QED
    BY <2>1, <2>2, <2>8, OneClient DEF Up
<1>10. ASSUME NEW c \in Conns, ReceiveRequest(c) \/ ReceiveUnknown(c)
       PROVE  \A d \in Conns : [Connection(d)!Next]_(Connection(d)!vars)
  <2>1. /\ Visit("data", c) /\ UNCHANGED <<accepted, main_pc>>
        /\ context[c].state = "RECEIVING_REQUEST"
    BY <1>10 DEF ReceiveRequest, ReceiveUnknown, DataVisit, map_vars, control_vars
  <2>2. \A d \in Conns \ {c} : context'[d] = context[d]
    BY <1>10, <1>0 DEF ReceiveRequest, ReceiveUnknown, TypeOK
  <2>3. c \in accepted /\ context[c].socket # NoHandle /\ Up
    BY <2>1, LiveServed, VisitServed
  <2>4. ~Ended(c) /\ Phase(c) = "requesting"
    BY <2>1, <2>3 DEF PhaseTable, Ended
  <2>5. CASE ReceiveRequest(c)
    <3>1. /\ context'[c].socket = context[c].socket
          /\ context'[c].state = "RUNNING_HANDLER"
          /\ context'[c].future = "invalid"
          /\ context'[c].response = context[c].response
          /\ context'[c].wire = context[c].wire
          /\ context'[c].ending = context[c].ending
      BY <2>1, <2>5, <1>ctx DEF ReceiveRequest, Contexts, Untouched
    <3>2. Phase(c)' = "processing" /\ Fate(c)' = Fate(c)
      BY <2>1, <2>3, <3>1 DEF PhaseTable, Ended, Fate
    <3>3. Connection(c)!Process
      BY <2>1, <2>3, <2>4, <3>1, <3>2 DEF Connection!Process, Connection!Goes, Up
    <3>4. Connection(c)!Next
      BY <3>3 DEF Connection!Next
    <3> QED
      BY <2>1, <2>2, <3>4, OneClient DEF Up
  <2>6. CASE ReceiveUnknown(c)
    <3>1. /\ context'[c].socket = context[c].socket
          /\ context'[c].state = "WRITING_RESPONSE_HEADER"
          /\ context'[c].response \in [header : HeaderSizes, body : BodySizes]
          /\ context'[c].wire = context[c].wire
          /\ context'[c].ending = context[c].ending
      BY <2>6, <1>ctx DEF ReceiveUnknown, Contexts
    <3>2. Phase(c)' = "answering" /\ Fate(c)' = Fate(c)
      BY <2>1, <2>3, <3>1 DEF PhaseTable, Ended, Fate
    <3>3. Connection(c)!Answer
      BY <2>1, <2>3, <2>4, <3>1, <3>2
         DEF Connection!Answer, Connection!Goes, Connection!Sizes, Up
    <3>4. Connection(c)!Next
      BY <3>3 DEF Connection!Next
    <3> QED
      BY <2>1, <2>2, <3>4, OneClient DEF Up
  <2> QED
    BY <1>10, <2>5, <2>6
<1>11. ASSUME NEW c \in Conns, WriteHeader(c) \/ WriteBody(c)
       PROVE  \A d \in Conns : [Connection(d)!Next]_(Connection(d)!vars)
  <2>1. PICK n \in Nat : HeaderSent(c, n) \/ BodySent(c, n)
    BY <1>11 DEF WriteHeader, WriteBody
  <2>2. Visit("data", c) /\ UNCHANGED <<accepted, main_pc>>
    BY <2>1 DEF HeaderSent, BodySent, DataVisit, map_vars, control_vars
  <2>3. \A d \in Conns \ {c} : context'[d] = context[d]
    BY <2>1, <1>0 DEF HeaderSent, BodySent, TypeOK
  <2>4. c \in accepted /\ context[c].socket # NoHandle /\ Up
    BY <2>2, LiveServed, VisitServed
  <2>5. /\ context[c].state \in {"WRITING_RESPONSE_HEADER", "WRITING_RESPONSE_BODY"}
        /\ context'[c].socket = context[c].socket
        /\ context'[c].response = context[c].response
        /\ Len(context[c].wire) <= Len(context'[c].wire)
        /\ \/ /\ context'[c].state \in {"WRITING_RESPONSE_HEADER", "WRITING_RESPONSE_BODY"}
              /\ context'[c].ending = context[c].ending
           \/ context'[c].state = "CLOSED" /\ context'[c].ending = "answered"
    <3>1. CASE HeaderSent(c, n)
      <4>1. /\ context[c].state = "WRITING_RESPONSE_HEADER"
            /\ context'[c].wire = context[c].wire \o NextUnits("header", context[c].sent, n)
        BY <3>1, <1>ctx DEF HeaderSent, DataVisit, Contexts
      <4>2. /\ context'[c].socket = context[c].socket
            /\ context'[c].response = context[c].response
            /\ context'[c].ending = context[c].ending
        BY <3>1, <1>ctx DEF HeaderSent, Contexts
      <4>3. context'[c].state \in {"WRITING_RESPONSE_BODY", context[c].state}
        BY <3>1, <1>ctx DEF HeaderSent, Contexts
      <4>4. Len(context[c].wire) <= Len(context'[c].wire)
        <5> DEFINE piece == NextUnits("header", context[c].sent, n)
        <5>1. context[c].wire \in Seq(Units) /\ context[c].sent \in Nat
          BY <1>ctx DEF Contexts
        <5>2. piece \in Seq(Units) /\ Len(piece) = n
          BY <5>1, NextUnitsType
        <5>3. context'[c].wire = context[c].wire \o piece
          BY <4>1
        <5> HIDE DEF piece
        <5>4. Len(context'[c].wire) = Len(context[c].wire) + n
          BY <5>1, <5>2, <5>3, WireGrows
        <5>5. Len(context[c].wire) \in Nat /\ n \in Nat
          BY <2>1, <5>1
        <5> QED
          BY <5>4, <5>5
      <4> QED
        BY <4>1, <4>2, <4>3, <4>4
    <3>2. CASE BodySent(c, n)
      <4>1. /\ context[c].state = "WRITING_RESPONSE_BODY"
            /\ context'[c].wire = context[c].wire \o NextUnits("body", context[c].sent, n)
        <5>1. context[c].state = "WRITING_RESPONSE_BODY"
          BY <3>2 DEF BodySent, DataVisit
        <5> DEFINE old == context[c]
                   done == old.sent + n = old.response.body
        <5>2. context'[c] = [old EXCEPT
                 !.wire = @ \o NextUnits("body", old.sent, n), !.sent = old.sent + n,
                 !.state = IF done THEN "CLOSED" ELSE @,
                 !.ending = IF done THEN "answered" ELSE @,
                 !.expired = @ /\ n = 0]
          BY <3>2, <1>ctx DEF BodySent
        <5>3. old \in Contexts
          BY <1>ctx
        <5> HIDE DEF old, done
        <5>4. context'[c].wire = old.wire \o NextUnits("body", old.sent, n)
          BY ONLY <5>2, <5>3 DEF Contexts
        <5> QED
          BY <5>1, <5>4 DEF old
      <4>2. /\ context'[c].socket = context[c].socket
            /\ context'[c].response = context[c].response
        BY <3>2, <1>ctx DEF BodySent, Contexts
      <4>3. \/ context'[c].state = context[c].state /\ context'[c].ending = context[c].ending
            \/ context'[c].state = "CLOSED" /\ context'[c].ending = "answered"
        <5> DEFINE done == context[c].sent + n = context[c].response.body
        <5>1. /\ context'[c].state = IF done THEN "CLOSED" ELSE context[c].state
              /\ context'[c].ending = IF done THEN "answered" ELSE context[c].ending
          BY <3>2, <1>ctx DEF BodySent, Contexts
        <5> QED
          BY <5>1
      <4>4. Len(context[c].wire) <= Len(context'[c].wire)
        <5> DEFINE piece == NextUnits("body", context[c].sent, n)
        <5>1. context[c].wire \in Seq(Units) /\ context[c].sent \in Nat
          BY <1>ctx DEF Contexts
        <5>2. piece \in Seq(Units) /\ Len(piece) = n
          BY <5>1, NextUnitsType
        <5>3. context'[c].wire = context[c].wire \o piece
          BY <4>1
        <5> HIDE DEF piece
        <5>4. Len(context'[c].wire) = Len(context[c].wire) + n
          BY <5>1, <5>2, <5>3, WireGrows
        <5>5. Len(context[c].wire) \in Nat /\ n \in Nat
          BY <2>1, <5>1
        <5> QED
          BY <5>4, <5>5
      <4> QED
        BY <4>1, <4>2, <4>3, <4>4
    <3> QED
      BY <2>1, <3>1, <3>2
  <2>6. ~Ended(c) /\ Phase(c) = "answering"
    BY <2>4, <2>5 DEF PhaseTable, Ended
  <2> DEFINE r == context[c].response
             w == context'[c].wire
  <2>7. /\ Len(w) \in Len(context[c].wire) .. r.header + r.body
        /\ w = SubSeq(Connection(c)!Units(r), 1, Len(w))
        /\ context'[c].ending = "answered" => w = Connection(c)!Units(r)
    <3>1. context'[c] \in Contexts /\ Ordered(context'[c])
      BY <1>0, WireNext DEF TypeOK, WireInv
    <3>2. context[c].wire \in Seq(Units)
      BY <1>ctx DEF Contexts
    <3>3. Connection(c)!Units(r) = ResponseUnits(r)
      BY DEF Connection!Units, ResponseUnits
    <3> QED
      BY <2>5, <3>1, <3>2, <3>3, OrderedPrefix
  <2>8. Connection(c)!Deliver
    <3>1. CASE context'[c].state = "CLOSED" /\ context'[c].ending = "answered"
      <4>1. Phase(c)' = "over" /\ Fate(c)' = "answered"
        BY <2>2, <2>4, <3>1 DEF PhaseTable, Ended, Fate
      <4> QED
        BY <2>2, <2>4, <2>5, <2>6, <2>7, <3>1, <4>1 DEF Connection!Deliver, Up
    <3>2. CASE /\ context'[c].state \in {"WRITING_RESPONSE_HEADER", "WRITING_RESPONSE_BODY"}
               /\ context'[c].ending = context[c].ending
      <4>1. Phase(c)' = "answering" /\ Fate(c)' = Fate(c)
        BY <2>2, <2>4, <2>5, <3>2 DEF PhaseTable, Ended, Fate
      <4> QED
        BY <2>2, <2>4, <2>5, <2>6, <2>7, <4>1 DEF Connection!Deliver, Up
    <3> QED
      BY <2>5, <3>1, <3>2
  <2>9. Connection(c)!Next
    BY <2>8 DEF Connection!Next
  <2> QED
    BY <2>2, <2>3, <2>9, OneClient DEF Up
<1>12. ASSUME UNCHANGED <<context, accepted>>, Up' <=> Up
       PROVE  \A d \in Conns : [Connection(d)!Next]_(Connection(d)!vars)
  BY <1>12, NoClient
<1>13. ASSUME MainStep \/ MainLock
       PROVE  \A d \in Conns : [Connection(d)!Next]_(Connection(d)!vars)
  <2>1. \/ UNCHANGED <<context, accepted>> /\ (Up' <=> Up)
        \/ DestroyPool \/ DestroyConnections
        \/ \E c \in Conns : EnqueueHandler(c) \/ CollectResult(c)
    <3>1. \/ UNCHANGED <<context, accepted>> /\ Up /\ Up'
          \/ DestroyPool \/ DestroyConnections
          \/ \E c \in Conns : RunHandlersVisit(c)
      BY <1>13 DEF MainStep, MainLock, Listen, StartThreads, MainTest,
         MainUnlock, JoinThreads, map_vars, Up
    <3>2. ASSUME NEW c \in Conns, RunHandlersVisit(c)
          PROVE  \/ EnqueueHandler(c) \/ CollectResult(c)
                 \/ UNCHANGED <<context, accepted>> /\ (Up' <=> Up)
      BY <3>2 DEF RunHandlersVisit, CollectException, NothingToRun, map_vars,
         control_vars, Up
    <3> QED
      BY <3>1, <3>2
  <2> QED
    BY <1>1, <1>2, <1>5, <1>12, <2>1
<1>14. ASSUME ConnectionStep \/ CloseLock
       PROVE  \A d \in Conns : [Connection(d)!Next]_(Connection(d)!vars)
  <2>1. \/ UNCHANGED <<context, accepted, main_pc>>
        \/ \E h \in Handles, c \in Conns : Accept(h, c)
        \/ \E c \in Conns : CloseAndErase(c)
    BY <1>14, Zenon DEF ConnectionStep, CloseLock, ConnectionTest, AcceptNothing,
       CloseUnlock, CloseInactiveVisit, KeepConnection, map_vars, control_vars
  <2> QED
    BY <1>3, <1>7, <1>12, <2>1 DEF Up
<1>15. ASSUME DataStep \/ DataLock
       PROVE  \A d \in Conns : [Connection(d)!Next]_(Connection(d)!vars)
  <2>1. \/ UNCHANGED <<context, accepted, main_pc>>
        \/ \E c \in Conns :
             \/ ReceiveClosed(c) \/ ReceivePart(c) \/ ReceiveRequest(c)
             \/ ReceiveUnknown(c) \/ TransferFails(c)
             \/ WriteHeader(c) \/ WriteBody(c)
    BY <1>15, Zenon DEF DataStep, DataLock, DataTest, DataUnlock, DataVisit,
       TransferVisit, ReceiveEmpty, CreateHandlerThrows, NothingToTransfer,
       map_vars, control_vars
  <2> QED
    BY <1>8, <1>9, <1>10, <1>11, <1>12, <2>1 DEF Up
<1>16. ASSUME NEW w \in Workers, WorkerStart(w) \/ HandlerReturns(w)
       PROVE  \A d \in Conns : [Connection(d)!Next]_(Connection(d)!vars)
  <2>1. \/ UNCHANGED <<context, accepted, main_pc>>
        \/ \E c \in Conns :
             HandlerFinishes(w, c) \/ HandlerAsksAgain(w, c) \/ HandlerThrows(w, c)
    BY <1>16 DEF WorkerStart, HandlerReturns, map_vars, control_vars
  <2> QED
    BY <1>6, <1>12, <2>1 DEF Up
<1>17. ASSUME Stop \/ UNCHANGED vars
       PROVE  \A d \in Conns : [Connection(d)!Next]_(Connection(d)!vars)
  BY <1>12, <1>17 DEF Stop, vars, map_vars, control_vars, Up
<1> QED
  BY <1>4, <1>8, <1>13, <1>14, <1>15, <1>16, <1>17 DEF Next

\* The safety of the whole server as a client sees it: its connection behaves
\* like an HttpConnection, whatever the other connections, the pool, the
\* timeouts and the shutdown do.
THEOREM ServerImplementsConnection == Spec => ImplementsConnection
<1>1. Init => \A c \in Conns : Connection(c)!Init
  <2> SUFFICES ASSUME Init, NEW c \in Conns PROVE Connection(c)!Init
    OBVIOUS
  <2>1. context[c] = NewContext(NoHandle) /\ c \notin accepted /\ main_pc = "listen"
    BY DEF Init
  <2>2. Phase(c) = "absent"
    BY <2>1, PhaseRead DEF PhaseTable
  <2>3. /\ context[c].response = [header |-> 0, body |-> 0]
        /\ context[c].wire = <<>>
        /\ Fate(c) = "none"
    BY <2>1 DEF NewContext, Fate
  <2> QED
    BY <2>1, <2>2, <2>3 DEF Connection!Init
<1>2. IInv /\ WireInv /\ Untouched /\ [Next]_vars =>
        [\A c \in Conns : [Connection(c)!Next]_(Connection(c)!vars)]_vars
  BY ClientNext
<1>3. Spec => [][\A c \in Conns : [Connection(c)!Next]_(Connection(c)!vars)]_vars
  BY <1>2, Invariant, WireInvariant, UntouchedInvariant, PTL DEF Spec
<1>4. Spec => \A c \in Conns : Connection(c)!Init
  BY <1>1 DEF Spec
<1> QED
  BY <1>3, <1>4, PTL DEF ImplementsConnection

=============================================================================
