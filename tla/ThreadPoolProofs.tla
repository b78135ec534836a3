-------------------------- MODULE ThreadPoolProofs --------------------------
(***************************************************************************)
(* Proofs about ThreadPool, for any sets of workers, submitters and tasks. *)
(***************************************************************************)
EXTENDS ThreadPool, QueueLemmas

(***************************************************************************)
(* The inductive invariant, in named parts.                                *)
(***************************************************************************)

\* queue_mutex is held by exactly the thread that is inside a critical section.
MutexInv ==
  /\ \A w \in Workers : worker_pc[w] = "check" <=> queue_mutex = w
  /\ \A s \in Submitters : submit_pc[s] = "push" <=> queue_mutex = s
  /\ owner_pc = "set_stop" <=> queue_mutex = Owner

\* Who knows of stop, and what an exited worker or a dead pool left behind.
StopInv ==
  /\ stop <=> owner_pc \in {"notify_all", "join", "destroyed"}
  /\ \A w \in Workers : worker_pc[w] = "exited" => stop /\ tasks = <<>>
  /\ owner_pc = "destroyed" =>
       /\ \A w \in Workers : worker_pc[w] = "exited"
       /\ \A s \in Submitters : submit_pc[s] = "idle"

\* A worker holds a task exactly while it runs it, and a call of enqueue has
\* one from beginning to end.
HoldInv ==
  /\ \A w \in Workers : worker_pc[w] = "run" <=> worker_task[w] # NoTask
  /\ \A s \in Submitters : submit_pc[s] # "idle" => submit_task[s] \in created

\* Every task that was created is with the call of enqueue that created it,
\* queued, running, finished or rejected: none is lost.
Offers(s, t) == submit_pc[s] \in {"lock", "push"} /\ submit_task[s] = t

AccountInv ==
  \A t \in created :
    \/ \E s \in Submitters : Offers(s, t)
    \/ t \in Queued
    \/ \E w \in Workers : worker_task[w] = t
    \/ t \in finished \cup rejected

IInv ==
  /\ TypeOK
  /\ MutexInv
  /\ StopInv
  /\ HoldInv
  /\ AccountInv
  /\ NoSleeperAfterStop
  /\ NoLostWakeup

-----------------------------------------------------------------------------
(* The inductive invariant holds *)

\* The queued tasks as the lemmas about queues name them.
LEMMA QueuedElements == Queued = Elements(tasks) /\ Queued' = Elements(tasks')
  BY DEF Queued, Elements

\* The constructor establishes the invariant.
LEMMA InitInv == ASSUME Init PROVE IInv
<1> USE ThreadsAssumption DEF Init, Threads
<1>1. TypeOK
  <2>1. tasks \in Seq(Tasks)
    OBVIOUS
  <2> QED
    BY <2>1 DEF TypeOK, WorkerPc, SubmitPc, OwnerPc
<1>2. MutexInv /\ StopInv /\ HoldInv /\ AccountInv
  BY DEF MutexInv, StopInv, HoldInv, AccountInv
<1>3. NoSleeperAfterStop /\ NoLostWakeup
  BY DEF NoSleeperAfterStop, NoLostWakeup
<1> QED
  BY <1>1, <1>2, <1>3 DEF IInv

\* Every step of a caller, a worker or the destructor keeps it.
LEMMA NextInv == ASSUME IInv, [Next]_vars PROVE IInv'
<1> USE ThreadsAssumption
<1> USE DEF IInv
<1>1. ASSUME NEW s \in Submitters, NEW t \in Tasks, EnqueueCall(s, t) PROVE IInv'
  <2>1. TypeOK'
    BY <1>1 DEF EnqueueCall, TypeOK, SubmitPc
  <2>2. MutexInv'
    BY <1>1 DEF EnqueueCall, TypeOK, MutexInv
  <2>3. StopInv'
    BY <1>1 DEF EnqueueCall, TypeOK, StopInv
  <2>4. HoldInv'
    BY <1>1 DEF EnqueueCall, TypeOK, HoldInv
  <2>5. AccountInv'
    BY <1>1 DEF EnqueueCall, TypeOK, Offers, Queued, AccountInv
  <2>6. NoLostWakeup'
    BY <1>1 DEF EnqueueCall, TypeOK, NoLostWakeup
  <2>7. NoSleeperAfterStop'
    BY <1>1 DEF EnqueueCall, NoSleeperAfterStop, Waiting
  <2> QED
    BY <2>1, <2>2, <2>3, <2>4, <2>5, <2>6, <2>7
<1>2. ASSUME NEW s \in Submitters, EnqueueLock(s) PROVE IInv'
  <2>1. TypeOK'
    BY <1>2 DEF EnqueueLock, TypeOK, Threads, SubmitPc
  <2>2. MutexInv'
    BY <1>2 DEF EnqueueLock, TypeOK, Threads, MutexInv
  <2>3. StopInv'
    BY <1>2 DEF EnqueueLock, TypeOK, StopInv
  <2>4. HoldInv'
    BY <1>2 DEF EnqueueLock, TypeOK, HoldInv
  <2>5. AccountInv'
    BY <1>2 DEF EnqueueLock, TypeOK, Offers, Queued, AccountInv
  <2>6. NoLostWakeup'
    BY <1>2 DEF EnqueueLock, TypeOK, NoLostWakeup
  <2>7. NoSleeperAfterStop'
    BY <1>2 DEF EnqueueLock, NoSleeperAfterStop, Waiting
  <2> QED
    BY <2>1, <2>2, <2>3, <2>4, <2>5, <2>6, <2>7
<1>3. ASSUME NEW s \in Submitters, EnqueuePush(s) PROVE IInv'
  <2>1. submit_task[s] \in Tasks
    BY <1>3 DEF EnqueuePush, TypeOK, HoldInv
  <2>2. tasks' \in Seq(Tasks) /\ Queued' = Queued \cup {submit_task[s]}
    BY <1>3, <2>1, AppendElements, QueuedElements DEF EnqueuePush, TypeOK
  <2>3. TypeOK'
    BY <1>3, <2>1, <2>2 DEF EnqueuePush, TypeOK, Threads, SubmitPc
  <2>4. MutexInv'
    BY <1>3, <2>1, <2>2 DEF EnqueuePush, TypeOK, Threads, MutexInv
  <2>5. StopInv'
    BY <1>3, <2>1, <2>2 DEF EnqueuePush, TypeOK, StopInv
  <2>6. HoldInv'
    BY <1>3, <2>1, <2>2 DEF EnqueuePush, TypeOK, HoldInv
  <2>7. AccountInv'
    BY <1>3, <2>1, <2>2 DEF EnqueuePush, TypeOK, Offers, HoldInv, AccountInv
  <2>8. NoLostWakeup'
    BY <1>3, <2>1, <2>2 DEF EnqueuePush, TypeOK, NoLostWakeup
  <2>9. NoSleeperAfterStop'
    BY <1>3 DEF EnqueuePush, NoSleeperAfterStop, Waiting
  <2> QED
    BY <2>3, <2>4, <2>5, <2>6, <2>7, <2>8, <2>9
<1>4. ASSUME NEW s \in Submitters, EnqueueThrow(s) PROVE IInv'
  <2>1. TypeOK'
    BY <1>4 DEF EnqueueThrow, TypeOK, HoldInv, Threads, SubmitPc
  <2>2. MutexInv'
    BY <1>4 DEF EnqueueThrow, TypeOK, Threads, MutexInv
  <2>3. StopInv'
    BY <1>4 DEF EnqueueThrow, TypeOK, StopInv
  <2>4. HoldInv'
    BY <1>4 DEF EnqueueThrow, TypeOK, HoldInv
  <2>5. AccountInv'
    BY <1>4 DEF EnqueueThrow, TypeOK, Offers, Queued, AccountInv
  <2>6. NoLostWakeup'
    BY <1>4 DEF EnqueueThrow, TypeOK, NoLostWakeup
  <2>7. NoSleeperAfterStop'
    BY <1>4 DEF EnqueueThrow, NoSleeperAfterStop, Waiting
  <2> QED
    BY <2>1, <2>2, <2>3, <2>4, <2>5, <2>6, <2>7
<1>5. ASSUME NEW s \in Submitters, EnqueueNotify(s) PROVE IInv'
  <2>1. TypeOK'
    BY <1>5 DEF NotifyOne, Waiting, EnqueueNotify, TypeOK, WorkerPc, SubmitPc
  <2>2. MutexInv'
    BY <1>5 DEF NotifyOne, Waiting, EnqueueNotify, TypeOK, MutexInv
  <2>3. StopInv'
    BY <1>5 DEF NotifyOne, Waiting, EnqueueNotify, TypeOK, StopInv
  <2>4. HoldInv'
    BY <1>5 DEF NotifyOne, Waiting, EnqueueNotify, TypeOK, HoldInv
  <2>5. AccountInv'
    BY <1>5
      DEF NotifyOne, Waiting, EnqueueNotify, TypeOK, Offers, Queued, AccountInv
  <2>6. NoSleeperAfterStop'
    BY <1>5
      DEF NotifyOne, Waiting, EnqueueNotify, TypeOK, StopInv, NoSleeperAfterStop
  <2>7. NoLostWakeup'
    BY <1>5
      DEF NotifyOne, Waiting, EnqueueNotify, TypeOK, StopInv, WorkerPc,
        NoLostWakeup
  <2> QED
    BY <2>1, <2>2, <2>3, <2>4, <2>5, <2>6, <2>7
<1>6. ASSUME NEW w \in Workers, WorkerLock(w) PROVE IInv'
  <2>1. TypeOK'
    BY <1>6 DEF WorkerLock, TypeOK, Threads, WorkerPc
  <2>2. MutexInv'
    BY <1>6 DEF WorkerLock, TypeOK, Threads, MutexInv
  <2>3. StopInv'
    BY <1>6 DEF WorkerLock, TypeOK, StopInv
  <2>4. HoldInv'
    BY <1>6 DEF WorkerLock, TypeOK, HoldInv
  <2>5. NoSleeperAfterStop'
    BY <1>6 DEF WorkerLock, TypeOK, Waiting, StopInv, NoSleeperAfterStop
  <2>6. NoLostWakeup'
    BY <1>6 DEF WorkerLock, TypeOK, NoLostWakeup
  <2>7. AccountInv'
    BY <1>6 DEF WorkerLock, AccountInv, Offers, Queued
  <2> QED
    BY <2>1, <2>2, <2>3, <2>4, <2>5, <2>6, <2>7
<1>7. ASSUME NEW w \in Workers, WorkerWait(w) PROVE IInv'
  <2>1. TypeOK'
    BY <1>7 DEF WakeCondition, WorkerWait, TypeOK, Threads, WorkerPc
  <2>2. MutexInv'
    BY <1>7 DEF WakeCondition, WorkerWait, TypeOK, Threads, MutexInv
  <2>3. StopInv'
    BY <1>7 DEF WakeCondition, WorkerWait, TypeOK, StopInv
  <2>4. HoldInv'
    BY <1>7 DEF WakeCondition, WorkerWait, TypeOK, HoldInv
  <2>5. NoSleeperAfterStop'
    BY <1>7
      DEF WakeCondition, WorkerWait, TypeOK, Waiting, StopInv, NoSleeperAfterStop
  <2>6. NoLostWakeup'
    BY <1>7 DEF WakeCondition, WorkerWait, TypeOK, NoLostWakeup
  <2>7. AccountInv'
    BY <1>7 DEF WorkerWait, AccountInv, Offers, Queued
  <2> QED
    BY <2>1, <2>2, <2>3, <2>4, <2>5, <2>6, <2>7
<1>8. ASSUME NEW w \in Workers, WorkerTake(w) PROVE IInv'
  <2>1. /\ Head(tasks) \in Tasks /\ tasks' \in Seq(Tasks)
        /\ Queued = Queued' \cup {Head(tasks)}
    BY <1>8, TakeElements, QueuedElements DEF WorkerTake, TypeOK
  <2>2. TypeOK'
    BY <1>8, <2>1 DEF WorkerTake, TypeOK, Threads, WorkerPc
  <2>3. MutexInv'
    BY <1>8, <2>1 DEF WorkerTake, TypeOK, Threads, MutexInv
  <2>4. StopInv'
    BY <1>8, <2>1 DEF WorkerTake, TypeOK, StopInv
  <2>5. HoldInv'
    BY <1>8, <2>1 DEF WorkerTake, TypeOK, HoldInv
  <2>6. AccountInv'
    BY <1>8, <2>1 DEF WorkerTake, TypeOK, Offers, HoldInv, AccountInv
  <2>7. NoSleeperAfterStop'
    BY <1>8, <2>1 DEF WorkerTake, TypeOK, Waiting, StopInv, NoSleeperAfterStop
  <2>8. NoLostWakeup'
    BY <1>8, <2>1 DEF WorkerTake, TypeOK, NoLostWakeup
  <2> QED
    BY <2>2, <2>3, <2>4, <2>5, <2>6, <2>7, <2>8
<1>9. ASSUME NEW w \in Workers, WorkerExit(w) PROVE IInv'
  <2>1. TypeOK'
    BY <1>9 DEF WorkerExit, TypeOK, Threads, WorkerPc
  <2>2. MutexInv'
    BY <1>9 DEF WorkerExit, TypeOK, Threads, MutexInv
  <2>3. StopInv'
    BY <1>9 DEF WorkerExit, TypeOK, StopInv
  <2>4. HoldInv'
    BY <1>9 DEF WorkerExit, TypeOK, HoldInv
  <2>5. NoSleeperAfterStop'
    BY <1>9 DEF WorkerExit, TypeOK, Waiting, StopInv, NoSleeperAfterStop
  <2>6. NoLostWakeup'
    BY <1>9 DEF WorkerExit, TypeOK, NoLostWakeup
  <2>7. AccountInv'
    BY <1>9 DEF WorkerExit, AccountInv, Offers, Queued
  <2> QED
    BY <2>1, <2>2, <2>3, <2>4, <2>5, <2>6, <2>7
<1>10. ASSUME NEW w \in Workers, WorkerRun(w) PROVE IInv'
  <2>1. TypeOK'
    BY <1>10 DEF WorkerRun, TypeOK, HoldInv, WorkerPc
  <2>2. MutexInv'
    BY <1>10 DEF WorkerRun, TypeOK, MutexInv
  <2>3. StopInv'
    BY <1>10 DEF WorkerRun, TypeOK, StopInv
  <2>4. HoldInv'
    BY <1>10 DEF WorkerRun, TypeOK, HoldInv
  <2>5. AccountInv'
    BY <1>10 DEF WorkerRun, TypeOK, Offers, Queued, HoldInv, AccountInv
  <2>6. NoSleeperAfterStop'
    BY <1>10 DEF WorkerRun, TypeOK, Waiting, StopInv, NoSleeperAfterStop
  <2>7. NoLostWakeup'
    BY <1>10 DEF WorkerRun, TypeOK, NoLostWakeup
  <2> QED
    BY <2>1, <2>2, <2>3, <2>4, <2>5, <2>6, <2>7
<1>11. ASSUME NEW w \in Workers, SpuriousWakeup(w) PROVE IInv'
  <2>1. TypeOK'
    BY <1>11 DEF SpuriousWakeup, TypeOK, WorkerPc
  <2>2. MutexInv'
    BY <1>11 DEF SpuriousWakeup, TypeOK, MutexInv
  <2>3. StopInv'
    BY <1>11 DEF SpuriousWakeup, TypeOK, StopInv
  <2>4. HoldInv'
    BY <1>11 DEF SpuriousWakeup, TypeOK, HoldInv
  <2>5. NoSleeperAfterStop'
    BY <1>11 DEF SpuriousWakeup, TypeOK, Waiting, StopInv, NoSleeperAfterStop
  <2>6. NoLostWakeup'
    BY <1>11 DEF SpuriousWakeup, TypeOK, NoLostWakeup
  <2>7. AccountInv'
    BY <1>11 DEF SpuriousWakeup, AccountInv, Offers, Queued
  <2> QED
    BY <2>1, <2>2, <2>3, <2>4, <2>5, <2>6, <2>7
<1>12. ASSUME DestructorCall PROVE IInv'
  <2>1. TypeOK'
    BY <1>12 DEF OwnerGoes, DestructorCall, TypeOK, OwnerPc
  <2>2. MutexInv'
    BY <1>12 DEF OwnerGoes, DestructorCall, TypeOK, MutexInv
  <2>3. StopInv'
    BY <1>12 DEF OwnerGoes, DestructorCall, TypeOK, StopInv
  <2>4. NoSleeperAfterStop'
    BY <1>12
      DEF OwnerGoes, DestructorCall, TypeOK, Waiting, StopInv, NoSleeperAfterStop
  <2>5. HoldInv' /\ AccountInv' /\ NoLostWakeup'
    BY <1>12
      DEF DestructorCall, HoldInv, AccountInv, NoLostWakeup, Offers, Queued
  <2> QED
    BY <2>1, <2>2, <2>3, <2>4, <2>5
<1>13. ASSUME DestructorLock PROVE IInv'
  <2>1. TypeOK'
    BY <1>13 DEF OwnerGoes, DestructorLock, TypeOK, Threads, OwnerPc
  <2>2. MutexInv'
    BY <1>13 DEF OwnerGoes, DestructorLock, TypeOK, Threads, MutexInv
  <2>3. StopInv'
    BY <1>13 DEF OwnerGoes, DestructorLock, TypeOK, StopInv
  <2>4. NoSleeperAfterStop'
    BY <1>13
      DEF OwnerGoes, DestructorLock, TypeOK, Waiting, StopInv, NoSleeperAfterStop
  <2>5. HoldInv' /\ AccountInv' /\ NoLostWakeup'
    BY <1>13
      DEF DestructorLock, HoldInv, AccountInv, NoLostWakeup, Offers, Queued
  <2> QED
    BY <2>1, <2>2, <2>3, <2>4, <2>5
<1>14. ASSUME DestructorSetStop PROVE IInv'
  <2>1. TypeOK'
    BY <1>14 DEF OwnerGoes, DestructorSetStop, TypeOK, Threads, OwnerPc
  <2>2. MutexInv'
    BY <1>14 DEF OwnerGoes, DestructorSetStop, TypeOK, Threads, MutexInv
  <2>3. StopInv'
    BY <1>14 DEF OwnerGoes, DestructorSetStop, TypeOK, StopInv
  <2>4. NoSleeperAfterStop'
    BY <1>14
      DEF OwnerGoes, DestructorSetStop, TypeOK, Waiting, StopInv,
        NoSleeperAfterStop
  <2>5. HoldInv' /\ AccountInv' /\ NoLostWakeup'
    BY <1>14
      DEF DestructorSetStop, HoldInv, AccountInv, NoLostWakeup, Offers, Queued
  <2> QED
    BY <2>1, <2>2, <2>3, <2>4, <2>5
<1>15. ASSUME DestructorNotifyAll PROVE IInv'
  <2>1. TypeOK'
    BY <1>15
      DEF OwnerGoes, Waiting, DestructorNotifyAll, TypeOK, WorkerPc, OwnerPc
  <2>2. MutexInv'
    BY <1>15 DEF OwnerGoes, Waiting, DestructorNotifyAll, TypeOK, MutexInv
  <2>3. StopInv'
    BY <1>15 DEF OwnerGoes, Waiting, DestructorNotifyAll, TypeOK, StopInv
  <2>4. HoldInv'
    BY <1>15 DEF OwnerGoes, Waiting, DestructorNotifyAll, TypeOK, HoldInv
  <2>5. NoSleeperAfterStop'
    BY <1>15
      DEF OwnerGoes, Waiting, DestructorNotifyAll, TypeOK, StopInv,
        NoSleeperAfterStop
  <2>6. NoLostWakeup'
    BY <1>15 DEF OwnerGoes, Waiting, DestructorNotifyAll, TypeOK, NoLostWakeup
  <2>7. AccountInv'
    BY <1>15 DEF DestructorNotifyAll, AccountInv, Offers, Queued
  <2> QED
    BY <2>1, <2>2, <2>3, <2>4, <2>5, <2>6, <2>7
<1>16. ASSUME DestructorJoin PROVE IInv'
  <2>1. TypeOK'
    BY <1>16 DEF OwnerGoes, CallsReturned, DestructorJoin, TypeOK, OwnerPc
  <2>2. MutexInv'
    BY <1>16 DEF OwnerGoes, CallsReturned, DestructorJoin, TypeOK, MutexInv
  <2>3. StopInv'
    BY <1>16 DEF OwnerGoes, CallsReturned, DestructorJoin, TypeOK, StopInv
  <2>4. NoSleeperAfterStop'
    BY <1>16
      DEF OwnerGoes, CallsReturned, DestructorJoin, TypeOK, Waiting, StopInv,
        NoSleeperAfterStop
  <2>5. HoldInv' /\ AccountInv' /\ NoLostWakeup'
    BY <1>16
      DEF DestructorJoin, HoldInv, AccountInv, NoLostWakeup, Offers, Queued
  <2> QED
    BY <2>1, <2>2, <2>3, <2>4, <2>5
<1>17. ASSUME UNCHANGED vars PROVE IInv'
  BY <1>17
    DEF vars, TypeOK, MutexInv, StopInv, HoldInv, AccountInv, Offers, Queued,
      NoSleeperAfterStop, NoLostWakeup, Waiting
<1> QED
  BY <1>1, <1>2, <1>3, <1>4, <1>5, <1>6, <1>7, <1>8, <1>9, <1>10, <1>11, <1>12,
    <1>13, <1>14, <1>15, <1>16, <1>17
    DEF Next, SubmitterStep, WorkerStep, OwnerStep

\* IInv holds throughout.
LEMMA Invariant == Spec => []IInv
<1>1. Init => IInv
  BY InitInv
<1>2. IInv /\ [Next]_vars => IInv'
  BY NextInv
<1> QED
  BY <1>1, <1>2, PTL DEF Spec

-----------------------------------------------------------------------------
(* The safety theorems *)

\* Every variable keeps its type; in particular what is queued and run is
\* always a task that enqueue was given.
THEOREM TypeCorrect == Spec => []TypeOK
  BY Invariant, PTL DEF IInv

\* Notifying after queue_mutex is released loses no wakeup, for any number of
\* workers and callers of enqueue.
THEOREM WakeupSafety == Spec => []NoLostWakeup
  BY Invariant, PTL DEF IInv

\* No worker sleeps through the destructor.
THEOREM StopSafety == Spec => []NoSleeperAfterStop
  BY Invariant, PTL DEF IInv

\* The destructor drains the queue: every accepted task has run when it ends.
THEOREM DrainSafety == Spec => []DrainedOnDestruction
<1>1. IInv => DrainedOnDestruction
  <2> SUFFICES ASSUME IInv, owner_pc = "destroyed", Workers # {}, NEW t \in created
               PROVE  t \in finished \cup rejected
    BY DEF DrainedOnDestruction
  <2>1. tasks = <<>> /\ \A w \in Workers : worker_pc[w] = "exited"
    BY DEF IInv, StopInv
  <2>2. Queued = {}
    BY <2>1 DEF Queued
  <2>3. \A w \in Workers : worker_task[w] # t
    BY <2>1, ThreadsAssumption DEF IInv, HoldInv, TypeOK
  <2>4. \A s \in Submitters : ~Offers(s, t)
    BY DEF IInv, StopInv, Offers
  <2> QED
    BY <2>2, <2>3, <2>4 DEF IInv, AccountInv
<1> QED
  BY <1>1, Invariant, PTL

-----------------------------------------------------------------------------
(* Each task is in one place, so that it starts once *)

KnownInv ==
  /\ Queued \subseteq created
  /\ finished \subseteq created
  /\ \A w \in Workers : worker_task[w] \in created \cup {NoTask}

OnceInv ==
  /\ \A r, s \in Submitters, t \in Tasks : Offers(r, t) /\ Offers(s, t) => r = s
  /\ \A s \in Submitters, t \in Tasks :
       Offers(s, t) => t \notin Queued \cup Running \cup finished
  /\ \A i, j \in 1 .. Len(tasks) : tasks[i] = tasks[j] => i = j
  /\ \A t \in Queued : t \notin Running \cup finished
  /\ \A v, w \in Workers :
       worker_task[v] = worker_task[w] /\ worker_task[v] # NoTask => v = w
  /\ \A t \in Running : t \notin finished

\* A new pool has no task in two places.
LEMMA InitOnce == ASSUME Init PROVE KnownInv /\ OnceInv
  BY ThreadsAssumption DEF Init, KnownInv, OnceInv, Queued, Running, Offers

\* No step of enqueue, the worker loop or the destructor duplicates a task.
LEMMA NextOnce == ASSUME IInv, KnownInv, OnceInv, [Next]_vars PROVE KnownInv' /\ OnceInv'
<1> USE ThreadsAssumption
<1>0. TypeOK /\ HoldInv /\ MutexInv
  BY DEF IInv
<1>1. ASSUME NEW s \in Submitters, NEW t \in Tasks, EnqueueCall(s, t) PROVE KnownInv' /\ OnceInv'
  <2>1. KnownInv'
    BY <1>1, <1>0 DEF EnqueueCall, TypeOK, HoldInv, KnownInv, Queued, Running
  <2>2. OnceInv'
    <3>1. /\ Queued' = Queued /\ Running' = Running
          /\ UNCHANGED <<tasks, worker_task, finished>>
      BY <1>1 DEF EnqueueCall, Queued, Running
    <3>2. t \notin Queued \cup Running \cup finished
      BY <1>1 DEF EnqueueCall, KnownInv, Running
    <3>3. \A r \in Submitters, x \in Tasks :
             Offers(r, x)' <=> IF r = s THEN x = t ELSE Offers(r, x)
      BY <1>1, <1>0 DEF EnqueueCall, TypeOK, Offers
    <3>4. \A r \in Submitters : ~Offers(r, t)
      BY <1>1, <1>0 DEF EnqueueCall, HoldInv, Offers
    <3> QED
      BY <3>1, <3>2, <3>3, <3>4 DEF OnceInv
  <2> QED
    BY <2>1, <2>2
<1>2. ASSUME NEW s \in Submitters, EnqueueLock(s) PROVE KnownInv' /\ OnceInv'
  BY <1>2 DEF EnqueueLock, KnownInv, OnceInv, Offers, Queued, Running
<1>3. ASSUME NEW s \in Submitters, EnqueuePush(s) PROVE KnownInv' /\ OnceInv'
  <2>1. submit_task[s] \in Tasks /\ Offers(s, submit_task[s])
    BY <1>3, <1>0 DEF EnqueuePush, TypeOK, HoldInv, Offers
  <2>2. submit_task[s] \notin Queued /\ Distinct(tasks)
    BY <2>1 DEF OnceInv, Distinct
  <2>3. Queued' = Queued \cup {submit_task[s]}
    BY <1>3, <1>0, <2>1, AppendElements, QueuedElements DEF EnqueuePush, TypeOK
  <2>4. Distinct(tasks')
    BY <1>3, <1>0, <2>1, <2>2, AppendDistinct, QueuedElements
      DEF EnqueuePush, TypeOK
  <2>5. KnownInv'
    BY <1>3, <1>0, <2>3 DEF EnqueuePush, TypeOK, HoldInv, KnownInv
  <2>6. OnceInv'
    BY <1>3, <1>0, <2>1, <2>2, <2>3, <2>4
      DEF EnqueuePush, TypeOK, OnceInv, Offers, Distinct, Running
  <2> QED
    BY <2>5, <2>6
<1>4. ASSUME NEW s \in Submitters, EnqueueThrow(s) PROVE KnownInv' /\ OnceInv'
  <2>1. KnownInv'
    BY <1>4, <1>0 DEF EnqueueThrow, TypeOK, HoldInv, KnownInv, Queued, Running
  <2>2. OnceInv'
    BY <1>4, <1>0
      DEF EnqueueThrow, TypeOK, HoldInv, KnownInv, OnceInv, Offers, Queued,
        Running
  <2> QED
    BY <2>1, <2>2
<1>5. ASSUME NEW s \in Submitters, EnqueueNotify(s) PROVE KnownInv' /\ OnceInv'
  BY <1>5 DEF EnqueueNotify, KnownInv, OnceInv, Offers, Queued, Running
<1>6. ASSUME NEW w \in Workers, WorkerLock(w) PROVE KnownInv' /\ OnceInv'
  BY <1>6 DEF WorkerLock, KnownInv, OnceInv, Offers, Queued, Running
<1>7. ASSUME NEW w \in Workers, WorkerWait(w) PROVE KnownInv' /\ OnceInv'
  BY <1>7 DEF WorkerWait, KnownInv, OnceInv, Offers, Queued, Running
<1>8. ASSUME NEW w \in Workers, WorkerTake(w) PROVE KnownInv' /\ OnceInv'
  <2>1. worker_task[w] = NoTask /\ Head(tasks) \in Tasks
    BY <1>8, <1>0, TakeElements DEF WorkerTake, TypeOK, HoldInv
  <2>2. Queued = {Head(tasks)} \cup Queued'
    BY <1>8, <1>0, TakeElements, QueuedElements DEF WorkerTake, TypeOK
  <2>3. Distinct(tasks)
    BY DEF OnceInv, Distinct
  <2>4. Distinct(tasks') /\ Head(tasks) \notin Queued'
    BY <1>8, <1>0, <2>3, TakeDistinct, QueuedElements DEF WorkerTake, TypeOK
  <2>5. KnownInv'
    BY <1>8, <1>0, <2>2 DEF WorkerTake, TypeOK, KnownInv
  <2>6. OnceInv'
    BY <1>8, <1>0, <2>1, <2>2, <2>4
      DEF WorkerTake, TypeOK, OnceInv, Offers, Distinct, Running
  <2> QED
    BY <2>5, <2>6
<1>9. ASSUME NEW w \in Workers, WorkerExit(w) PROVE KnownInv' /\ OnceInv'
  BY <1>9 DEF WorkerExit, KnownInv, OnceInv, Offers, Queued, Running
<1>10. ASSUME NEW w \in Workers, WorkerRun(w) PROVE KnownInv' /\ OnceInv'
  <2>1. KnownInv'
    BY <1>10, <1>0 DEF WorkerRun, TypeOK, HoldInv, KnownInv, Queued, Running
  <2>2. OnceInv'
    <3>1. /\ Queued' = Queued /\ tasks' = tasks
          /\ \A s \in Submitters, t \in Tasks : Offers(s, t)' <=> Offers(s, t)
          /\ worker_task' = [worker_task EXCEPT ![w] = NoTask]
          /\ finished' = finished \cup {worker_task[w]}
      BY <1>10 DEF WorkerRun, Offers, Queued
    <3>2. worker_task[w] \in Running /\ worker_task[w] # NoTask
      BY <1>10, <1>0 DEF WorkerRun, HoldInv, Running
    <3>3. Running' \subseteq Running /\ worker_task[w] \notin Running'
      BY <1>0, <3>1, <3>2 DEF TypeOK, OnceInv, Running
    <3> QED
      BY <1>0, <3>1, <3>2, <3>3 DEF TypeOK, OnceInv
  <2> QED
    BY <2>1, <2>2
<1>11. ASSUME NEW w \in Workers, SpuriousWakeup(w) PROVE KnownInv' /\ OnceInv'
  BY <1>11 DEF SpuriousWakeup, KnownInv, OnceInv, Offers, Queued, Running
<1>12. ASSUME DestructorCall PROVE KnownInv' /\ OnceInv'
  BY <1>12 DEF DestructorCall, KnownInv, OnceInv, Offers, Queued, Running
<1>13. ASSUME DestructorLock PROVE KnownInv' /\ OnceInv'
  BY <1>13 DEF DestructorLock, KnownInv, OnceInv, Offers, Queued, Running
<1>14. ASSUME DestructorSetStop PROVE KnownInv' /\ OnceInv'
  BY <1>14 DEF DestructorSetStop, KnownInv, OnceInv, Offers, Queued, Running
<1>15. ASSUME DestructorNotifyAll PROVE KnownInv' /\ OnceInv'
  BY <1>15 DEF DestructorNotifyAll, KnownInv, OnceInv, Offers, Queued, Running
<1>16. ASSUME DestructorJoin PROVE KnownInv' /\ OnceInv'
  BY <1>16 DEF DestructorJoin, KnownInv, OnceInv, Offers, Queued, Running
<1>17. ASSUME UNCHANGED vars PROVE KnownInv' /\ OnceInv'
  BY <1>17 DEF vars, KnownInv, OnceInv, Offers, Queued, Running
<1> QED
  BY <1>1, <1>2, <1>3, <1>4, <1>5, <1>6, <1>7, <1>8, <1>9, <1>10, <1>11, <1>12,
    <1>13, <1>14, <1>15, <1>16, <1>17
    DEF Next, SubmitterStep, WorkerStep, OwnerStep

\* No task is ever in two places.
LEMMA OnceInvariant == Spec => [](IInv /\ KnownInv /\ OnceInv)
<1>1. Init => KnownInv /\ OnceInv
  BY InitOnce
<1>2. IInv /\ (KnownInv /\ OnceInv) /\ [Next]_vars => (KnownInv /\ OnceInv)'
  BY NextOnce
<1> QED
  BY <1>1, <1>2, Invariant, PTL DEF Spec

-----------------------------------------------------------------------------
(* Refinement *)

\* A new pool is a new executor.
LEMMA InitRefines == ASSUME Init PROVE Executor!Init
  BY DEF Init, Executor!Init, Running

\* Every step of the pool is a step of the executor or leaves it alone.
LEMMA NextRefines ==
  ASSUME IInv, KnownInv, OnceInv, Workers # {}, [Next]_vars
  PROVE  [Executor!Next]_(Executor!vars)
<1> USE ThreadsAssumption
<1>0. TypeOK /\ HoldInv /\ StopInv
  BY DEF IInv
<1>1. ASSUME NEW s \in Submitters, NEW t \in Tasks, EnqueueCall(s, t) PROVE [Executor!Next]_(Executor!vars)
  BY <1>1 DEF EnqueueCall, Executor!vars, Running
<1>2. ASSUME NEW s \in Submitters, EnqueueLock(s) PROVE [Executor!Next]_(Executor!vars)
  BY <1>2 DEF EnqueueLock, Executor!vars, Running
<1>3. ASSUME NEW s \in Submitters, EnqueuePush(s) PROVE [Executor!Next]_(Executor!vars)
  <2>1. submit_task[s] \in Tasks /\ Offers(s, submit_task[s])
    BY <1>3, <1>0 DEF EnqueuePush, TypeOK, HoldInv, Offers
  <2>2. submit_task[s] \notin Queued \cup Running \cup finished
    BY <2>1 DEF OnceInv
  <2>3. Executor!Queued = Queued
    BY DEF Executor!Queued, Queued
  <2>4. Executor!Accept(submit_task[s])
    BY <1>3, <2>2, <2>3 DEF EnqueuePush, Executor!Accept, Running
  <2> QED
    BY <2>1, <2>4 DEF Executor!Next
<1>4. ASSUME NEW s \in Submitters, EnqueueThrow(s) PROVE [Executor!Next]_(Executor!vars)
  BY <1>4 DEF EnqueueThrow, Executor!vars, Running
<1>5. ASSUME NEW s \in Submitters, EnqueueNotify(s) PROVE [Executor!Next]_(Executor!vars)
  BY <1>5 DEF EnqueueNotify, Executor!vars, Running
<1>6. ASSUME NEW w \in Workers, WorkerLock(w) PROVE [Executor!Next]_(Executor!vars)
  BY <1>6 DEF WorkerLock, Executor!vars, Running
<1>7. ASSUME NEW w \in Workers, WorkerWait(w) PROVE [Executor!Next]_(Executor!vars)
  BY <1>7 DEF WorkerWait, Executor!vars, Running
<1>8. ASSUME NEW w \in Workers, WorkerTake(w) PROVE [Executor!Next]_(Executor!vars)
  <2>1. worker_task[w] = NoTask /\ Head(tasks) \in Tasks
    BY <1>8, <1>0, TakeElements DEF WorkerTake, TypeOK, HoldInv
  <2>2. Running' = Running \cup {Head(tasks)}
    BY <1>8, <1>0, <2>1 DEF WorkerTake, Running, TypeOK
  <2>3. owner_pc # "destroyed"
    BY <1>8, <1>0 DEF WorkerTake, StopInv
  <2>4. Executor!Start
    BY <1>8, <2>2, <2>3 DEF WorkerTake, Executor!Start
  <2> QED
    BY <2>4 DEF Executor!Next
<1>9. ASSUME NEW w \in Workers, WorkerExit(w) PROVE [Executor!Next]_(Executor!vars)
  BY <1>9 DEF WorkerExit, Executor!vars, Running
<1>10. ASSUME NEW w \in Workers, WorkerRun(w) PROVE [Executor!Next]_(Executor!vars)
  <2>1. worker_task[w] \in Tasks
    BY <1>10, <1>0 DEF WorkerRun, TypeOK, HoldInv
  <2>2. Running' = Running \ {worker_task[w]}
    BY <1>10, <1>0, <2>1 DEF WorkerRun, Running, TypeOK, OnceInv
  <2>3. Executor!Finish(worker_task[w])
    BY <1>10, <2>1, <2>2 DEF WorkerRun, Executor!Finish, Running
  <2> QED
    BY <2>1, <2>3 DEF Executor!Next
<1>11. ASSUME NEW w \in Workers, SpuriousWakeup(w) PROVE [Executor!Next]_(Executor!vars)
  BY <1>11 DEF SpuriousWakeup, Executor!vars, Running
<1>12. ASSUME DestructorCall PROVE [Executor!Next]_(Executor!vars)
  BY <1>12, <1>0 DEF DestructorCall, OwnerGoes, StopInv, Executor!vars, Running
<1>13. ASSUME DestructorLock PROVE [Executor!Next]_(Executor!vars)
  BY <1>13, <1>0 DEF DestructorLock, OwnerGoes, StopInv, Executor!vars, Running
<1>14. ASSUME DestructorSetStop PROVE [Executor!Next]_(Executor!vars)
  <2>1. Executor!Close
    BY <1>14, <1>0 DEF DestructorSetStop, OwnerGoes, StopInv, Executor!Close, Running
  <2> QED
    BY <2>1 DEF Executor!Next
<1>15. ASSUME DestructorNotifyAll PROVE [Executor!Next]_(Executor!vars)
  BY <1>15, <1>0
    DEF DestructorNotifyAll, OwnerGoes, StopInv, Executor!vars, Running
<1>16. ASSUME DestructorJoin PROVE [Executor!Next]_(Executor!vars)
  <2>1. tasks = <<>> /\ stop
    BY <1>16, <1>0 DEF DestructorJoin, OwnerGoes, StopInv
  <2>2. Running = {}
    BY <1>16, <1>0 DEF DestructorJoin, HoldInv, Running
  <2>3. Executor!Release
    BY <1>16, <2>1, <2>2 DEF DestructorJoin, OwnerGoes, Executor!Release, Running
  <2> QED
    BY <2>3 DEF Executor!Next
<1>17. ASSUME UNCHANGED vars PROVE [Executor!Next]_(Executor!vars)
  BY <1>17 DEF vars, Executor!vars, Running
<1> QED
  BY <1>1, <1>2, <1>3, <1>4, <1>5, <1>6, <1>7, <1>8, <1>9, <1>10, <1>11, <1>12,
    <1>13, <1>14, <1>15, <1>16, <1>17
    DEF Next, SubmitterStep, WorkerStep, OwnerStep

\* The safety part of ImplementsExecutor: a pool with a worker starts tasks in
\* the order accepted, each one once, accepts nothing after stop, and is gone
\* only when all it accepted has run.
THEOREM PoolImplementsExecutor ==
  ASSUME Workers # {}
  PROVE  Spec => Executor!Spec
<1>1. Init => Executor!Init
  BY InitRefines
<1>2. IInv /\ KnownInv /\ OnceInv /\ [Next]_vars => [Executor!Next]_(Executor!vars)
  BY NextRefines
<1> QED
  BY <1>1, <1>2, OnceInvariant, PTL DEF Spec, Executor!Spec

=============================================================================
