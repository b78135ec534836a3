----------------------------- MODULE ThreadPool -----------------------------
(***************************************************************************)
(* argb::ThreadPool (network-library/code/headers/ThreadPool.hpp and       *)
(* sources/ThreadPool.cpp): a queue of tasks under queue_mutex, a          *)
(* condition variable on which idle workers wait, and a destructor that    *)
(* lets the workers drain the queue before it joins them.                  *)
(*                                                                         *)
(* Every critical section of the code is two steps here, the acquisition   *)
(* of queue_mutex and the body that ends by releasing it, and both notify  *)
(* calls are steps of their own because the code makes them after the      *)
(* mutex is released.                                                      *)
(***************************************************************************)
EXTENDS Naturals, Sequences

CONSTANTS
  Workers,     \* the threads of `workers`; num_threads of them, possibly none
  Submitters,  \* the threads that call enqueue
  Owner,       \* the thread that destroys the pool
  Tasks,       \* the packaged tasks enqueue creates
  NoTask,
  NoThread     \* queue_mutex is free

ASSUME ThreadsAssumption ==
  /\ Workers \cap Submitters = {}
  /\ Owner \notin Workers \cup Submitters
  /\ NoThread \notin Workers \cup Submitters \cup {Owner}
  /\ NoTask \notin Tasks

VARIABLES
  tasks,        \* the queue `tasks`, oldest first
  stop,
  queue_mutex,  \* the thread that holds it, or NoThread
  worker_pc,    \* where each worker is in its loop
  worker_task,  \* the local `task` of each worker, NoTask when empty
  submit_pc,    \* where each submitter is in enqueue
  submit_task,  \* the task its current call of enqueue has created
  owner_pc,     \* where the owner is in ~ThreadPool
  created,      \* history: tasks some call of enqueue has created
  finished,     \* history: tasks that have run to their end
  rejected      \* history: tasks whose enqueue threw

vars == <<tasks, stop, queue_mutex, worker_pc, worker_task, submit_pc,
          submit_task, owner_pc, created, finished, rejected>>

Threads == Workers \cup Submitters \cup {Owner}

\* "waiting" is the wait set of `condition`; a notified worker is back at
\* "lock", where condition.wait reacquires the mutex.
WorkerPc == {"lock", "check", "waiting", "run", "exited"}
SubmitPc == {"idle", "lock", "push", "notify"}
OwnerPc  == {"alive", "lock", "set_stop", "notify_all", "join", "destroyed"}

Waiting == {w \in Workers : worker_pc[w] = "waiting"}
Queued  == {tasks[i] : i \in 1 .. Len(tasks)}
Running == {worker_task[w] : w \in Workers} \ {NoTask}

Init ==
  /\ tasks = <<>>
  /\ stop = FALSE
  /\ queue_mutex = NoThread
  /\ worker_pc = [w \in Workers |-> "lock"]
  /\ worker_task = [w \in Workers |-> NoTask]
  /\ submit_pc = [s \in Submitters |-> "idle"]
  /\ submit_task = [s \in Submitters |-> NoTask]
  /\ owner_pc = "alive"
  /\ created = {}
  /\ finished = {}
  /\ rejected = {}

-----------------------------------------------------------------------------
(* enqueue *)

\* Mutant: the task is moved away before it is pushed.
EnqueueCall_NoTask(s, t) ==
  /\ submit_pc[s] = "idle"
  /\ owner_pc # "destroyed"
  /\ t \notin created
  /\ submit_pc' = [submit_pc EXCEPT ![s] = "lock"]
  /\ submit_task' = [submit_task EXCEPT ![s] = NoTask]
  /\ created' = created \cup {t}
  /\ UNCHANGED <<tasks, stop, queue_mutex, worker_pc, worker_task, owner_pc,
                 finished, rejected>>

\* The call creates the packaged task and its future.  A pool that has been
\* destroyed is not called.
EnqueueCall(s, t) ==
  /\ submit_pc[s] = "idle"
  /\ owner_pc # "destroyed"
  /\ t \notin created
  /\ submit_pc' = [submit_pc EXCEPT ![s] = "lock"]
  /\ submit_task' = [submit_task EXCEPT ![s] = t]
  /\ created' = created \cup {t}
  /\ UNCHANGED <<tasks, stop, queue_mutex, worker_pc, worker_task, owner_pc,
                 finished, rejected>>

EnqueueLock(s) ==
  /\ submit_pc[s] = "lock"
  /\ queue_mutex = NoThread
  /\ queue_mutex' = s
  /\ submit_pc' = [submit_pc EXCEPT ![s] = "push"]
  /\ UNCHANGED <<tasks, stop, worker_pc, worker_task, submit_task, owner_pc,
                 created, finished, rejected>>

EnqueuePush(s) ==
  /\ submit_pc[s] = "push"
  /\ ~stop
  /\ tasks' = Append(tasks, submit_task[s])
  /\ queue_mutex' = NoThread
  /\ submit_pc' = [submit_pc EXCEPT ![s] = "notify"]
  /\ UNCHANGED <<stop, worker_pc, worker_task, submit_task, owner_pc,
                 created, finished, rejected>>

\* throw std::runtime_error: the lock is released by the unwinding.
EnqueueThrow(s) ==
  /\ submit_pc[s] = "push"
  /\ stop
  /\ queue_mutex' = NoThread
  /\ submit_pc' = [submit_pc EXCEPT ![s] = "idle"]
  /\ submit_task' = [submit_task EXCEPT ![s] = NoTask]
  /\ rejected' = rejected \cup {submit_task[s]}
  /\ UNCHANGED <<tasks, stop, worker_pc, worker_task, owner_pc, created,
                 finished>>

\* Mutant: enqueue does not notify.
NotifyOne_Nobody == UNCHANGED worker_pc

\* condition.notify_one: one waiter, any of them, goes back for the mutex.
NotifyOne ==
  IF Waiting = {}
    THEN UNCHANGED worker_pc
    ELSE \E w \in Waiting : worker_pc' = [worker_pc EXCEPT ![w] = "lock"]

EnqueueNotify(s) ==
  /\ submit_pc[s] = "notify"
  /\ NotifyOne
  /\ submit_pc' = [submit_pc EXCEPT ![s] = "idle"]
  /\ submit_task' = [submit_task EXCEPT ![s] = NoTask]
  /\ UNCHANGED <<tasks, stop, queue_mutex, worker_task, owner_pc, created,
                 finished, rejected>>

-----------------------------------------------------------------------------
(* The loop of a worker *)

WorkerLock(w) ==
  /\ worker_pc[w] = "lock"
  /\ queue_mutex = NoThread
  /\ queue_mutex' = w
  /\ worker_pc' = [worker_pc EXCEPT ![w] = "check"]
  /\ UNCHANGED <<tasks, stop, worker_task, submit_pc, submit_task, owner_pc,
                 created, finished, rejected>>

\* Mutant: the predicate forgets stop.
WakeCondition_NoStop == tasks # <<>>

\* The predicate condition.wait evaluates with the mutex held.
WakeCondition == stop \/ tasks # <<>>

\* The predicate is false: release the mutex and join the wait set at once.
WorkerWait(w) ==
  /\ worker_pc[w] = "check"
  /\ ~WakeCondition
  /\ queue_mutex' = NoThread
  /\ worker_pc' = [worker_pc EXCEPT ![w] = "waiting"]
  /\ UNCHANGED <<tasks, stop, worker_task, submit_pc, submit_task, owner_pc,
                 created, finished, rejected>>

\* Mutant: the newest task first.
WorkerTake_Newest(w) ==
  /\ worker_pc[w] = "check"
  /\ WakeCondition
  /\ tasks # <<>>
  /\ worker_task' = [worker_task EXCEPT ![w] = tasks[Len(tasks)]]
  /\ tasks' = SubSeq(tasks, 1, Len(tasks) - 1)
  /\ queue_mutex' = NoThread
  /\ worker_pc' = [worker_pc EXCEPT ![w] = "run"]
  /\ UNCHANGED <<stop, submit_pc, submit_task, owner_pc, created, finished,
                 rejected>>

WorkerTake(w) ==
  /\ worker_pc[w] = "check"
  /\ WakeCondition
  /\ tasks # <<>>
  /\ worker_task' = [worker_task EXCEPT ![w] = Head(tasks)]
  /\ tasks' = Tail(tasks)
  /\ queue_mutex' = NoThread
  /\ worker_pc' = [worker_pc EXCEPT ![w] = "run"]
  /\ UNCHANGED <<stop, submit_pc, submit_task, owner_pc, created, finished,
                 rejected>>

\* Mutant: the worker exits as soon as it sees stop.
WorkerExit_NoDrain(w) ==
  /\ worker_pc[w] = "check"
  /\ WakeCondition
  /\ stop
  /\ queue_mutex' = NoThread
  /\ worker_pc' = [worker_pc EXCEPT ![w] = "exited"]
  /\ UNCHANGED <<tasks, stop, worker_task, submit_pc, submit_task, owner_pc,
                 created, finished, rejected>>

WorkerExit(w) ==
  /\ worker_pc[w] = "check"
  /\ WakeCondition
  /\ stop
  /\ tasks = <<>>
  /\ queue_mutex' = NoThread
  /\ worker_pc' = [worker_pc EXCEPT ![w] = "exited"]
  /\ UNCHANGED <<tasks, stop, worker_task, submit_pc, submit_task, owner_pc,
                 created, finished, rejected>>

\* task() returns; an exception of the callable ends in its future, so the
\* worker goes on with its loop in every case.
WorkerRun(w) ==
  /\ worker_pc[w] = "run"
  /\ finished' = finished \cup {worker_task[w]}
  /\ worker_task' = [worker_task EXCEPT ![w] = NoTask]
  /\ worker_pc' = [worker_pc EXCEPT ![w] = "lock"]
  /\ UNCHANGED <<tasks, stop, queue_mutex, submit_pc, submit_task, owner_pc,
                 created, rejected>>

\* A condition variable may wake a waiter nobody has notified.
SpuriousWakeup(w) ==
  /\ worker_pc[w] = "waiting"
  /\ worker_pc' = [worker_pc EXCEPT ![w] = "lock"]
  /\ UNCHANGED <<tasks, stop, queue_mutex, worker_task, submit_pc,
                 submit_task, owner_pc, created, finished, rejected>>

-----------------------------------------------------------------------------
(* ~ThreadPool *)

OwnerGoes(from, to) ==
  /\ owner_pc = from
  /\ owner_pc' = to

DestructorCall ==
  /\ OwnerGoes("alive", "lock")
  /\ UNCHANGED <<tasks, stop, queue_mutex, worker_pc, worker_task, submit_pc,
                 submit_task, created, finished, rejected>>

DestructorLock ==
  /\ OwnerGoes("lock", "set_stop")
  /\ queue_mutex = NoThread
  /\ queue_mutex' = Owner
  /\ UNCHANGED <<tasks, stop, worker_pc, worker_task, submit_pc, submit_task,
                 created, finished, rejected>>

DestructorSetStop ==
  /\ OwnerGoes("set_stop", "notify_all")
  /\ stop' = TRUE
  /\ queue_mutex' = NoThread
  /\ UNCHANGED <<tasks, worker_pc, worker_task, submit_pc, submit_task,
                 created, finished, rejected>>

\* Mutant: notify_one instead of notify_all.
DestructorNotifyAll_One ==
  /\ OwnerGoes("notify_all", "join")
  /\ NotifyOne
  /\ UNCHANGED <<tasks, stop, queue_mutex, worker_task, submit_pc,
                 submit_task, created, finished, rejected>>

DestructorNotifyAll ==
  /\ OwnerGoes("notify_all", "join")
  /\ worker_pc' = [w \in Workers |->
                     IF w \in Waiting THEN "lock" ELSE worker_pc[w]]
  /\ UNCHANGED <<tasks, stop, queue_mutex, worker_task, submit_pc,
                 submit_task, created, finished, rejected>>

\* The callers of a C++ object keep it alive until their calls return.
CallsReturned == \A s \in Submitters : submit_pc[s] = "idle"

\* Every worker.join() has returned and the members are destroyed.
DestructorJoin ==
  /\ OwnerGoes("join", "destroyed")
  /\ \A w \in Workers : worker_pc[w] = "exited"
  /\ CallsReturned
  /\ UNCHANGED <<tasks, stop, queue_mutex, worker_pc, worker_task, submit_pc,
                 submit_task, created, finished, rejected>>

-----------------------------------------------------------------------------

SubmitterStep(s) ==
  EnqueuePush(s) \/ EnqueueThrow(s) \/ EnqueueNotify(s)

WorkerStep(w) ==
  WorkerWait(w) \/ WorkerTake(w) \/ WorkerExit(w) \/ WorkerRun(w)

OwnerStep == DestructorSetStop \/ DestructorNotifyAll \/ DestructorJoin

Next ==
  \/ \E s \in Submitters, t \in Tasks : EnqueueCall(s, t)
  \/ \E s \in Submitters : EnqueueLock(s) \/ SubmitterStep(s)
  \/ \E w \in Workers : WorkerLock(w) \/ WorkerStep(w) \/ SpuriousWakeup(w)
  \/ DestructorCall
  \/ DestructorLock
  \/ OwnerStep

Spec == Init /\ [][Next]_vars

\* A thread the operating system runs goes on with its loop or call (WF), and
\* a thread that finds queue_mutex free again and again gets it in the end
\* (SF).  A task that is run ends.  Nobody is obliged to call enqueue or to
\* destroy the pool, and no spurious wakeup is promised.
Fairness ==
  /\ \A w \in Workers : WF_vars(WorkerStep(w)) /\ SF_vars(WorkerLock(w))
  /\ \A s \in Submitters : WF_vars(SubmitterStep(s)) /\ SF_vars(EnqueueLock(s))
  /\ WF_vars(OwnerStep) /\ SF_vars(DestructorLock)

FairSpec == Spec /\ Fairness

-----------------------------------------------------------------------------
(* Properties *)

\* What the threads, the queue and the mutex hold.
TypeOK ==
  /\ tasks \in Seq(Tasks)
  /\ stop \in BOOLEAN
  /\ queue_mutex \in Threads \cup {NoThread}
  /\ worker_pc \in [Workers -> WorkerPc]
  /\ worker_task \in [Workers -> Tasks \cup {NoTask}]
  /\ submit_pc \in [Submitters -> SubmitPc]
  /\ submit_task \in [Submitters -> Tasks \cup {NoTask}]
  /\ owner_pc \in OwnerPc
  /\ created \subseteq Tasks
  /\ finished \subseteq Tasks
  /\ rejected \subseteq Tasks

\* A task waits in the queue while every worker sleeps only if the notify_one
\* of the enqueue that pushed it, or the destructor's notify_all, is still to
\* come: notifying after the mutex is released loses no wakeup.
NoLostWakeup ==
  (tasks # <<>> /\ Workers # {}) =>
    \/ \E w \in Workers : worker_pc[w] \in {"lock", "check", "run"}
    \/ \E s \in Submitters : submit_pc[s] = "notify"

\* No worker sleeps through the destructor: once notify_all has been called
\* no worker is in the wait set or can join it, so the joins return.
NoSleeperAfterStop == owner_pc \in {"join", "destroyed"} => Waiting = {}

\* The destructor drains the queue: when it returns, every task enqueue has
\* accepted has run to its end (each future is ready, none is broken).
DrainedOnDestruction ==
  (owner_pc = "destroyed" /\ Workers # {}) => created \subseteq finished \cup rejected

\* What the pool promises its callers: FIFO start, each task once, nothing
\* accepted once stop is set, every accepted task finished before the end.
Executor ==
  INSTANCE TaskExecutor WITH queue <- tasks, running <- Running,
    closed <- stop, released <- (owner_pc = "destroyed")

ImplementsExecutor == Executor!FairSpec

\* ~ThreadPool returns: the workers drain the queue, see stop and exit.
DestructorReturns == (owner_pc = "lock") ~> (owner_pc = "destroyed")

=============================================================================
