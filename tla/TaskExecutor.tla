---------------------------- MODULE TaskExecutor ----------------------------
(***************************************************************************)
(* What ThreadPool promises to the code that calls enqueue, with no        *)
(* threads, mutex or condition variable: tasks are started in the order    *)
(* in which they were accepted, each one at most once; once the executor   *)
(* is closed nothing more is accepted; and it is released only when every  *)
(* task it accepted has run to its end.                                    *)
(***************************************************************************)
EXTENDS Naturals, Sequences

CONSTANT Tasks

VARIABLES
  queue,      \* accepted tasks that have not started, oldest first
  running,    \* tasks that have started and not finished
  finished,   \* tasks that have run to their end
  closed,     \* nothing is accepted any more
  released    \* the executor no longer exists

vars == <<queue, running, finished, closed, released>>

Queued == {queue[i] : i \in 1 .. Len(queue)}

Init ==
  /\ queue = <<>>
  /\ running = {}
  /\ finished = {}
  /\ closed = FALSE
  /\ released = FALSE

Accept(t) ==
  /\ ~closed
  /\ t \notin Queued \cup running \cup finished
  /\ queue' = Append(queue, t)
  /\ UNCHANGED <<running, finished, closed, released>>

Start ==
  /\ queue # <<>>
  /\ ~released
  /\ queue' = Tail(queue)
  /\ running' = running \cup {Head(queue)}
  /\ UNCHANGED <<finished, closed, released>>

Finish(t) ==
  /\ t \in running
  /\ running' = running \ {t}
  /\ finished' = finished \cup {t}
  /\ UNCHANGED <<queue, closed, released>>

Close ==
  /\ ~closed
  /\ closed' = TRUE
  /\ UNCHANGED <<queue, running, finished, released>>

Release ==
  /\ closed
  /\ queue = <<>>
  /\ running = {}
  /\ released' = TRUE
  /\ UNCHANGED <<queue, running, finished, closed>>

Next ==
  \/ \E t \in Tasks : Accept(t) \/ Finish(t)
  \/ Start
  \/ Close
  \/ Release

Spec == Init /\ [][Next]_vars

\* An accepted task is started, and a started task ends.
Fairness ==
  /\ WF_vars(Start)
  /\ \A t \in Tasks : WF_vars(Finish(t))

FairSpec == Spec /\ Fairness

=============================================================================
