---------------------------- MODULE MCThreadPool ----------------------------
(***************************************************************************)
(* The small instance of ThreadPool that TLC checks (ThreadPool.cfg): two  *)
(* workers, so that notify_one has a choice and notify_all matters, two    *)
(* concurrent callers of enqueue and three tasks, so that a queue can hold *)
(* more tasks than there are workers.  There is no symmetry set: the run   *)
(* checks liveness, for which TLC's reduction is not sound.                *)
(***************************************************************************)
EXTENDS ThreadPool

=============================================================================
