------------------------------ MODULE MCQueue ------------------------------
(* Instances of Queue for TLC.                                             *)
EXTENDS Queue, TLC

\* A pending job with a time of finishing of its own, and a job that is said to
\* have ended.
MCPosts ==
  {[status |-> "signaled", started |-> Never, finished |-> 0],
   [status |-> "success", started |-> 2, finished |-> 1]}

\* Jobs and requests of users are interchangeable.
QueueSymmetry == Permutations(Jobs) \cup Permutations(Users)

=============================================================================
