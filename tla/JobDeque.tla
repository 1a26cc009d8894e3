------------------------------ MODULE JobDeque ------------------------------
(***************************************************************************)
(* What lib/parlay/internal/work_stealing_deque.h promises the fork-join   *)
(* scheduler: a double-ended queue of jobs. The owner pushes and pops at   *)
(* the bottom, thieves pop at the top, and each operation takes effect at  *)
(* one instant. A thief may come back with nothing at any time.            *)
(*                                                                         *)
(* WorkStealingDeque.tla implements this module; ForkJoin.tla runs the     *)
(* scheduler on top of it.                                                 *)
(***************************************************************************)
EXTENDS Naturals, Sequences

CONSTANT Jobs      \* the jobs the owner may push

VARIABLES jobs,    \* the jobs in the deque, top first
          obtained \* obtained[j]: how often pop_top or pop_bottom returned j

jobDequeVars == <<jobs, obtained>>

Init == jobs = <<>> /\ obtained = [j \in Jobs |-> 0]

PushBottom(j) == jobs' = Append(jobs, j) /\ UNCHANGED obtained

PopBottom ==
  /\ jobs # <<>>
  /\ jobs' = SubSeq(jobs, 1, Len(jobs) - 1)
  /\ obtained' = [obtained EXCEPT ![jobs[Len(jobs)]] = @ + 1]

PopTop ==
  /\ jobs # <<>>
  /\ jobs' = Tail(jobs)
  /\ obtained' = [obtained EXCEPT ![Head(jobs)] = @ + 1]

Next == (\E j \in Jobs : PushBottom(j)) \/ PopBottom \/ PopTop

Spec == Init /\ [][Next]_jobDequeVars
=============================================================================
