------------------------------ MODULE Conveyor ------------------------------
(***************************************************************************)
(* What the pipeline of lib/treap/scheduler.hpp promises the rest of the   *)
(* scheduler, with the token counters abstracted away: tasks 1..NumTasks   *)
(* travel in order from the master (station 0) through the pipes (stations *)
(* 1..NumPipes) to the boarder, and no station works on a task the station *)
(* before it has not handed over.                                          *)
(*                                                                         *)
(* Pipeline.tla is the token protocol of the code and is proved to         *)
(* implement this module; Scheduler.tla conjoins these actions with the    *)
(* tree work each station does.                                            *)
(***************************************************************************)
EXTENDS Integers

CONSTANTS NumTasks,  \* num_tasks_: the number of updates and queries
          NumPipes   \* num_pipes_: the number of pipe threads

VARIABLES passed,        \* passed[i]: tasks station i has handed over
          num_submitted  \* num_submitted_: tasks the boarder has published

conveyorVars == <<passed, num_submitted>>

Stations == 0..NumPipes

Init ==
  /\ passed = [i \in Stations |-> 0]
  /\ num_submitted = 0

(* The master pushes its next task into the pipeline. *)
Push ==
  /\ passed[0] < NumTasks
  /\ passed' = [passed EXCEPT ![0] = @ + 1]
  /\ UNCHANGED num_submitted

(* Pipe i takes its next task, works on it and hands it over. *)
Pass(i) ==
  /\ passed[i] < passed[i-1]
  /\ passed' = [passed EXCEPT ![i] = @ + 1]
  /\ UNCHANGED num_submitted

(* The boarder publishes tasks that have left the last pipe. *)
Board ==
  /\ \E n \in 1..NumTasks :
        /\ num_submitted < n
        /\ n <= passed[NumPipes]
        /\ num_submitted' = n
  /\ UNCHANGED passed

Next == Push \/ (\E i \in 1..NumPipes : Pass(i)) \/ Board

Spec == Init /\ [][Next]_conveyorVars
=============================================================================
