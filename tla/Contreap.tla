------------------------------ MODULE Contreap ------------------------------
(***************************************************************************)
(* The contreap backend (db/contreap.hpp): the scheduler and the query     *)
(* processor side by side.  The modifier thread issues every transaction   *)
(* to the scheduler, queries as tasks that change nothing, and pushes a    *)
(* query with the version it was given; the clients, which are those of    *)
(* QueryProcessor, wait in get_snapshot for a worker to publish the block  *)
(* of that version.  Close waits for the scheduler first and stops the     *)
(* clients afterwards.                                                     *)
(*                                                                         *)
(* Of the scheduler this module keeps what the backend can observe: which  *)
(* worker was given which task, whether it is done, and the blocks         *)
(* published.  How a task is done is module Scheduler.                     *)
(***************************************************************************)
EXTENDS QueryProcessor

CONSTANTS NumWorkers, \* num_workers_
          NumTasks,   \* num_tasks_, the transactions of the workload
          BlockSize   \* block_size_

BackendAssumption ==
  NumWorkers \in Nat \ {0} /\ NumTasks \in Nat /\ BlockSize \in Nat \ {0}

Workers == 1 .. NumWorkers

VARIABLES num_issued,    \* num_issued_
          versions,      \* the versions the queries were pushed with
          num_fetched,   \* num_fetched_
          worker,        \* worker[w]: [pc, task, count], count the blocks published
          num_estimated, \* num_estimated_
          done,          \* the tasks that are done
          crashed        \* a null pointer was dereferenced

schedulerVars == <<num_fetched, worker, num_estimated, done>>
backendVars == <<num_issued, versions, schedulerVars, crashed>>
allVars == <<vars, backendVars>>

BackendInit ==
  /\ Init
  /\ num_issued = 0 /\ versions = <<>> /\ num_fetched = 0
  /\ worker = [w \in Workers |-> [pc |-> "fetch", task |-> 0, count |-> 0]]
  /\ num_estimated = [w \in Workers |-> 0]
  /\ done = {} /\ crashed = FALSE

(* Init starts the clients last, Insert and Delete issue a task, Query      *)
(* issues one and pushes its version. *)
InitCall == Start /\ UNCHANGED backendVars
Update ==
  /\ main = "push" /\ num_issued < NumTasks
  /\ num_issued' = num_issued + 1
  /\ UNCHANGED <<vars, versions, schedulerVars, crashed>>
Query ==
  /\ main = "push" /\ num_issued < NumTasks /\ Push
  /\ num_issued' = num_issued + 1 /\ versions' = Append(versions, num_issued')
  /\ UNCHANGED <<schedulerVars, crashed>>

(* Close: process() joins the scheduler's threads, Stop the clients. *)
Processed == num_issued = NumTasks /\ \A w \in Workers : worker[w].pc = "stop"
Close == Processed /\ Stop /\ UNCHANGED backendVars
CloseReturn == Join /\ UNCHANGED backendVars

(* worker_thread_: a task number, the task, and the block it has reached. *)
block_end(w) ==
  LET e == (w - 1 + worker[w].count * NumWorkers) * BlockSize + BlockSize
  IN  IF e < NumTasks THEN e ELSE NumTasks
Publish(w, t) ==
  LET reached == t >= block_end(w)
  IN  /\ worker' = [worker EXCEPT ![w] = [pc |-> IF t <= NumTasks THEN "fetch" ELSE "stop", task |-> t,
                                          count |-> IF reached THEN @.count + 1 ELSE @.count]]
      /\ num_estimated' = IF reached THEN [num_estimated EXCEPT ![w] = worker[w].count + 1] ELSE num_estimated
Fetch(w) ==
  /\ worker[w].pc = "fetch"
  /\ num_fetched' = num_fetched + 1
  /\ IF num_fetched' <= NumTasks
     THEN worker' = [worker EXCEPT ![w].pc = "run", ![w].task = num_fetched'] /\ UNCHANGED num_estimated
     ELSE Publish(w, num_fetched')
  /\ UNCHANGED <<vars, num_issued, versions, done, crashed>>
(* A worker whose task is not issued yet waits for it. *)
Run(w) ==
  /\ worker[w].pc = "run" /\ worker[w].task <= num_issued
  /\ done' = done \cup {worker[w].task}
  /\ Publish(w, worker[w].task)
  /\ UNCHANGED <<vars, num_issued, versions, num_fetched, crashed>>

(* get_snapshot looks at the worker's count of blocks. *)
SnapshotReady(ver) ==
  LET block_id == ver \div BlockSize
  IN  num_estimated[1 + (block_id % NumWorkers)] > block_id \div NumWorkers
(* do_process_ takes the snapshot and answers from it. A point query for a  *)
(* key that the snapshot does not have dereferences the null pointer that   *)
(* find returns, and ends the program. *)
Answer(c) ==
  /\ client[c] = "process" /\ SnapshotReady(versions[q[c]])
  /\ \/ Process(c) /\ UNCHANGED crashed
     \/ crashed' = TRUE /\ UNCHANGED vars
  /\ UNCHANGED <<num_issued, versions, schedulerVars>>
ClientStep(c) == (Loop(c) /\ UNCHANGED backendVars) \/ Answer(c)

Modifier == InitCall \/ Update \/ Query \/ Close \/ CloseReturn
BackendStopped == (main = "stopped" \/ crashed) /\ UNCHANGED allVars
BackendNext ==
  \/ /\ ~crashed
     /\ \/ Modifier
        \/ \E w \in Workers : Fetch(w) \/ Run(w)
        \/ \E c \in Clients : ClientStep(c)
  \/ BackendStopped
(* Every thread runs, and the workload is issued to its end. *)
BackendSpec ==
  /\ BackendInit /\ [][BackendNext]_allVars
  /\ WF_allVars(~crashed /\ Modifier)
  /\ \A w \in Workers : WF_allVars(~crashed /\ (Fetch(w) \/ Run(w)))
  /\ \A c \in Clients : WF_allVars(~crashed /\ ClientStep(c))
-----------------------------------------------------------------------------
(* A query is answered only from a version all of whose tasks are done,     *)
(* although it was pushed when they were only issued. *)
AnsweredWhenDone ==
  \A c \in Clients : \A i \in DOMAIN results[c] : 1 .. versions[results[c][i]] \subseteq done

(* Close returns unless a client ends the program: the clients that wait    *)
(* for a snapshot get it from threads that Close has already joined, and    *)
(* the rest see the end. *)
CloseReturns == <>(main = "stopped" \/ crashed)
=============================================================================
