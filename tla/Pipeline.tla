------------------------------ MODULE Pipeline ------------------------------
(***************************************************************************)
(* The token protocol between the master, the pipe threads and the boarder *)
(* (lib/treap/scheduler.hpp).  tokens_[i] counts the tasks station i has   *)
(* handed to station i+1.  It is an unsigned counter: a pipe that takes    *)
(* from an empty counter drives it to ~0 and blocks in std::atomic_wait    *)
(* until the producer's increment brings it back to 0, and exactly that    *)
(* increment calls notify_one.  The tree work of a station is Scheduler's. *)
(***************************************************************************)
EXTENDS Integers, TLAPS

CONSTANTS NumTasks,  \* num_tasks_
          NumPipes,  \* num_pipes_
          TokenMax   \* ~size_t{0}, the largest value of a token counter

ASSUME NumTasksAssumption == NumTasks \in Nat
ASSUME NumPipesAssumption == NumPipes \in Nat
\* A 64-bit counter never runs full: fewer tasks than counter values.
ASSUME TokenMaxAssumption == TokenMax \in Nat /\ NumTasks < TokenMax

VARIABLES tokens,          \* tokens_[i].data
          num_issued,      \* num_issued_: tasks the master has pushed
          master,          \* where the master is: "issue" or "notify"
          pos,             \* pos[i]: the task pipe i is at
          pipe,            \* where pipe thread i is
          local_submitted, \* the boarder's running total
          num_submitted    \* num_submitted_

masterVars  == <<num_issued, master>>
pipeVars    == <<pos, pipe>>
boarderVars == <<local_submitted, num_submitted>>
vars == <<tokens, masterVars, pipeVars, boarderVars>>

Stations == 0..NumPipes
Pipes == 1..NumPipes

\* Unsigned arithmetic on a token counter.
Inc(c) == IF c = TokenMax THEN 0 ELSE c + 1
DecSigned(c) == c - 1  \* mutant: a counter that does not wrap
Dec(c) == IF c = 0 THEN TokenMax ELSE c - 1

Init ==
  /\ tokens = [i \in Stations |-> 0]
  /\ num_issued = 0
  /\ master = "issue"
  /\ pos = [i \in Pipes |-> 1]
  /\ pipe = [i \in Pipes |-> "take"]
  /\ local_submitted = 0
  /\ num_submitted = 0
-----------------------------------------------------------------------------
\* Mutant: notify when the counter reaches 1, as for an ordinary semaphore.
MustNotifyOnOne(i) == Inc(tokens[i]) = 1

\* next_token == 0 after this increment of tokens_[i]: a pipe is waiting.
MustNotify(i) == Inc(tokens[i]) = 0

\* notify_one on tokens_[i]: wakes the consumer if it sleeps there.  A woken
\* atomic_wait compares again, so the pipe goes back to "wait".
Wake(i) == [j \in Pipes |-> IF j = i + 1 /\ pipe[j] = "asleep" THEN "wait" ELSE pipe[j]]

(* init_context_: the master pushes its next task into the pipeline. *)
MasterPush ==
  /\ master = "issue"
  /\ num_issued < NumTasks
  /\ num_issued' = num_issued + 1
  /\ tokens' = [tokens EXCEPT ![0] = Inc(@)]
  /\ master' = IF MustNotify(0) THEN "notify" ELSE "issue"
  /\ UNCHANGED <<pipeVars, boarderVars>>

MasterNotify ==
  /\ master = "notify"
  /\ master' = "issue"
  /\ pipe' = Wake(0)
  /\ UNCHANGED <<tokens, num_issued, pos, boarderVars>>

\* Mutant: fetch_sub's result is ignored and nobody waits.
PipeTakeNoWait(i) ==
  /\ pipe[i] = "take"
  /\ pos[i] <= NumTasks
  /\ tokens' = [tokens EXCEPT ![i-1] = Dec(@)]
  /\ pipe' = [pipe EXCEPT ![i] = "work"]
  /\ UNCHANGED <<masterVars, pos, boarderVars>>

(* fetch_sub on the counter of the station before: a pipe that found it 0 *)
(* has to wait.                                                           *)
PipeTake(i) ==
  /\ pipe[i] = "take"
  /\ pos[i] <= NumTasks
  /\ tokens' = [tokens EXCEPT ![i-1] = Dec(@)]
  /\ pipe' = [pipe EXCEPT ![i] = IF tokens[i-1] = 0 THEN "wait" ELSE "work"]
  /\ UNCHANGED <<masterVars, pos, boarderVars>>

\* Mutant: a wait for the counter to leave 0 instead of ~0.
PipeWaitZero(i) ==
  /\ pipe[i] = "wait"
  /\ pipe' = [pipe EXCEPT ![i] = IF tokens[i-1] = 0 THEN "asleep" ELSE "work"]
  /\ UNCHANGED <<tokens, masterVars, pos, boarderVars>>

(* std::atomic_wait(&tokens_[i-1].data, ~0): compare and sleep in one step. *)
PipeWait(i) ==
  /\ pipe[i] = "wait"
  /\ pipe' = [pipe EXCEPT ![i] = IF tokens[i-1] = TokenMax THEN "asleep" ELSE "work"]
  /\ UNCHANGED <<tokens, masterVars, pos, boarderVars>>

(* The pipe has worked on task pos[i] and hands it over. *)
PipePass(i) ==
  /\ pipe[i] = "work"
  /\ tokens' = [tokens EXCEPT ![i] = Inc(@)]
  /\ pos' = [pos EXCEPT ![i] = @ + 1]
  /\ pipe' = [pipe EXCEPT ![i] = IF MustNotify(i) THEN "notify" ELSE "take"]
  /\ UNCHANGED <<masterVars, boarderVars>>

PipeNotify(i) ==
  /\ pipe[i] = "notify"
  /\ pipe' = [Wake(i) EXCEPT ![i] = "take"]
  /\ UNCHANGED <<tokens, masterVars, pos, boarderVars>>

\* Mutant: the counter is read but not emptied.
BoarderTakeLoad ==
  /\ local_submitted < NumTasks
  /\ local_submitted = num_submitted
  /\ tokens[NumPipes] > 0
  /\ local_submitted' = local_submitted + tokens[NumPipes]
  /\ UNCHANGED <<tokens, masterVars, pipeVars, num_submitted>>

(* boarder_thread_: exchange(0) empties the last counter ... *)
BoarderTake ==
  /\ local_submitted < NumTasks
  /\ local_submitted = num_submitted
  /\ tokens[NumPipes] > 0
  /\ local_submitted' = local_submitted + tokens[NumPipes]
  /\ tokens' = [tokens EXCEPT ![NumPipes] = 0]
  /\ UNCHANGED <<masterVars, pipeVars, num_submitted>>

\* Mutants: the total is never published; the size of a batch is published.
BoarderStoreNever == num_submitted < local_submitted /\ UNCHANGED vars
BoarderStoreBatch ==
  /\ num_submitted < local_submitted
  /\ num_submitted' = local_submitted - num_submitted
  /\ UNCHANGED <<tokens, masterVars, pipeVars, local_submitted>>

(* ... and the new total is published to the workers. *)
BoarderStore ==
  /\ num_submitted < local_submitted
  /\ num_submitted' = local_submitted
  /\ UNCHANGED <<tokens, masterVars, pipeVars, local_submitted>>

Master == MasterPush \/ MasterNotify
Pipe(i) == PipeTake(i) \/ PipeWait(i) \/ PipePass(i) \/ PipeNotify(i)
Boarder == BoarderTake \/ BoarderStore

(* Every task has been published and every thread has left its loop. *)
Finished ==
  /\ num_submitted = NumTasks
  /\ master = "issue"
  /\ \A i \in Pipes : pipe[i] = "take" /\ pos[i] > NumTasks
Stopped == Finished /\ UNCHANGED vars

Next == Master \/ (\E i \in Pipes : Pipe(i)) \/ Boarder \/ Stopped

Spec == Init /\ [][Next]_vars

(* The operating system keeps running every thread.  The master is main's *)
(* loop over the workload, which never stops before its last transaction. *)
FairSpec ==
  /\ Spec
  /\ WF_vars(Master)
  /\ \A i \in Pipes : WF_vars(Pipe(i))
  /\ WF_vars(Boarder)
-----------------------------------------------------------------------------
PipeStates == {"take", "wait", "asleep", "work", "notify"}

TypeOK ==
  /\ tokens \in [Stations -> 0..TokenMax]
  /\ num_issued \in 0..NumTasks
  /\ master \in {"issue", "notify"}
  /\ pos \in [Pipes -> 1..NumTasks+1]
  /\ pipe \in [Pipes -> PipeStates]
  /\ local_submitted \in 0..NumTasks
  /\ num_submitted \in 0..NumTasks

\* How many tasks station i has handed over.
Handed(i) == IF i = 0 THEN num_issued ELSE pos[i] - 1

\* How many tasks pipe i has taken from the counter of the station before.
Taken(i) == IF pipe[i] \in {"wait", "asleep", "work"} THEN pos[i] ELSE pos[i] - 1

Accounted(i) ==
  /\ Taken(i) <= NumTasks
  /\ IF Taken(i) <= Handed(i-1)
     THEN tokens[i-1] = Handed(i-1) - Taken(i)
     ELSE /\ Taken(i) = Handed(i-1) + 1
          /\ tokens[i-1] = TokenMax
          /\ pipe[i] \in {"wait", "asleep"}

(* The unsigned counter tells the truth: it holds the tasks handed over    *)
(* and not yet taken, and it stands at ~0 exactly while the pipe has taken *)
(* one task too many and waits for it.  A pipe never takes more tasks than *)
(* there are.                                                              *)
TokenAccounting == \A i \in Pipes : Accounted(i)

(* A pipe only works on a task the station before it has finished with, so *)
(* the step of task t at depth i sees every earlier task's step at depth i *)
(* (pipe_thread_ runs execute_one_step_ on ctxs_[pos] without any other    *)
(* check).                                                                 *)
OrderedHandoff ==
  \A i \in Pipes : pipe[i] = "work" => pos[i] <= Handed(i-1)

(* No lost wake-up: a pipe asleep in atomic_wait although its counter has  *)
(* left ~0 is about to be notified by the producer that incremented it.    *)
NoLostWakeup ==
  \A i \in Pipes :
     pipe[i] = "asleep" /\ tokens[i-1] # TokenMax =>
        IF i = 1 THEN master = "notify" ELSE pipe[i-1] = "notify"

(* The boarder counts each task that left the last pipe exactly once,      *)
(* although it empties the counter in batches while the pipe refills it.   *)
SubmittedExact ==
  /\ local_submitted + tokens[NumPipes] = Handed(NumPipes)
  /\ num_submitted <= local_submitted

(* Every task reaches the workers and every pipe leaves its loop, so the   *)
(* joins of process() on pipes_ and boarder_ return.                       *)
AllBoarded == <>[]Finished

\* The promise: the counters implement the ordered conveyor.
C == INSTANCE Conveyor WITH passed <- [i \in Stations |-> Handed(i)]

(* The token protocol implements the ordered conveyor that Scheduler uses. *)
ImplementsConveyor == C!Spec
-----------------------------------------------------------------------------
(* The token protocol is correct for every number of tasks and pipes.      *)
(*                                                                         *)
(* The inductive invariant is the token accounting together with the       *)
(* boarder's count and the absence of lost wake-ups.  Accounting shows     *)
(* that a pipe that leaves atomic_wait has a task to work on; that in turn *)
(* keeps every counter below ~0 when it is incremented, which the          *)
(* accounting needs.                                                       *)

IInv == TypeOK /\ TokenAccounting /\ SubmittedExact /\ NoLostWakeup

\* A station hands over at most all of the tasks.
LEMMA HandedType ==
  ASSUME TypeOK, NEW i \in Stations
  PROVE  Handed(i) \in 0..NumTasks
BY NumTasksAssumption, NumPipesAssumption DEF TypeOK, Handed, Stations, Pipes

\* The constructor establishes the inductive invariant.
LEMMA InitIInv == Init => IInv
BY NumTasksAssumption, NumPipesAssumption, TokenMaxAssumption
DEF Init, IInv, TypeOK, TokenAccounting, Accounted, SubmittedExact, NoLostWakeup,
    Stations, Pipes, PipeStates, Handed, Taken

\* Unsigned increment and decrement stay in range.
LEMMA CounterType ==
  ASSUME NEW c \in 0..TokenMax
  PROVE  Inc(c) \in 0..TokenMax /\ Dec(c) \in 0..TokenMax
BY TokenMaxAssumption DEF Inc, Dec

\* init_context_ keeps the invariant: pushing a task and waking the first pipe.
LEMMA MasterPushStep == IInv /\ MasterPush => IInv'
<1> SUFFICES ASSUME IInv, MasterPush PROVE IInv'
  OBVIOUS
<1> USE NumTasksAssumption, NumPipesAssumption, TokenMaxAssumption DEF Stations, Pipes
<1>a. tokens[0] \in 0..TokenMax /\ Inc(tokens[0]) \in 0..TokenMax
  BY CounterType DEF IInv, TypeOK
<1>b. /\ tokens' = [tokens EXCEPT ![0] = Inc(tokens[0])]
      /\ pos' = pos /\ pipe' = pipe /\ num_issued' = num_issued + 1
      /\ local_submitted' = local_submitted /\ num_submitted' = num_submitted
  BY DEF MasterPush, pipeVars, boarderVars
<1>1. TypeOK'
  <2>1. tokens' \in [Stations -> 0..TokenMax]
    BY <1>a, <1>b DEF IInv, TypeOK
  <2> QED BY <2>1, <1>b DEF IInv, TypeOK, MasterPush
<1>2. TokenAccounting'
  <2> SUFFICES ASSUME NEW j \in Pipes PROVE Accounted(j)'
    BY DEF TokenAccounting
  <2>1. Accounted(j)
    BY DEF IInv, TokenAccounting
  <2>2. CASE j = 1
    BY <1>a, <1>b, <2>1, <2>2 DEF IInv, TypeOK, MasterPush, Accounted, Taken, Handed, Inc
  <2>3. CASE j # 1
    BY <1>b, <2>1, <2>3 DEF IInv, TypeOK, Accounted, Taken, Handed
  <2> QED BY <2>2, <2>3
<1>3. SubmittedExact'
  BY <1>a, <1>b DEF IInv, TypeOK, MasterPush, SubmittedExact, Handed, Inc
<1>4. NoLostWakeup'
  BY <1>a, <1>b DEF IInv, TypeOK, MasterPush, NoLostWakeup, MustNotify, Inc
<1> QED BY <1>1, <1>2, <1>3, <1>4 DEF IInv

\* The master's notify_one keeps the invariant.
LEMMA MasterNotifyStep == IInv /\ MasterNotify => IInv'
<1> SUFFICES ASSUME IInv, MasterNotify PROVE IInv'
  OBVIOUS
<1> USE NumTasksAssumption, NumPipesAssumption, TokenMaxAssumption DEF Stations, Pipes
<1>1. TypeOK'
  BY DEF IInv, TypeOK, MasterNotify, Wake, boarderVars, PipeStates
<1>2. TokenAccounting'
  BY DEF IInv, TypeOK, MasterNotify, Wake, boarderVars, TokenAccounting, Accounted, Taken, Handed
<1>3. SubmittedExact'
  BY DEF IInv, TypeOK, MasterNotify, boarderVars, SubmittedExact, Handed
<1>4. NoLostWakeup'
  BY DEF IInv, TypeOK, MasterNotify, Wake, boarderVars, NoLostWakeup
<1> QED BY <1>1, <1>2, <1>3, <1>4 DEF IInv

\* fetch_sub keeps the invariant, also when it takes the counter below 0.
LEMMA PipeTakeStep ==
  ASSUME NEW i \in Pipes PROVE IInv /\ PipeTake(i) => IInv'
<1> SUFFICES ASSUME IInv, PipeTake(i) PROVE IInv'
  OBVIOUS
<1> USE NumTasksAssumption, NumPipesAssumption, TokenMaxAssumption DEF Stations, Pipes
<1>a. i-1 \in Stations /\ tokens[i-1] \in 0..TokenMax /\ Dec(tokens[i-1]) \in 0..TokenMax
  <2>1. i-1 \in Stations
    OBVIOUS
  <2>2. tokens[i-1] \in 0..TokenMax
    BY <2>1 DEF IInv, TypeOK
  <2> QED BY <2>1, <2>2, CounterType
<1>b. /\ tokens' = [tokens EXCEPT ![i-1] = Dec(tokens[i-1])]
      /\ pipe' = [pipe EXCEPT ![i] = IF tokens[i-1] = 0 THEN "wait" ELSE "work"]
      /\ pos' = pos /\ num_issued' = num_issued /\ master' = master
      /\ local_submitted' = local_submitted /\ num_submitted' = num_submitted
  BY DEF PipeTake, masterVars, boarderVars
<1>1. TypeOK'
  <2>1. tokens' \in [Stations -> 0..TokenMax]
    BY <1>a, <1>b DEF IInv, TypeOK
  <2>2. pipe' \in [Pipes -> PipeStates]
    BY <1>b DEF IInv, TypeOK, PipeStates
  <2> QED BY <2>1, <2>2, <1>b DEF IInv, TypeOK
<1>2. TokenAccounting'
  <2> SUFFICES ASSUME NEW j \in Pipes PROVE Accounted(j)'
    BY DEF TokenAccounting
  <2>1. Accounted(j)
    BY DEF IInv, TokenAccounting
  <2>2. CASE j = i
    <3>1. /\ tokens'[j-1] = Dec(tokens[i-1]) /\ Handed(j-1)' = Handed(j-1)
          /\ pipe'[j] = IF tokens[i-1] = 0 THEN "wait" ELSE "work"
      BY <1>a, <1>b, <2>2 DEF IInv, TypeOK, Handed
    <3>2. Taken(j) = pos[i] - 1 /\ Taken(j)' = pos[i] /\ pos[i] \in 1..NumTasks
      BY <1>b, <2>2, <3>1 DEF IInv, TypeOK, PipeTake, Taken
    <3>3. Handed(j-1) \in 0..NumTasks
      BY <1>a, <2>2, HandedType DEF IInv
    <3>4. pos[i] - 1 <= Handed(j-1) /\ tokens[i-1] = Handed(j-1) - (pos[i] - 1)
      BY <1>a, <2>1, <2>2, <3>2, <3>3 DEF Accounted, PipeTake
    <3> QED BY <3>1, <3>2, <3>3, <3>4 DEF Accounted, Dec
  <2>3. CASE j # i
    BY <1>b, <2>1, <2>3 DEF IInv, TypeOK, Accounted, Taken, Handed
  <2> QED BY <2>2, <2>3
<1>3. SubmittedExact'
  BY <1>b DEF IInv, TypeOK, SubmittedExact, Handed
<1>4. NoLostWakeup'
  <2> SUFFICES ASSUME NEW j \in Pipes, pipe'[j] = "asleep", tokens'[j-1] # TokenMax
               PROVE  IF j = 1 THEN master' = "notify" ELSE pipe'[j-1] = "notify"
    BY DEF NoLostWakeup
  <2>1. j # i /\ pipe[j] = "asleep"
    BY <1>b DEF IInv, TypeOK
  <2>2. tokens[j-1] # TokenMax
    BY <1>a, <1>b, <2>1 DEF IInv, TypeOK
  <2>3. IF j = 1 THEN master = "notify" ELSE pipe[j-1] = "notify"
    BY <2>1, <2>2 DEF IInv, NoLostWakeup
  <2>4. CASE j = 1
    BY <1>b, <2>3, <2>4
  <2>5. CASE j # 1
    <3>1. j-1 \in Pipes /\ j-1 # i
      BY <2>3, <2>5 DEF PipeTake
    <3> QED BY <1>b, <2>3, <2>5, <3>1 DEF IInv, TypeOK
  <2> QED BY <2>4, <2>5
<1> QED BY <1>1, <1>2, <1>3, <1>4 DEF IInv

\* atomic_wait keeps the invariant: a pipe that does not sleep has its task.
LEMMA PipeWaitStep ==
  ASSUME NEW i \in Pipes PROVE IInv /\ PipeWait(i) => IInv'
<1> SUFFICES ASSUME IInv, PipeWait(i) PROVE IInv'
  OBVIOUS
<1> USE NumTasksAssumption, NumPipesAssumption, TokenMaxAssumption DEF Stations, Pipes
<1>b. /\ pipe' = [pipe EXCEPT ![i] = IF tokens[i-1] = TokenMax THEN "asleep" ELSE "work"]
      /\ tokens' = tokens /\ pos' = pos /\ num_issued' = num_issued /\ master' = master
      /\ local_submitted' = local_submitted /\ num_submitted' = num_submitted
  BY DEF PipeWait, masterVars, boarderVars
<1>1. TypeOK'
  BY <1>b DEF IInv, TypeOK, PipeStates
<1>2. TokenAccounting'
  <2> SUFFICES ASSUME NEW j \in Pipes PROVE Accounted(j)'
    BY DEF TokenAccounting
  <2>1. Accounted(j)
    BY DEF IInv, TokenAccounting
  <2>2. CASE j = i
    BY <1>b, <2>1, <2>2 DEF IInv, TypeOK, PipeWait, Accounted, Taken, Handed
  <2>3. CASE j # i
    BY <1>b, <2>1, <2>3 DEF IInv, TypeOK, Accounted, Taken, Handed
  <2> QED BY <2>2, <2>3
<1>3. SubmittedExact'
  BY <1>b DEF IInv, TypeOK, SubmittedExact, Handed
<1>4. NoLostWakeup'
  <2> SUFFICES ASSUME NEW j \in Pipes, pipe'[j] = "asleep", tokens'[j-1] # TokenMax
               PROVE  IF j = 1 THEN master' = "notify" ELSE pipe'[j-1] = "notify"
    BY DEF NoLostWakeup
  <2>1. j # i /\ pipe[j] = "asleep"
    BY <1>b DEF IInv, TypeOK
  <2>2. IF j = 1 THEN master = "notify" ELSE pipe[j-1] = "notify"
    BY <1>b, <2>1 DEF IInv, NoLostWakeup
  <2>3. CASE j = 1
    BY <1>b, <2>2, <2>3
  <2>4. CASE j # 1
    <3>1. j-1 \in Pipes /\ j-1 # i
      BY <2>2, <2>4 DEF PipeWait
    <3> QED BY <1>b, <2>2, <2>4, <3>1 DEF IInv, TypeOK
  <2> QED BY <2>3, <2>4
<1> QED BY <1>1, <1>2, <1>3, <1>4 DEF IInv

\* fetch_add keeps the invariant for the pipe and for the one it feeds.
LEMMA PipePassStep ==
  ASSUME NEW i \in Pipes PROVE IInv /\ PipePass(i) => IInv'
<1> SUFFICES ASSUME IInv, PipePass(i) PROVE IInv'
  OBVIOUS
<1> USE NumTasksAssumption, NumPipesAssumption, TokenMaxAssumption DEF Stations, Pipes
<1>a. i \in Stations /\ tokens[i] \in 0..TokenMax /\ Inc(tokens[i]) \in 0..TokenMax
  BY CounterType DEF IInv, TypeOK
<1>b. /\ tokens' = [tokens EXCEPT ![i] = Inc(tokens[i])]
      /\ pos' = [pos EXCEPT ![i] = pos[i] + 1]
      /\ pipe' = [pipe EXCEPT ![i] = IF Inc(tokens[i]) = 0 THEN "notify" ELSE "take"]
      /\ pipe[i] = "work"
      /\ num_issued' = num_issued /\ master' = master
      /\ local_submitted' = local_submitted /\ num_submitted' = num_submitted
  BY DEF PipePass, MustNotify, masterVars, boarderVars
<1>c. pos[i] \in 1..NumTasks
  BY <1>b DEF IInv, TypeOK, TokenAccounting, Accounted, Taken
<1>1. TypeOK'
  <2>1. tokens' \in [Stations -> 0..TokenMax]
    BY <1>a, <1>b DEF IInv, TypeOK
  <2>2. pipe' \in [Pipes -> PipeStates]
    BY <1>b DEF IInv, TypeOK, PipeStates
  <2>3. pos' \in [Pipes -> 1..NumTasks+1]
    BY <1>b, <1>c DEF IInv, TypeOK
  <2> QED BY <2>1, <2>2, <2>3, <1>b DEF IInv, TypeOK
<1>2. TokenAccounting'
  <2> SUFFICES ASSUME NEW j \in Pipes PROVE Accounted(j)'
    BY DEF TokenAccounting
  <2>1. Accounted(j)
    BY DEF IInv, TokenAccounting
  <2>2. CASE j = i
    <3>1. Handed(j-1)' = Handed(j-1) /\ tokens'[j-1] = tokens[j-1]
      BY <1>b, <2>2 DEF IInv, TypeOK, Handed
    <3>2. Taken(j) = pos[i] /\ Taken(j)' = pos[i]
      BY <1>b, <1>c, <2>2 DEF IInv, TypeOK, Taken
    <3> QED BY <1>b, <1>c, <2>1, <2>2, <3>1, <3>2 DEF Accounted
  <2>3. CASE j = i + 1
    <3>1. j - 1 = i /\ i # 0
      BY <2>3
    <3>2. /\ tokens'[j-1] = Inc(tokens[i]) /\ tokens[j-1] = tokens[i]
          /\ Handed(j-1) = pos[i] - 1 /\ Handed(j-1)' = pos[i]
      BY <1>a, <1>b, <1>c, <3>1 DEF IInv, TypeOK, Handed
    <3>3. Taken(j)' = Taken(j) /\ pipe'[j] = pipe[j] /\ Taken(j) \in 0..NumTasks+1
      BY <1>b, <2>3 DEF IInv, TypeOK, Taken
    <3> QED BY <1>a, <1>c, <2>1, <3>2, <3>3 DEF Accounted, Inc
  <2>4. CASE j # i /\ j # i + 1
    BY <1>b, <2>1, <2>4 DEF IInv, TypeOK, Accounted, Taken, Handed
  <2> QED BY <2>2, <2>3, <2>4
<1>3. SubmittedExact'
  <2>1. CASE i = NumPipes
    BY <1>a, <1>b, <1>c, <2>1 DEF IInv, TypeOK, SubmittedExact, Handed, Inc
  <2>2. CASE i # NumPipes
    BY <1>b, <2>2 DEF IInv, TypeOK, SubmittedExact, Handed
  <2> QED BY <2>1, <2>2
<1>4. NoLostWakeup'
  <2> SUFFICES ASSUME NEW j \in Pipes, pipe'[j] = "asleep", tokens'[j-1] # TokenMax
               PROVE  IF j = 1 THEN master' = "notify" ELSE pipe'[j-1] = "notify"
    BY DEF NoLostWakeup
  <2>1. j # i /\ pipe[j] = "asleep"
    BY <1>b DEF IInv, TypeOK
  <2>2. CASE j = i + 1
    <3>1. tokens[i] = TokenMax
      BY <1>b, <2>1, <2>2 DEF IInv, NoLostWakeup
    <3> QED BY <1>b, <2>2, <3>1 DEF IInv, TypeOK, Inc
  <2>3. CASE j # i + 1
    BY <1>b, <2>1, <2>3 DEF IInv, TypeOK, NoLostWakeup
  <2> QED BY <2>2, <2>3
<1> QED BY <1>1, <1>2, <1>3, <1>4 DEF IInv

\* A pipe's notify_one keeps the invariant.
LEMMA PipeNotifyStep ==
  ASSUME NEW i \in Pipes PROVE IInv /\ PipeNotify(i) => IInv'
<1> SUFFICES ASSUME IInv, PipeNotify(i) PROVE IInv'
  OBVIOUS
<1> USE NumTasksAssumption, NumPipesAssumption, TokenMaxAssumption DEF Stations, Pipes
<1>b. /\ pipe' \in [Pipes -> PipeStates]
      /\ pipe[i] = "notify" /\ pipe'[i] = "take"
      /\ \A j \in Pipes \ {i} :
            pipe'[j] = IF j = i + 1 /\ pipe[j] = "asleep" THEN "wait" ELSE pipe[j]
      /\ tokens' = tokens /\ pos' = pos /\ num_issued' = num_issued /\ master' = master
      /\ local_submitted' = local_submitted /\ num_submitted' = num_submitted
  BY DEF IInv, TypeOK, PipeStates, PipeNotify, Wake, masterVars, boarderVars
<1>1. TypeOK'
  BY <1>b DEF IInv, TypeOK
<1>2. TokenAccounting'
  <2> SUFFICES ASSUME NEW j \in Pipes PROVE Accounted(j)'
    BY DEF TokenAccounting
  <2>1. Accounted(j)
    BY DEF IInv, TokenAccounting
  <2>2. CASE j = i
    BY <1>b, <2>1, <2>2 DEF IInv, TypeOK, Accounted, Taken, Handed
  <2>3. CASE j # i
    BY <1>b, <2>1, <2>3 DEF IInv, TypeOK, Accounted, Taken, Handed
  <2> QED BY <2>2, <2>3
<1>3. SubmittedExact'
  BY <1>b DEF IInv, TypeOK, SubmittedExact, Handed
<1>4. NoLostWakeup'
  <2> SUFFICES ASSUME NEW j \in Pipes, pipe'[j] = "asleep", tokens'[j-1] # TokenMax
               PROVE  IF j = 1 THEN master' = "notify" ELSE pipe'[j-1] = "notify"
    BY DEF NoLostWakeup
  <2>1. j # i /\ j # i + 1 /\ pipe[j] = "asleep"
    BY <1>b DEF IInv, TypeOK
  <2> QED BY <1>b, <2>1 DEF IInv, TypeOK, NoLostWakeup
<1> QED BY <1>1, <1>2, <1>3, <1>4 DEF IInv

\* The boarder's exchange keeps the invariant.
LEMMA BoarderTakeStep == IInv /\ BoarderTake => IInv'
<1> SUFFICES ASSUME IInv, BoarderTake PROVE IInv'
  OBVIOUS
<1> USE NumTasksAssumption, NumPipesAssumption, TokenMaxAssumption DEF Stations, Pipes
<1>a. Handed(NumPipes) \in 0..NumTasks /\ tokens[NumPipes] \in 0..TokenMax
  BY HandedType DEF IInv, TypeOK
<1>b. /\ tokens' = [tokens EXCEPT ![NumPipes] = 0]
      /\ local_submitted' = local_submitted + tokens[NumPipes]
      /\ num_issued' = num_issued /\ master' = master /\ pos' = pos /\ pipe' = pipe
      /\ num_submitted' = num_submitted
  BY DEF BoarderTake, masterVars, pipeVars
<1>1. TypeOK'
  <2>1. tokens' \in [Stations -> 0..TokenMax]
    BY <1>b DEF IInv, TypeOK
  <2>2. local_submitted' \in 0..NumTasks
    BY <1>a, <1>b DEF IInv, TypeOK, SubmittedExact
  <2> QED BY <2>1, <2>2, <1>b DEF IInv, TypeOK
<1>2. TokenAccounting'
  <2> SUFFICES ASSUME NEW j \in Pipes PROVE Accounted(j)'
    BY DEF TokenAccounting
  <2>1. Accounted(j) /\ tokens'[j-1] = tokens[j-1]
    BY <1>b DEF IInv, TypeOK, TokenAccounting
  <2> QED BY <1>b, <2>1 DEF Accounted, Taken, Handed
<1>3. SubmittedExact'
  BY <1>a, <1>b DEF IInv, TypeOK, SubmittedExact, Handed
<1>4. NoLostWakeup'
  <2> SUFFICES ASSUME NEW j \in Pipes, pipe'[j] = "asleep", tokens'[j-1] # TokenMax
               PROVE  IF j = 1 THEN master' = "notify" ELSE pipe'[j-1] = "notify"
    BY DEF NoLostWakeup
  <2>1. tokens'[j-1] = tokens[j-1]
    BY <1>b DEF IInv, TypeOK
  <2> QED BY <1>b, <2>1 DEF IInv, NoLostWakeup
<1> QED BY <1>1, <1>2, <1>3, <1>4 DEF IInv

\* The boarder's store keeps the invariant.
LEMMA BoarderStoreStep == IInv /\ BoarderStore => IInv'
<1> SUFFICES ASSUME IInv, BoarderStore PROVE IInv'
  OBVIOUS
<1>b. /\ num_submitted' = local_submitted
      /\ local_submitted' = local_submitted /\ tokens' = tokens
      /\ num_issued' = num_issued /\ master' = master /\ pos' = pos /\ pipe' = pipe
  BY DEF BoarderStore, masterVars, pipeVars
<1>1. TypeOK'
  BY <1>b DEF IInv, TypeOK
<1>2. TokenAccounting'
  BY <1>b DEF IInv, TokenAccounting, Accounted, Taken, Handed
<1>3. SubmittedExact'
  BY <1>b DEF IInv, TypeOK, SubmittedExact, Handed
<1>4. NoLostWakeup'
  BY <1>b DEF IInv, NoLostWakeup
<1> QED BY <1>1, <1>2, <1>3, <1>4 DEF IInv

\* A step that changes nothing keeps the invariant.
LEMMA StutterStep == IInv /\ UNCHANGED vars => IInv'
BY DEF IInv, TypeOK, TokenAccounting, Accounted, SubmittedExact, NoLostWakeup, Taken, Handed,
       vars, masterVars, pipeVars, boarderVars

\* Every step of the protocol keeps the accounting.
LEMMA NextIInv == IInv /\ [Next]_vars => IInv'
<1> SUFFICES ASSUME IInv, [Next]_vars PROVE IInv'
  OBVIOUS
<1>1. CASE Master
  BY <1>1, MasterPushStep, MasterNotifyStep DEF Master
<1>2. CASE \E i \in Pipes : Pipe(i)
  BY <1>2, PipeTakeStep, PipeWaitStep, PipePassStep, PipeNotifyStep DEF Pipe
<1>3. CASE Boarder
  BY <1>3, BoarderTakeStep, BoarderStoreStep DEF Boarder
<1>4. CASE Stopped
  BY <1>4, StutterStep DEF Stopped
<1>5. CASE UNCHANGED vars
  BY <1>5, StutterStep
<1> QED BY <1>1, <1>2, <1>3, <1>4, <1>5 DEF Next

\* The inductive invariant holds in every reachable state.
LEMMA Invariance == Spec => []IInv
BY InitIInv, NextIInv, PTL DEF Spec
-----------------------------------------------------------------------------
(* Every variable of the protocol stays in its range; in particular no     *)
(* token counter of scheduler.hpp leaves the range of size_t, although it  *)
(* is decremented below 0 on purpose.                                      *)
THEOREM TypeCorrect == Spec => []TypeOK
BY Invariance, PTL DEF IInv

(* For every number of tasks and pipes the counters hold exactly the tasks *)
(* between two stations (pipe_thread_, init_context_).                     *)
THEOREM Accounting == Spec => []TokenAccounting
BY Invariance, PTL DEF IInv

\* The accounting leaves a working pipe a task that was handed over.
LEMMA IInvHandoff == IInv => OrderedHandoff
<1> SUFFICES ASSUME IInv, NEW i \in Pipes, pipe[i] = "work" PROVE pos[i] <= Handed(i-1)
  BY DEF OrderedHandoff
<1> QED BY DEF IInv, TokenAccounting, Accounted, Taken

(* A pipe thread only executes a step of a task that the station above has *)
(* finished with (pipe_thread_).                                           *)
THEOREM Handoff == Spec => []OrderedHandoff
BY Invariance, IInvHandoff, PTL

(* No pipe sleeps in atomic_wait through the increment it waits for:       *)
(* notify_one is called on the transition to 0 only, and that suffices.    *)
THEOREM Wakeup == Spec => []NoLostWakeup
BY Invariance, PTL DEF IInv

(* The boarder neither loses nor counts twice a task that leaves the last  *)
(* pipe while it exchanges the counter (boarder_thread_).                  *)
THEOREM Submission == Spec => []SubmittedExact
BY Invariance, PTL DEF IInv
-----------------------------------------------------------------------------
(* The refinement: each step of the token protocol is a step of Conveyor   *)
(* or leaves its state alone.                                              *)
passed == [i \in Stations |-> Handed(i)]

\* The initial state is an initial state of the conveyor.
LEMMA InitRefined == Init => C!Init
BY NumPipesAssumption DEF Init, C!Init, C!Stations, Handed, Stations, Pipes

\* A push of the master is a push on the conveyor.
LEMMA MasterPushRefined == IInv /\ MasterPush => C!Push
<1> SUFFICES ASSUME IInv, MasterPush PROVE C!Push
  OBVIOUS
<1> USE NumPipesAssumption DEF Stations, Pipes
<1>1. passed[0] = num_issued
  BY DEF passed, Handed
<1>2. passed' = [passed EXCEPT ![0] = passed[0] + 1]
  BY <1>1 DEF passed, Handed, MasterPush, pipeVars
<1> QED BY <1>1, <1>2 DEF C!Push, MasterPush, boarderVars, passed

\* The hand-over of a pipe is a hand-over on the conveyor.
LEMMA PipePassRefined ==
  ASSUME NEW i \in Pipes PROVE IInv /\ PipePass(i) => C!Pass(i)
<1> SUFFICES ASSUME IInv, PipePass(i) PROVE C!Pass(i)
  OBVIOUS
<1> USE NumPipesAssumption, NumTasksAssumption DEF Stations, Pipes
<1>1. passed[i] = pos[i] - 1 /\ passed[i-1] = Handed(i-1) /\ pos[i] \in Nat
  BY DEF passed, Handed, IInv, TypeOK
<1>2. pos[i] <= Handed(i-1) /\ Handed(i-1) \in Nat
  BY IInvHandoff, HandedType DEF OrderedHandoff, PipePass, IInv
<1>3. passed' = [passed EXCEPT ![i] = passed[i] + 1]
  <2>1. /\ pos' = [pos EXCEPT ![i] = pos[i] + 1] /\ num_issued' = num_issued
        /\ pos \in [Pipes -> 1..NumTasks+1]
    BY DEF PipePass, masterVars, IInv, TypeOK
  <2>2. ASSUME NEW j \in Stations PROVE Handed(j)' = IF j = i THEN pos[i] ELSE Handed(j)
    BY <2>1 DEF Handed
  <2> QED BY <1>1, <2>2 DEF passed
<1> QED BY <1>1, <1>2, <1>3 DEF C!Pass, PipePass, boarderVars, passed

\* The boarder's store publishes tasks on the conveyor.
LEMMA BoarderStoreRefined == IInv /\ BoarderStore => C!Board
<1> SUFFICES ASSUME IInv, BoarderStore PROVE C!Board
  OBVIOUS
<1> USE NumPipesAssumption, NumTasksAssumption DEF Stations, Pipes
<1>1. passed[NumPipes] = Handed(NumPipes) /\ passed' = passed
  BY DEF passed, Handed, BoarderStore, masterVars, pipeVars
<1>2. /\ local_submitted \in 1..NumTasks
      /\ num_submitted < local_submitted
      /\ local_submitted <= Handed(NumPipes)
  BY HandedType DEF IInv, TypeOK, SubmittedExact, BoarderStore
<1> QED BY <1>1, <1>2 DEF C!Board, BoarderStore, passed

\* The other steps move tokens and threads, not tasks.
LEMMA OtherStepsRefined ==
  ASSUME \/ MasterNotify \/ BoarderTake \/ UNCHANGED vars
         \/ \E i \in Pipes : PipeTake(i) \/ PipeWait(i) \/ PipeNotify(i)
  PROVE  UNCHANGED C!conveyorVars
BY DEF MasterNotify, BoarderTake, PipeTake, PipeWait, PipeNotify, C!conveyorVars, Handed,
       vars, masterVars, pipeVars, boarderVars

\* Every step is a step of the conveyor or leaves it as it is.
LEMMA NextRefined == IInv /\ [Next]_vars => [C!Next]_(C!conveyorVars)
<1> SUFFICES ASSUME IInv, [Next]_vars PROVE [C!Next]_(C!conveyorVars)
  OBVIOUS
<1>1. CASE MasterPush
  BY <1>1, MasterPushRefined DEF C!Next
<1>2. CASE \E i \in Pipes : PipePass(i)
  BY <1>2, PipePassRefined DEF C!Next, Pipes
<1>3. CASE BoarderStore
  BY <1>3, BoarderStoreRefined DEF C!Next
<1>4. CASE \/ MasterNotify \/ BoarderTake \/ UNCHANGED vars
           \/ \E i \in Pipes : PipeTake(i) \/ PipeWait(i) \/ PipeNotify(i)
  BY <1>4, OtherStepsRefined
<1> QED BY <1>1, <1>2, <1>3, <1>4 DEF Next, Master, Pipe, Boarder, Stopped

(* For every number of tasks and pipes, the token counters implement the   *)
(* ordered hand-over of tasks that the rest of the scheduler relies on.    *)
THEOREM Refinement == Spec => ImplementsConveyor
BY Invariance, InitRefined, NextRefined, PTL DEF Spec, ImplementsConveyor, C!Spec
=============================================================================
