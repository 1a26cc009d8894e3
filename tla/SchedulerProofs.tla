--------------------------- MODULE SchedulerProofs ---------------------------
(***************************************************************************)
(* The concurrent scheduler makes the versions that replaying the tasks    *)
(* one after the other would make: for every number of threads, pipes,     *)
(* tasks and keys, and any priorities.                                     *)
(*                                                                         *)
(* FullInv, the inductive invariant, has four parts.  IInv: a task is in   *)
(* one thread's hands.  CommitInv: what is committed is done.  TreeNow: a  *)
(* node holds what its own version is to hold below its key, unless a task *)
(* has it open; what a root or a child leads to is known from the keys     *)
(* alone, for a treap has only one shape.  DepthInv: a task that a pipe or *)
(* worker is about to step is less deep than the tasks before it that are  *)
(* not finished.  A step copies the children of a node of an earlier       *)
(* version; the node is on the same path in that version, hence as deep,   *)
(* and so no earlier task has it open.                                     *)
(*                                                                         *)
(* For one worker, BlocksInv tells how far it is, SumsInv that the sums    *)
(* stored in nodes are right, SummedInv which versions have their sums.    *)
(***************************************************************************)
EXTENDS Scheduler, TreapProofs

-----------------------------------------------------------------------------
(* Tasks and threads: a task is in the hands of one                         *)
(* thread at a time, so what has been done of it stays done.  A pipe is at  *)
(* a task the boarder has not seen, a worker at one it has published, and   *)
(* no two workers fetch the same one.                                       *)
WorkerPcs == {"fetch", "load", "step", "estimate", "stop"}
AtTask == {"load", "step"}
Types ==
  /\ passed \in [0..num_pipes -> Nat]
  /\ num_submitted \in Nat /\ num_fetched \in Nat /\ num_committed \in 0..NumTasks
  /\ DOMAIN ctxs = 0..NumTasks
  /\ worker \in [Workers -> [pc : WorkerPcs, task : Nat, stage : Nat, count : Nat, est : Int]]
StationsInv ==
  /\ \A i, j \in 0..num_pipes : i <= j => passed[j] <= passed[i]
  /\ passed[0] <= NumTasks /\ num_submitted <= passed[num_pipes]
FetchedInv ==
  /\ \A w \in Workers : worker[w].pc \in AtTask => worker[w].task \in 1..NumTasks /\ worker[w].task <= num_fetched
  /\ \A v, w \in Workers : worker[v].pc \in AtTask /\ worker[w].pc \in AtTask /\ worker[v].task = worker[w].task
                             => v = w
\* A task not yet issued, or about to be stepped by a worker, is not done.
RunningInv ==
  /\ \A t \in 0..NumTasks : t > passed[0] => ctxs[t].st # "ST_DONE"
  /\ \A w \in Workers : worker[w].pc = "step" =>
       worker[w].task <= num_submitted /\ ctxs[worker[w].task].st # "ST_DONE"
IInv == Types /\ StationsInv /\ FetchedInv /\ RunningInv

\* The constants that the invariants count with.
LEMMA Constants ==
  /\ num_workers \in Nat /\ Workers \subseteq Int /\ NumTasks \in Nat /\ num_pipes \in Nat
BY NumPipesAssumption, NumThreadsAssumption, NumTasksAssumption DEF num_workers, Workers

\* The end of a block is a number.
LEMMA BlockEndInt == ASSUME NEW w \in Workers, NEW n \in Nat PROVE block_end(w, n) \in Int
<1>1. w \in Int /\ num_workers \in Nat /\ BlockSize \in Nat /\ NumTasks \in Nat BY Constants, BlockSizeAssumption
<1>2. n * num_workers \in Nat BY <1>1
<1>3. (w - 1 + n * num_workers) * BlockSize \in Int BY <1>1, <1>2
<1>4. block_start(w, n) + BlockSize - 1 \in Int BY <1>1, <1>3 DEF block_start
<1>5. ASSUME NEW a \in Int, NEW b \in Int PROVE Min({a, b}) \in Int BY DEF Min
<1> QED BY <1>1, <1>4, <1>5 DEF block_end

\* A scheduler that has just been constructed satisfies IInv.
LEMMA IInvInit == Init => IInv
<1> SUFFICES ASSUME Init PROVE IInv OBVIOUS
<1> USE Constants
<1>1. /\ passed = [i \in 0..num_pipes |-> 0] /\ num_submitted = 0
  BY DEF Init, Conveyor!Init, Conveyor!Stations
<1>2. Types BY <1>1 DEF Init, Types, WorkerPcs
<1>3. StationsInv BY <1>1 DEF StationsInv
<1>4. FetchedInv BY DEF Init, FetchedInv, AtTask
<1>5. RunningInv BY <1>1 DEF Init, RunningInv, Context
<1> QED BY <1>2, <1>3, <1>4, <1>5 DEF IInv

\* A step of task t leaves the contexts of the others alone.
Touches(t) == DOMAIN ctxs' = DOMAIN ctxs /\ \A u \in 0..NumTasks : u # t => ctxs'[u] = ctxs[u]

\* StepTo writes one context.
LEMMA StepTouches == ASSUME Types, NEW t, NEW r, StepTo(t, r) PROVE Touches(t)
BY DEF StepTo, Touches, Types

\* A station passes a task on.
LEMMA Advances ==
  ASSUME Types, StationsInv, NEW i \in 0..num_pipes, i = 0 => passed[0] < NumTasks, i # 0 => passed[i] < passed[i-1],
         passed' = [passed EXCEPT ![i] = @ + 1], UNCHANGED num_submitted
  PROVE  /\ StationsInv' /\ passed' \in [0..num_pipes -> Nat]
         /\ passed'[0] >= passed[0] /\ (i # 0 => passed'[0] = passed[0]) /\ (i = 0 => passed'[0] = passed[0] + 1)
         /\ passed[i] + 1 > num_submitted
         /\ i # 0 => passed[i] + 1 \in 1..passed[0]
<1> USE Constants DEF Types
<1>1. /\ passed'[i] = passed[i] + 1 /\ \A j \in 0..num_pipes : j # i => passed'[j] = passed[j]
      /\ passed' \in [0..num_pipes -> Nat] /\ 0 \in 0..num_pipes /\ num_pipes \in 0..num_pipes
      /\ \A j \in 0..num_pipes : passed[j] \in Nat
  OBVIOUS
<1>2. i # 0 => i - 1 \in 0..num_pipes /\ \A j \in 0..num_pipes : j < i => j <= i - 1 OBVIOUS
<1>3. i # 0 => passed[i-1] <= passed[0] BY <1>2 DEF StationsInv
<1>4. \A j \in 0..num_pipes : j < i => passed[j] >= passed[i] + 1
  BY <1>1, <1>2 DEF StationsInv
<1>5. \A j, k \in 0..num_pipes : j <= k => passed'[k] <= passed'[j]
  <2> SUFFICES ASSUME NEW j \in 0..num_pipes, NEW k \in 0..num_pipes, j <= k PROVE passed'[k] <= passed'[j]
    OBVIOUS
  <2>1. passed[k] <= passed[j] BY DEF StationsInv
  <2>2. CASE j = i /\ k = i BY <2>2, <1>1
  <2>3. CASE j # i /\ k = i BY <2>3, <1>1, <1>4
  <2>4. CASE k # i BY <2>1, <2>4, <1>1
  <2> QED BY <2>2, <2>3, <2>4
<1>6. num_submitted <= passed[num_pipes] /\ passed[num_pipes] <= passed[i] /\ passed[0] <= NumTasks
  BY <1>1 DEF StationsInv
<1>7. passed'[0] <= NumTasks BY <1>1, <1>6
<1>8. num_submitted' <= passed'[num_pipes] BY <1>1, <1>6
<1>9. StationsInv' BY <1>5, <1>7, <1>8 DEF StationsInv
<1>10. i # 0 => passed[i] + 1 \in 1..passed[0] BY <1>1, <1>2, <1>3
<1> QED BY <1>1, <1>6, <1>9, <1>10

\* A step at a station keeps the invariant.
LEMMA StationStep ==
  ASSUME IInv, NEW i \in 0..num_pipes, i = 0 => passed[0] < NumTasks, i # 0 => passed[i] < passed[i-1],
         passed' = [passed EXCEPT ![i] = @ + 1], Touches(passed[i] + 1),
         UNCHANGED <<num_submitted, num_fetched, num_committed, worker>>
  PROVE  IInv'
<1>1. Types /\ StationsInv BY DEF IInv
<1>2. /\ StationsInv' /\ passed' \in [0..num_pipes -> Nat]
      /\ passed'[0] >= passed[0] /\ (i # 0 => passed'[0] = passed[0]) /\ (i = 0 => passed'[0] = passed[0] + 1)
      /\ passed[i] + 1 > num_submitted
      /\ i # 0 => passed[i] + 1 \in 1..passed[0]
  BY <1>1, Advances
<1>3. Types' BY <1>1, <1>2 DEF Types, Touches
<1>4. FetchedInv' BY DEF IInv, FetchedInv
<1>5. \A t \in 0..NumTasks : t > passed'[0] => ctxs'[t].st # "ST_DONE"
  <2> SUFFICES ASSUME NEW t \in 0..NumTasks, t > passed'[0] PROVE ctxs'[t].st # "ST_DONE" OBVIOUS
  <2>1. passed[0] \in Nat BY <1>1, Constants DEF Types
  <2>2. t # passed[i] + 1 /\ t > passed[0] BY <1>2, <2>1, Constants
  <2> QED BY <2>2 DEF Touches, IInv, RunningInv
<1>6. \A w \in Workers : worker'[w].pc = "step" =>
         worker'[w].task <= num_submitted' /\ ctxs'[worker'[w].task].st # "ST_DONE"
  <2> SUFFICES ASSUME NEW w \in Workers, worker[w].pc = "step"
               PROVE  worker[w].task <= num_submitted /\ ctxs'[worker[w].task].st # "ST_DONE"
    OBVIOUS
  <2>1. worker[w].task \in 0..NumTasks BY Constants DEF IInv, FetchedInv, AtTask
  <2>2. worker[w].task <= num_submitted /\ ctxs[worker[w].task].st # "ST_DONE" BY DEF IInv, RunningInv
  <2>3. passed[i] \in Nat /\ num_submitted \in Nat BY <1>1 DEF Types
  <2>4. worker[w].task # passed[i] + 1 BY <1>2, <2>1, <2>2, <2>3, Constants
  <2> QED BY <2>1, <2>2, <2>4 DEF Touches
<1> QED BY <1>2, <1>3, <1>4, <1>5, <1>6 DEF IInv, RunningInv

\* The master issues a task no pipe has seen.
LEMMA MasterStep == ASSUME IInv, Master PROVE IInv'
<1>1. Touches(passed[0] + 1) BY StepTouches DEF Master, IInv
<1>2. /\ 0 \in 0..num_pipes /\ passed[0] < NumTasks /\ passed' = [passed EXCEPT ![0] = @ + 1]
      /\ UNCHANGED <<num_submitted, num_fetched, num_committed, worker>>
  BY Constants DEF Master, Conveyor!Push
<1> QED BY <1>1, <1>2, StationStep

\* A pipe takes the task after its last one.
LEMMA PipeStepStep == ASSUME IInv, NEW i \in 1..num_pipes, PipeStep(i) PROVE IInv'
<1>1. Touches(passed[i] + 1)
  <2>1. CASE UNCHANGED treeVars BY <2>1 DEF treeVars, Touches
  <2> QED BY <2>1, StepTouches DEF PipeStep, IInv
<1>2. /\ i \in 0..num_pipes /\ i # 0 /\ passed[i] < passed[i-1] /\ passed' = [passed EXCEPT ![i] = @ + 1]
      /\ UNCHANGED <<num_submitted, num_fetched, num_committed, worker>>
  BY Constants DEF PipeStep, Conveyor!Pass
<1> QED BY <1>1, <1>2, StationStep

\* The boarder publishes tasks that have left the last pipe.
LEMMA BoarderStep == ASSUME IInv, Boarder PROVE IInv'
<1>1. /\ passed' = passed /\ ctxs' = ctxs /\ worker' = worker /\ num_fetched' = num_fetched
      /\ num_committed' = num_committed
      /\ num_submitted' \in Nat /\ num_submitted < num_submitted' /\ num_submitted' <= passed[num_pipes]
  BY DEF Boarder, Conveyor!Board, treeVars
<1>2. \A w \in Workers : worker[w].pc = "step" => worker[w].task <= num_submitted'
  <2> SUFFICES ASSUME NEW w \in Workers, worker[w].pc = "step" PROVE worker[w].task <= num_submitted' OBVIOUS
  <2>1. worker[w].task <= num_submitted BY DEF IInv, RunningInv
  <2>2. worker[w].task \in Nat /\ num_submitted \in Nat BY DEF IInv, Types
  <2> QED BY <1>1, <2>1, <2>2
<1> QED BY <1>1, <1>2 DEF IInv, Types, StationsInv, FetchedInv, RunningInv

\* A worker that is through with its task.
LEMMA AfterUpdateIs ==
  ASSUME Types, NEW w \in Workers, NEW t \in Nat
  PROVE  /\ AfterUpdate(w, t) \in [pc : WorkerPcs, task : Nat, stage : Nat, count : Nat, est : Int]
         /\ AfterUpdate(w, t).pc \notin AtTask /\ AfterUpdate(w, t).pc # "step"
<1>1. worker[w] \in [pc : WorkerPcs, task : Nat, stage : Nat, count : Nat, est : Int] BY DEF Types
<1>2. block_end(w, worker[w].count) \in Int BY <1>1, BlockEndInt
<1> QED BY <1>1, <1>2 DEF AfterUpdate, WorkerPcs, AtTask

\* A step of worker w, which is at its task t after it or at none.
LEMMA WorkerStep ==
  ASSUME IInv, NEW w \in Workers,
         NEW r \in [pc : WorkerPcs, task : Nat, stage : Nat, count : Nat, est : Int],
         worker' = [worker EXCEPT ![w] = r], worker[w].pc \in AtTask, Touches(worker[w].task),
         r.pc \in AtTask => r.task = worker[w].task,
         r.pc = "step" => r.task <= num_submitted /\ ctxs'[r.task].st # "ST_DONE",
         worker[w].task <= num_submitted,
         UNCHANGED <<passed, num_submitted, num_fetched, num_committed>>
  PROVE  IInv'
<1>1. worker'[w] = r /\ \A v \in Workers : v # w => worker'[v] = worker[v] BY DEF IInv, Types
<1>2. Types' BY DEF IInv, Types, Touches
<1>3. StationsInv' BY DEF IInv, StationsInv
<1>4. FetchedInv'
  <2>1. \A v \in Workers : worker'[v].pc \in AtTask => worker[v].pc \in AtTask /\ worker'[v].task = worker[v].task
    BY <1>1
  <2> QED BY <2>1 DEF IInv, FetchedInv
<1>5. \A t \in 0..NumTasks : t > passed'[0] => ctxs'[t].st # "ST_DONE"
  <2> SUFFICES ASSUME NEW t \in 0..NumTasks, t > passed[0] PROVE ctxs'[t].st # "ST_DONE" OBVIOUS
  <2>1. /\ num_submitted <= passed[num_pipes] /\ passed[num_pipes] <= passed[0]
        /\ passed[0] \in Nat /\ passed[num_pipes] \in Nat /\ num_submitted \in Nat /\ worker[w].task \in Nat
    BY Constants DEF IInv, StationsInv, Types
  <2>2. t # worker[w].task BY <2>1, Constants
  <2> QED BY <2>2 DEF Touches, IInv, RunningInv
<1>6. \A v \in Workers : worker'[v].pc = "step" =>
         worker'[v].task <= num_submitted' /\ ctxs'[worker'[v].task].st # "ST_DONE"
  <2> SUFFICES ASSUME NEW v \in Workers, v # w, worker[v].pc = "step"
               PROVE  worker[v].task <= num_submitted /\ ctxs'[worker[v].task].st # "ST_DONE"
    BY <1>1
  <2>1. worker[v].task # worker[w].task BY DEF IInv, FetchedInv, AtTask
  <2>2. worker[v].task \in 0..NumTasks BY Constants DEF IInv, FetchedInv, AtTask
  <2> QED BY <2>1, <2>2 DEF IInv, RunningInv, Touches
<1> QED BY <1>2, <1>3, <1>4, <1>5, <1>6 DEF IInv, RunningInv

\* A worker fetches a task nobody has fetched.
LEMMA FetchStep == ASSUME IInv, NEW w \in Workers, Fetch(w) PROVE IInv'
<1> DEFINE t == num_fetched + 1
           r == IF t > NumTasks THEN AfterUpdate(w, t)
                ELSE [worker[w] EXCEPT !.pc = "load", !.task = t, !.stage = 1]
<1>1. num_fetched \in Nat /\ t \in Nat BY DEF IInv, Types
<1>2. /\ worker' = [worker EXCEPT ![w] = r] /\ num_fetched' = t /\ passed' = passed /\ ctxs' = ctxs
      /\ num_submitted' = num_submitted /\ num_committed' = num_committed
  BY DEF Fetch, treeVars
<1>3. worker[w] \in [pc : WorkerPcs, task : Nat, stage : Nat, count : Nat, est : Int] BY DEF IInv, Types
<1>4. /\ r \in [pc : WorkerPcs, task : Nat, stage : Nat, count : Nat, est : Int] /\ r.pc # "step"
      /\ r.pc \in AtTask => t <= NumTasks /\ r.task = t
  <2>1. CASE t > NumTasks
    <3>1. r = AfterUpdate(w, t) BY <2>1
    <3> HIDE DEF r, t
    <3> QED BY <3>1, <1>1, AfterUpdateIs DEF IInv
  <2>2. CASE ~(t > NumTasks)
    <3>1. r = [worker[w] EXCEPT !.pc = "load", !.task = t, !.stage = 1] BY <2>2
    <3>2. t <= NumTasks BY <2>2, <1>1, Constants
    <3>3. "load" \in WorkerPcs BY DEF WorkerPcs
    <3> HIDE DEF r, t
    <3>4. r \in [pc : WorkerPcs, task : Nat, stage : Nat, count : Nat, est : Int] BY <3>1, <3>3, <1>1, <1>3
    <3>5. r.pc = "load" /\ r.task = t BY <3>1, <1>3
    <3> QED BY <3>2, <3>4, <3>5
  <2> QED BY <2>1, <2>2
<1> HIDE DEF r
<1>5. worker'[w] = r /\ \A v \in Workers : v # w => worker'[v] = worker[v] BY <1>2 DEF IInv, Types
<1>6. Types' BY <1>1, <1>2, <1>4 DEF IInv, Types
<1>7. FetchedInv'
  <2>1. \A v \in Workers : worker[v].pc \in AtTask =>
          worker[v].task \in 1..NumTasks /\ worker[v].task <= num_fetched /\ worker[v].task \in Nat
    BY DEF IInv, FetchedInv, Types
  <2>2. \A v \in Workers : worker'[v].pc \in AtTask =>
          worker'[v].task \in 1..NumTasks /\ worker'[v].task <= num_fetched'
    BY <1>1, <1>2, <1>4, <1>5, <2>1, Constants
  <2>3. \A v \in Workers : v # w /\ worker'[v].pc \in AtTask => worker'[v].task # t
    BY <1>1, <1>5, <2>1
  <2> QED BY <1>4, <1>5, <2>2, <2>3 DEF IInv, FetchedInv
<1> QED BY <1>2, <1>4, <1>5, <1>6, <1>7 DEF IInv, StationsInv, RunningInv

\* A worker waits for its task and for what that depends on.
LEMMA LoadStep == ASSUME IInv, NEW w \in Workers, Load(w) PROVE IInv'
<1> DEFINE t == worker[w].task
<1>1. worker[w] \in [pc : WorkerPcs, task : Nat, stage : Nat, count : Nat, est : Int] BY DEF IInv, Types
<1>2. /\ worker[w].pc \in AtTask /\ t <= num_submitted /\ t \in Nat
      /\ UNCHANGED <<passed, num_submitted, num_fetched, num_committed>>
  BY <1>1 DEF Load, AtTask
<1>3. /\ AfterUpdate(w, t) \in [pc : WorkerPcs, task : Nat, stage : Nat, count : Nat, est : Int]
      /\ AfterUpdate(w, t).pc \notin AtTask /\ AfterUpdate(w, t).pc # "step"
  BY <1>2, AfterUpdateIs DEF IInv, AtTask
<1>4. CASE worker' = [worker EXCEPT ![w] = AfterUpdate(w, t)]
  <2>1. Touches(t)
    <3>1. CASE UNCHANGED treeVars BY <3>1 DEF treeVars, Touches
    <3>2. CASE StepTo(t, execute_to_complete_(heap, t, ctxs[t])) BY <3>2, StepTouches DEF IInv
    <3>3. CASE UNCHANGED <<heap, ctxs>> BY <3>3 DEF Touches
    <3> QED BY <3>1, <3>2, <3>3 DEF Load
  <2> HIDE DEF t
  <2> QED BY <1>2, <1>3, <1>4, <2>1, WorkerStep DEF t
<1>5. CASE worker' # [worker EXCEPT ![w] = AfterUpdate(w, t)]
  <2> DEFINE r == [worker[w] EXCEPT !.pc = "step"]
  <2>1. worker' = [worker EXCEPT ![w].pc = "step"] /\ ctxs' = ctxs /\ ctxs[t].st # "ST_DONE"
    BY <1>5 DEF Load
  <2>2. worker' = [worker EXCEPT ![w] = r] BY <2>1
  <2>3. /\ r \in [pc : WorkerPcs, task : Nat, stage : Nat, count : Nat, est : Int]
        /\ r.task = t
    BY <1>1 DEF WorkerPcs
  <2>4. Touches(t) BY <2>1 DEF Touches
  <2> HIDE DEF r
  <2> QED BY <1>2, <2>1, <2>2, <2>3, <2>4, WorkerStep
<1> QED BY <1>4, <1>5

\* A worker takes its task one step further.
LEMMA StepStep == ASSUME IInv, NEW w \in Workers, Step(w) PROVE IInv'
<1> DEFINE t == worker[w].task
           r == IF ctxs'[t].st = "ST_DONE" THEN AfterUpdate(w, t)
                ELSE [worker[w] EXCEPT !.pc = "load", !.stage = worker[w].stage + 1]
<1>1. worker[w] \in [pc : WorkerPcs, task : Nat, stage : Nat, count : Nat, est : Int] BY DEF IInv, Types
<1>2. /\ worker[w].pc \in AtTask /\ t <= num_submitted /\ t \in Nat
      /\ UNCHANGED <<passed, num_submitted, num_fetched, num_committed>>
  BY <1>1 DEF Step, AtTask, IInv, RunningInv
<1>3. worker' = [worker EXCEPT ![w] = r]
  <2>1. CASE ctxs'[t].st = "ST_DONE" BY <2>1 DEF Step
  <2>2. CASE ctxs'[t].st # "ST_DONE"
    <3>1. r = [worker[w] EXCEPT !.pc = "load", !.stage = worker[w].stage + 1] BY <2>2
    <3>2. worker' = [worker EXCEPT ![w] = [@ EXCEPT !.pc = "load", !.stage = worker[w].stage + 1]] BY <2>2 DEF Step
    <3> HIDE DEF r, t
    <3> QED BY <3>1, <3>2
  <2> QED BY <2>1, <2>2
<1>4. /\ r \in [pc : WorkerPcs, task : Nat, stage : Nat, count : Nat, est : Int]
      /\ r.pc # "step" /\ (r.pc \in AtTask => r.task = t)
  <2>1. CASE ctxs'[t].st = "ST_DONE"
    <3>1. r = AfterUpdate(w, t) BY <2>1
    <3> HIDE DEF r, t
    <3> QED BY <3>1, <1>2, AfterUpdateIs DEF IInv
  <2>2. CASE ctxs'[t].st # "ST_DONE"
    <3>1. r = [worker[w] EXCEPT !.pc = "load", !.stage = worker[w].stage + 1] BY <2>2
    <3>2. "load" \in WorkerPcs BY DEF WorkerPcs
    <3> HIDE DEF r
    <3>5. worker[w].stage + 1 \in Nat BY <1>1
    <3>3. r \in [pc : WorkerPcs, task : Nat, stage : Nat, count : Nat, est : Int] BY <3>1, <3>2, <3>5, <1>1
    <3>4. r.pc = "load" /\ r.task = t BY <3>1, <1>1
    <3> QED BY <3>3, <3>4
  <2> QED BY <2>1, <2>2
<1>5. Touches(t) BY StepTouches DEF Step, IInv
<1> HIDE DEF r
<1> QED BY <1>2, <1>3, <1>4, <1>5, WorkerStep

\* The steps that leave the tasks alone.
LEMMA OtherStep ==
  ASSUME IInv, UNCHANGED <<passed, num_submitted, num_fetched, ctxs>>, num_committed' \in 0..NumTasks,
         worker' \in [Workers -> [pc : WorkerPcs, task : Nat, stage : Nat, count : Nat, est : Int]],
         \A w \in Workers : worker'[w].pc \in AtTask => worker'[w] = worker[w]
  PROVE  IInv'
<1>1. Types' /\ StationsInv' BY DEF IInv, Types, StationsInv
<1>2. FetchedInv' BY DEF IInv, FetchedInv
<1>3. RunningInv' BY DEF IInv, RunningInv, AtTask
<1> QED BY <1>1, <1>2, <1>3 DEF IInv

\* Every step of the scheduler keeps IInv.
LEMMA IInvStep == ASSUME IInv, [Next]_vars PROVE IInv'
<1>1. worker \in [Workers -> [pc : WorkerPcs, task : Nat, stage : Nat, count : Nat, est : Int]] BY DEF IInv, Types
<1>2. ASSUME NEW w \in Workers, Estimate(w) PROVE IInv'
  <2>1. worker' = [worker EXCEPT ![w].est = worker[w].est - 1] BY <1>2 DEF Estimate
  <2>2. worker[w].est - 1 \in Int BY <1>1
  <2>3. worker' \in [Workers -> [pc : WorkerPcs, task : Nat, stage : Nat, count : Nat, est : Int]]
    BY <1>1, <2>1, <2>2
  <2>4. \A v \in Workers : worker'[v].pc \in AtTask => worker'[v] = worker[v]
    BY <1>1, <1>2, <2>1 DEF Estimate, AtTask
  <2> QED BY <1>2, <2>3, <2>4, OtherStep DEF Estimate, IInv, Types
<1>3. ASSUME NEW w \in Workers, PublishBlock(w) PROVE IInv'
  <2> DEFINE p == IF MoreTasks(worker[w].task) THEN "fetch" ELSE "stop"
  <2>1. worker' = [worker EXCEPT ![w].count = worker[w].count + 1, ![w].est = 0, ![w].pc = p]
    BY <1>3 DEF PublishBlock
  <2>2. worker[w].count + 1 \in Nat /\ 0 \in Int /\ p \in WorkerPcs /\ p \notin AtTask
    BY <1>1 DEF WorkerPcs, AtTask
  <2> HIDE DEF p
  <2>3. worker' \in [Workers -> [pc : WorkerPcs, task : Nat, stage : Nat, count : Nat, est : Int]]
    BY <1>1, <2>1, <2>2
  <2>4. \A v \in Workers : worker'[v].pc \in AtTask => worker'[v] = worker[v] BY <1>1, <2>1, <2>2
  <2> QED BY <1>3, <2>3, <2>4, OtherStep DEF PublishBlock, treeVars, IInv, Types
<1>4. CASE Collector
  <2>1. num_committed' \in 0..NumTasks BY <1>4, Constants DEF Collector, IInv, Types
  <2> QED BY <1>1, <1>4, <2>1, OtherStep DEF Collector, treeVars
<1>5. CASE UNCHANGED vars \/ Stopped
  BY <1>1, <1>5, OtherStep DEF Stopped, vars, treeVars, IInv, Types
<1> QED BY <1>2, <1>3, <1>4, <1>5, MasterStep, PipeStepStep, BoarderStep, FetchStep, LoadStep, StepStep
        DEF Next, Worker

\* No two threads are at one task.
LEMMA Exclusive == IInv => OneThreadPerTask
<1> SUFFICES ASSUME IInv, NEW t \in TaskIds
             PROVE  /\ \A i, j \in 1..num_pipes : AtPipe(i, t) /\ AtPipe(j, t) => i = j
                    /\ \A v, w \in Workers : AtWorker(v, t) /\ AtWorker(w, t) => v = w
                    /\ \A i \in 1..num_pipes, w \in Workers : ~(AtPipe(i, t) /\ AtWorker(w, t))
  BY DEF OneThreadPerTask
<1>1. \A i \in 1..num_pipes : /\ i \in 0..num_pipes /\ i - 1 \in 0..num_pipes
                              /\ passed[i] \in Nat /\ passed[i-1] \in Nat
                              /\ passed[num_pipes] <= passed[i]
  BY Constants DEF IInv, Types, StationsInv
<1>2. ASSUME NEW i \in 1..num_pipes, NEW j \in 1..num_pipes, AtPipe(i, t), AtPipe(j, t), i < j PROVE FALSE
  <2>1. passed[j-1] <= passed[i] BY <1>1, <1>2, Constants DEF IInv, StationsInv
  <2> QED BY <1>1, <1>2, <2>1, Constants DEF AtPipe, TaskIds
<1>3. \A i, j \in 1..num_pipes : AtPipe(i, t) /\ AtPipe(j, t) => i = j BY <1>2, Constants
<1>4. \A v, w \in Workers : AtWorker(v, t) /\ AtWorker(w, t) => v = w BY DEF AtWorker, IInv, FetchedInv, AtTask
<1>5. ASSUME NEW i \in 1..num_pipes, NEW w \in Workers, AtPipe(i, t), AtWorker(w, t) PROVE FALSE
  <2>1. num_submitted <= passed[num_pipes] /\ num_submitted \in Nat /\ passed[num_pipes] \in Nat
    BY Constants DEF IInv, StationsInv, Types
  <2> QED BY <1>1, <1>5, <2>1, Constants DEF AtPipe, AtWorker, TaskIds
<1> QED BY <1>3, <1>4, <1>5

(* At every moment each task is in the hands of at most one thread. *)
THEOREM TasksExclusive == Spec => []OneThreadPerTask
BY IInvInit, IInvStep, Exclusive, PTL DEF Spec

\* No step reopens a task.
LEMMA DoneKept == ASSUME IInv, [Next]_vars PROVE KeepsDone
<1>1. ASSUME NEW t \in Int, Touches(t), t \in 0..NumTasks => ctxs[t].st # "ST_DONE" PROVE KeepsDone
  BY <1>1 DEF KeepsDone, Touches
<1>2. ASSUME UNCHANGED ctxs PROVE KeepsDone BY <1>2 DEF KeepsDone
<1>3. CASE Master
  <2>1. Touches(passed[0] + 1) BY <1>3, StepTouches DEF Master, IInv
  <2>2. passed[0] \in Nat /\ passed[0] + 1 > passed[0] /\ passed[0] + 1 \in Int BY Constants DEF IInv, Types
  <2>3. passed[0] + 1 \in 0..NumTasks => ctxs[passed[0] + 1].st # "ST_DONE" BY <2>2 DEF IInv, RunningInv
  <2> QED BY <1>1, <2>1, <2>2, <2>3
<1>4. ASSUME NEW i \in 1..num_pipes, PipeStep(i) PROVE KeepsDone
  <2>1. passed[i] + 1 \in Int BY Constants DEF IInv, Types
  <2>2. CASE ctxs[passed[i] + 1].st = "ST_DONE" BY <1>2, <1>4, <2>2 DEF PipeStep, treeVars
  <2>3. CASE ctxs[passed[i] + 1].st # "ST_DONE"
    <3>1. Touches(passed[i] + 1) BY <1>4, <2>3, StepTouches DEF PipeStep, IInv
    <3> QED BY <1>1, <2>1, <2>3, <3>1
  <2> QED BY <2>2, <2>3
<1>5. ASSUME NEW w \in Workers, Load(w) PROVE KeepsDone
  <2>1. worker[w].task \in Int BY DEF IInv, Types
  <2>2. CASE ctxs[worker[w].task].st = "ST_DONE" BY <1>2, <1>5, <2>2 DEF Load, treeVars
  <2>3. CASE ctxs[worker[w].task].st # "ST_DONE"
    <3>1. CASE UNCHANGED ctxs BY <1>2, <3>1
    <3>2. CASE StepTo(worker[w].task, execute_to_complete_(heap, worker[w].task, ctxs[worker[w].task]))
      BY <1>1, <2>1, <2>3, <3>2, StepTouches DEF IInv
    <3> QED BY <1>5, <2>3, <3>1, <3>2 DEF Load
  <2> QED BY <2>2, <2>3
<1>6. ASSUME NEW w \in Workers, Step(w) PROVE KeepsDone
  <2>1. worker[w].task \in Int BY DEF IInv, Types
  <2>2. Touches(worker[w].task) BY <1>6, StepTouches DEF Step, IInv
  <2>3. ctxs[worker[w].task].st # "ST_DONE" BY <1>6 DEF Step, IInv, RunningInv
  <2> QED BY <1>1, <2>1, <2>2, <2>3
<1>7. CASE Boarder BY <1>2, <1>7 DEF Boarder, treeVars
<1>8. ASSUME NEW w \in Workers, Fetch(w) \/ Estimate(w) \/ PublishBlock(w) PROVE KeepsDone
  BY <1>2, <1>8 DEF Fetch, Estimate, PublishBlock, treeVars
<1>9. CASE Collector BY <1>2, <1>9 DEF Collector, treeVars
<1>10. CASE UNCHANGED vars \/ Stopped BY <1>2, <1>10 DEF Stopped, vars, treeVars
<1> QED BY <1>3, <1>4, <1>5, <1>6, <1>7, <1>8, <1>9, <1>10 DEF Next, Worker

(* A done task's context, and with it the root of its version, never        *)
(* changes again. *)
THEOREM DoneStays == Spec => DoneIsFinal
<1>1. IInv /\ [Next]_vars => [KeepsDone]_vars BY DoneKept
<1> QED BY <1>1, IInvInit, IInvStep, PTL DEF Spec, DoneIsFinal

(* What stage says of a task, and what the collector makes of it.           *)
StageInv ==
  /\ DOMAIN stage = 0..NumTasks
  /\ \A t \in 0..NumTasks : stage[t] = STAGE_DONE => ctxs[t].st = "ST_DONE"
CommitInv == StageInv /\ \A v \in 0..num_committed : ctxs[v].st = "ST_DONE"

\* At the start nothing but version 0 is committed.
LEMMA CommitInit == Init => CommitInv
<1> SUFFICES ASSUME Init PROVE CommitInv OBVIOUS
<1>1. STAGE_DONE \in Nat /\ STAGE_DONE # 0
  <2>1. Cardinality(Keys) \in Nat BY KeysAssumption, FS_CardinalityType
  <2> QED BY <2>1, Constants DEF STAGE_DONE
<1>2. StageInv BY <1>1, Constants DEF Init, StageInv, Done, Context
<1>3. ctxs[0].st = "ST_DONE" /\ num_committed = 0
  <2>1. 0 \in 0..NumTasks /\ stage[0] = STAGE_DONE /\ num_committed = 0 BY Constants DEF Init
  <2> QED BY <1>2, <2>1 DEF StageInv
<1> QED BY <1>2, <1>3 DEF CommitInv

\* A step of a task that is not done keeps what the stages say.
LEMMA StageStep ==
  ASSUME Types, StageInv, NEW t, NEW r, StepTo(t, r), t \in 0..NumTasks => ctxs[t].st # "ST_DONE"
  PROVE  StageInv'
BY DEF StepTo, StageInv, Types

\* The commit mark passes only tasks that are done.
LEMMA CommitStep == ASSUME IInv, StagesBelowDone, CommitInv, [Next]_vars PROVE CommitInv'
<1>1. Types /\ StageInv BY DEF IInv, CommitInv
<1>2. ASSUME UNCHANGED <<ctxs, stage>> PROVE StageInv' BY <1>1, <1>2 DEF StageInv
<1>3. StageInv'
  <2>1. CASE Master
    <3>1. passed[0] \in Nat /\ passed[0] + 1 > passed[0] BY Constants DEF IInv, Types
    <3>2. passed[0] + 1 \in 0..NumTasks => ctxs[passed[0] + 1].st # "ST_DONE" BY <3>1 DEF IInv, RunningInv
    <3> QED BY <1>1, <2>1, <3>2, StageStep DEF Master
  <2>2. ASSUME NEW i \in 1..num_pipes, PipeStep(i) PROVE StageInv'
    <3>1. CASE ctxs[passed[i] + 1].st = "ST_DONE" BY <1>2, <2>2, <3>1 DEF PipeStep, treeVars
    <3>2. CASE ctxs[passed[i] + 1].st # "ST_DONE" BY <1>1, <2>2, <3>2, StageStep DEF PipeStep
    <3> QED BY <3>1, <3>2
  <2>3. ASSUME NEW w \in Workers, Load(w) PROVE StageInv'
    <3> DEFINE t == worker[w].task  s == worker[w].stage
    <3>1. CASE ctxs[t].st = "ST_DONE" BY <1>2, <2>3, <3>1 DEF Load, treeVars
    <3>2. CASE ctxs[t].st # "ST_DONE"
      <4>1. CASE StepTo(t, execute_to_complete_(heap, t, ctxs[t])) BY <1>1, <3>2, <4>1, StageStep
      <4>2. CASE stage' = [stage EXCEPT ![t] = s] /\ UNCHANGED <<heap, ctxs>>
        <5>1. s # STAGE_DONE BY <1>1 DEF Types, StagesBelowDone
        <5> HIDE DEF s, t
        <5> QED BY <1>1, <4>2, <5>1 DEF StageInv
      <4> QED BY <2>3, <3>2, <4>1, <4>2 DEF Load
    <3> QED BY <3>1, <3>2
  <2>4. ASSUME NEW w \in Workers, Step(w) PROVE StageInv'
    <3>1. ctxs[worker[w].task].st # "ST_DONE" BY <2>4 DEF Step, IInv, RunningInv
    <3> QED BY <1>1, <2>4, <3>1, StageStep DEF Step
  <2>5. CASE Boarder BY <1>2, <2>5 DEF Boarder, treeVars
  <2>6. ASSUME NEW w \in Workers, Fetch(w) \/ Estimate(w) \/ PublishBlock(w) PROVE StageInv'
    BY <1>2, <2>6 DEF Fetch, Estimate, PublishBlock, treeVars
  <2>7. CASE Collector BY <1>2, <2>7 DEF Collector, treeVars
  <2>8. CASE UNCHANGED vars \/ Stopped BY <1>2, <2>8 DEF Stopped, vars, treeVars
  <2> QED BY <2>1, <2>2, <2>3, <2>4, <2>5, <2>6, <2>7, <2>8 DEF Next, Worker
<1>4. \A v \in 0..num_committed' : ctxs'[v].st = "ST_DONE"
  <2>1. \A v \in 0..num_committed : ctxs'[v].st = "ST_DONE"
    BY DoneKept, Constants DEF KeepsDone, CommitInv, IInv, Types
  <2>2. CASE Collector
    <3>1. ctxs' = ctxs BY <2>2 DEF Collector, treeVars
    <3>2. PICK n \in num_committed+1..NumTasks :
            (\A t \in num_committed+1..n : stage[t] = STAGE_DONE) /\ num_committed' = n
      BY <2>2 DEF Collector
    <3>3. \A t \in num_committed+1..n : ctxs[t].st = "ST_DONE"
      BY <1>1, <3>2, Constants DEF StageInv, Types
    <3> QED BY <2>1, <3>1, <3>2, <3>3, Constants, <1>1 DEF Types
  <2>3. CASE ~Collector
    <3>1. num_committed' = num_committed
      BY <2>3 DEF Next, Worker, Master, PipeStep, Boarder, Fetch, Load, Step, Estimate, PublishBlock, Stopped, vars
    <3> QED BY <2>1, <3>1
  <2> QED BY <2>2, <2>3
<1> QED BY <1>3, <1>4 DEF CommitInv

\* What has been committed is done.
LEMMA CommitImplies == IInv /\ CommitInv => CommittedDone
<1> SUFFICES ASSUME IInv, CommitInv PROVE num_committed <= passed[0] BY DEF CommittedDone, CommitInv
<1>1. num_committed \in 0..NumTasks /\ passed[0] \in Nat BY Constants DEF IInv, Types
<1>2. num_committed \in 0..num_committed BY <1>1
<1>3. ~(num_committed > passed[0]) BY <1>1, <1>2 DEF IInv, RunningInv, CommitInv
<1> QED BY <1>1, <1>3

-----------------------------------------------------------------------------
(* Expected[v]: what version v is to hold. *)
Expected == [v \in 0..NumTasks |-> M!Replay(txs, v)]

\* The contents after n operations are those after n - 1, changed by the n-th.
LEMMA ReplayReturns ==
  ASSUME NEW l, Len(l) \in Nat
  PROVE  /\ M!Replay(l, 0) = Contents0
         /\ \A n \in 1..Len(l) : M!Replay(l, n) = M!Apply(M!Replay(l, n-1), l[n])
<1> DEFINE S == 0..Len(l)
           Body(f, i) == IF i = 0 THEN Contents0 ELSE M!Apply(f[i-1], l[i])
           T == {n \in Nat : \E f : f = [i \in S |-> IF i < n THEN Body(f, i) ELSE 0]}
           F == CHOOSE f : f = [i \in S |-> Body(f, i)]
<1>1. 0 \in T
  <2>1. \A i \in S : ~(i < 0) OBVIOUS
  <2>2. \A f : [i \in S |-> IF i < 0 THEN Body(f, i) ELSE 0] = [i \in S |-> 0] BY <2>1
  <2>3. \E f : f = [i \in S |-> 0] OBVIOUS
  <2> HIDE DEF S, Body
  <2> QED BY <2>2, <2>3
<1>2. ASSUME NEW n \in Nat, n \in T PROVE n + 1 \in T
  <2>1. PICK f : f = [i \in S |-> IF i < n THEN Body(f, i) ELSE 0] BY <1>2
  <2> DEFINE g == [i \in S |-> IF i < n + 1 THEN Body(f, i) ELSE 0]
  <2>2. \A i \in S : i < n => f[i] = g[i]
    <3>1. \A i \in S : i < n => i < n + 1 OBVIOUS
    <3> HIDE DEF S, Body
    <3> QED BY <2>1, <3>1
  <2>3. \A i \in S : i < n + 1 => Body(f, i) = Body(g, i)
    <3>1. \A i \in S : i < n + 1 /\ i # 0 => i - 1 \in S /\ i - 1 < n OBVIOUS
    <3> HIDE DEF S, g
    <3>2. \A i \in S : i < n + 1 /\ i # 0 => f[i-1] = g[i-1] BY <2>2, <3>1
    <3> QED BY <3>2
  <2>4. g = [i \in S |-> IF i < n + 1 THEN Body(g, i) ELSE 0]
    <3> HIDE DEF S, Body
    <3> QED BY <2>3
  <2> HIDE DEF g, S, Body
  <2> QED BY <2>4
<1>3. Len(l) + 1 \in T
  <2> HIDE DEF T
  <2>1. \A n \in Nat : n \in T BY <1>1, <1>2, SetInduction
  <2> QED BY <2>1
<1>4. PICK f : f = [i \in S |-> IF i < Len(l) + 1 THEN Body(f, i) ELSE 0] BY <1>3
<1>5. f = [i \in S |-> Body(f, i)]
  <2>1. \A i \in S : i < Len(l) + 1 OBVIOUS
  <2> HIDE DEF S, Body
  <2> QED BY <1>4, <2>1
<1>6. F = [i \in S |-> Body(F, i)]
  <2> HIDE DEF Body, S
  <2> QED BY <1>5
<1>7. \A n : M!Replay(l, n) = F[n] BY DEF M!Replay
<1>8. \A n \in S : F[n] = Body(F, n)
  <2> HIDE DEF F, Body, S
  <2> QED BY <1>6
<1>9. M!Replay(l, 0) = Contents0 BY <1>7, <1>8
<1>10. ASSUME NEW n \in 1..Len(l) PROVE M!Replay(l, n) = M!Apply(M!Replay(l, n-1), l[n])
  <2>1. n \in S /\ n # 0 OBVIOUS
  <2>2. F[n] = Body(F, n) BY <1>8, <2>1
  <2>3. F[n] = M!Apply(F[n-1], l[n]) BY <2>1, <2>2
  <2> HIDE DEF F
  <2> QED BY <1>7, <2>3
<1> QED BY <1>9, <1>10

\* A workload is a sequence of no-ops and of updates of a key.
LEMMA TasksAre ==
  ASSUME txs \in Workloads
  PROVE  /\ txs \in [TaskIds -> Tasks] /\ Len(txs) = NumTasks /\ NumTasks \in Nat
         /\ \A t \in TaskIds :
              \/ txs[t].op = "OP_NONE" /\ txs[t].key = 0
              \/ txs[t].op \in {"OP_INSERT", "OP_DELETE"} /\ txs[t].key \in Keys
<1>1. txs \in [1..NumTasks -> Tasks] BY WorkloadsAssumption
<1>2. Len(txs) = NumTasks BY <1>1, NumTasksAssumption
<1>3. \A t \in TaskIds : txs[t] \in Tasks BY <1>1 DEF TaskIds
<1>4. \A t \in TaskIds :
              \/ txs[t].op = "OP_NONE" /\ txs[t].key = 0
              \/ txs[t].op \in {"OP_INSERT", "OP_DELETE"} /\ txs[t].key \in Keys
  BY <1>3 DEF Tasks
<1> QED BY <1>1, <1>2, <1>4, NumTasksAssumption DEF TaskIds

\* Version t differs from version t - 1 in the key of task t alone.
LEMMA ExpectedIs ==
  ASSUME txs \in Workloads
  PROVE  /\ Expected[0] = Contents0 /\ \A v \in 0..NumTasks : Expected[v] \in Counts /\ Expected[v] = M!Replay(txs, v)
         /\ \A t \in TaskIds :
              /\ t \in 0..NumTasks /\ t - 1 \in 0..NumTasks
              /\ txs[t].op = "OP_NONE" => Expected[t] = Expected[t-1]
              /\ txs[t].op # "OP_NONE" => Differ(Expected[t-1], Expected[t], txs[t].key)
              /\ txs[t].op = "OP_INSERT" => Expected[t][txs[t].key] = Expected[t-1][txs[t].key] + 1
              /\ txs[t].op = "OP_DELETE" =>
                   Expected[t][txs[t].key] = IF Expected[t-1][txs[t].key] > 0 THEN Expected[t-1][txs[t].key] - 1 ELSE 0
<1>1. /\ NumTasks \in Nat /\ Len(txs) = NumTasks
      /\ \A t \in TaskIds :
              \/ txs[t].op = "OP_NONE" /\ txs[t].key = 0
              \/ txs[t].op \in {"OP_INSERT", "OP_DELETE"} /\ txs[t].key \in Keys
  BY TasksAre
<1>2. M!Replay(txs, 0) = Contents0 /\ \A t \in TaskIds : M!Replay(txs, t) = M!Apply(M!Replay(txs, t-1), txs[t])
  BY <1>1, ReplayReturns DEF TaskIds
<1>3. \A t \in TaskIds : t \in Nat /\ t \in 0..NumTasks /\ t - 1 \in 0..NumTasks BY <1>1 DEF TaskIds
<1>4. \A v \in 0..NumTasks : Expected[v] = M!Replay(txs, v) BY DEF Expected
<1>5. \A t \in TaskIds : Expected[t] = M!Apply(Expected[t-1], txs[t]) BY <1>2, <1>3, <1>4
<1>6. ASSUME NEW t \in TaskIds, Expected[t-1] \in Counts
      PROVE  /\ Expected[t] \in Counts
             /\ txs[t].op = "OP_NONE" => Expected[t] = Expected[t-1]
             /\ txs[t].op # "OP_NONE" => Differ(Expected[t-1], Expected[t], txs[t].key)
             /\ txs[t].op = "OP_INSERT" => Expected[t][txs[t].key] = Expected[t-1][txs[t].key] + 1
             /\ txs[t].op = "OP_DELETE" =>
                  Expected[t][txs[t].key] = IF Expected[t-1][txs[t].key] > 0 THEN Expected[t-1][txs[t].key] - 1 ELSE 0
  <2> DEFINE c == Expected[t-1]  k == txs[t].key
  <2>1. Expected[t] = M!Apply(c, txs[t]) /\ c \in Counts BY <1>5, <1>6
  <2> HIDE DEF c
  <2>2. CASE txs[t].op = "OP_NONE" BY <2>1, <2>2 DEF M!Apply, c
  <2>3. CASE txs[t].op = "OP_INSERT"
    <3>1. Expected[t] = [c EXCEPT ![k] = c[k] + 1] BY <2>1, <2>3 DEF M!Apply
    <3>2. k \in Keys BY <1>1, <2>3
    <3> HIDE DEF k
    <3> QED BY <2>1, <2>3, <3>1, <3>2 DEF Counts, Differ, c, k
  <2>4. CASE txs[t].op = "OP_DELETE"
    <3>1. k \in Keys BY <1>1, <2>4
    <3>2. CASE c[k] > 0
      <4>1. Expected[t] = [c EXCEPT ![k] = c[k] - 1] BY <2>1, <2>4, <3>2 DEF M!Apply
      <4> HIDE DEF k
      <4> QED BY <2>1, <2>4, <3>1, <3>2, <4>1 DEF Counts, Differ, c, k
    <3>3. CASE ~(c[k] > 0)
      <4>1. Expected[t] = c BY <2>1, <2>4, <3>3 DEF M!Apply
      <4> HIDE DEF k
      <4>2. c[k] = 0 BY <2>1, <3>1, <3>3 DEF Counts
      <4> QED BY <2>1, <2>4, <3>1, <3>3, <4>1, <4>2 DEF Counts, Differ, c, k
    <3> QED BY <3>2, <3>3
  <2> QED BY <1>1, <2>2, <2>3, <2>4
<1>7. Expected[0] = Contents0 /\ Contents0 \in Counts BY <1>1, <1>2, <1>4, Contents0Assumption DEF Counts
<1>8. \A v \in Nat : v \in 0..NumTasks => Expected[v] \in Counts
  <2> DEFINE T == {v \in Nat : v \in 0..NumTasks => Expected[v] \in Counts}
  <2>1. 0 \in T BY <1>7
  <2>2. ASSUME NEW v \in Nat, v \in T PROVE v + 1 \in T
    <3> SUFFICES ASSUME v + 1 \in 0..NumTasks PROVE Expected[v+1] \in Counts OBVIOUS
    <3>1. v + 1 \in TaskIds /\ v \in 0..NumTasks /\ v + 1 - 1 = v BY <1>1 DEF TaskIds
    <3>2. Expected[v] \in Counts BY <2>2, <3>1
    <3> QED BY <1>6, <3>1, <3>2
  <2> HIDE DEF T
  <2>3. \A v \in Nat : v \in T BY <2>1, <2>2, SetInduction
  <2> QED BY <2>3 DEF T
<1> QED BY <1>1, <1>3, <1>4, <1>6, <1>7, <1>8
-----------------------------------------------------------------------------
(* The treap while it is made.  E[v] is what version v is to hold, n is     *)
(* num_committed, h the heap, c the contexts and p the tasks issued.  What  *)
(* a pointer of version v may lead to are nodes of versions up to v, and    *)
(* of committed ones only where a task walks down without waiting.          *)
Dom(h, v) == {x \in DOMAIN h : Ver(x) <= v}
Com(h, n, v) == {x \in DOMAIN h : Ver(x) <= n /\ Ver(x) <= v}

\* p is finished, or lies on the same path in its own version as in version v.
Synced(E, n, v, p) ==
  p # nullptr => Ver(p) <= n \/ Ancestors(E[Ver(p)], Key(p)) = Ancestors(E[v], Key(p))

\* Unfinished, of the contexts c.
Open(c, x) == \E u \in TaskIds : c[u].st = "ST_RUNNING" /\ c[u].t_cur = x

\* r is what the heap is to keep at x, where open tells that its children are
\* still to be set.
GoodNode(E, n, h, x, r, open) ==
  /\ IsNode(r) /\ r.val = E[Ver(x)][Key(x)] /\ r.val > 0
  /\ open => r.lch = nullptr /\ r.rch = nullptr
  /\ ~open => /\ NodeIs(Dom(h, Ver(x)), E, x, r)
              /\ Synced(E, n, Ver(x), r.lch) /\ Synced(E, n, Ver(x), r.rch)

IsContext(c) ==
  c = [st |-> c.st, op |-> c.op, key |-> c.key, fn |-> c.fn, dir |-> c.dir, t_cur |-> c.t_cur,
       t_past |-> c.t_past, t_l |-> c.t_l, t_r |-> c.t_r, root |-> c.root]

\* The update c that task t is to make.
Change(E, t, c) ==
  /\ t \in TaskIds /\ c.key \in Keys
  /\ E[t-1] \in Counts /\ E[t] \in Counts /\ Differ(E[t-1], E[t], c.key)
  /\ \/ c.op = "OP_INSERT" /\ E[t][c.key] = E[t-1][c.key] + 1
     \/ c.op = "OP_DELETE" /\ E[t][c.key] = IF E[t-1][c.key] > 0 THEN E[t-1][c.key] - 1 ELSE 0

\* The task has come to the subtree of version t between lo and hi, and t_cur
\* is to be the root of it.
Place(E, t, c, lo, hi) ==
  /\ lo < c.key /\ c.key < hi /\ Fenced(E[t], lo, hi)
  /\ c.t_cur \in {t} \X Keys /\ Leads(Key(c.t_cur), Inside(E[t], lo, hi))

\* It copies t_past, the same subtree of the version before.
SearchAt(E, n, h, t, c, lo, hi) ==
  /\ Fenced(E[t-1], lo, hi)
  /\ c.t_past # nullptr /\ Key(c.t_past) = Key(c.t_cur) /\ Synced(E, n, t-1, c.t_past)
  /\ Holds(Dom(h, t-1), E, c.t_past, E[t-1], Inside(E[t-1], lo, hi))
  /\ \/ /\ c.fn = "FN_SEARCH" /\ Hash[c.key] < Hash[Key(c.t_cur)]
        /\ c.dir = IF c.key < Key(c.t_cur) THEN "DIR_LEFT" ELSE "DIR_RIGHT"
     \/ c.fn = "FN_SETREF" /\ c.key = Key(c.t_cur)

\* It concatenates what the version before has on the two sides of the key.
ConcatAt(E, n, h, t, c, lo, hi) ==
  /\ c.fn = "FN_CONCAT" /\ E[t][c.key] = 0
  /\ Fenced(E[t-1], lo, c.key) /\ Fenced(E[t-1], c.key, hi)
  /\ c.t_past \in Com(h, n, t-1) /\ c.t_l # nullptr /\ c.t_r # nullptr
  /\ Holds(Com(h, n, t-1), E, c.t_l, E[t-1], Inside(E[t-1], lo, c.key))
  /\ Holds(Com(h, n, t-1), E, c.t_r, E[t-1], Inside(E[t-1], c.key, hi))
  /\ \/ Above(c.t_l, c.t_r) /\ c.dir = "DIR_RIGHT" /\ Key(c.t_cur) = Key(c.t_l)
     \/ ~Above(c.t_l, c.t_r) /\ c.dir = "DIR_LEFT" /\ Key(c.t_cur) = Key(c.t_r)

TaskAt(E, n, h, t, c, lo, hi) ==
  /\ Change(E, t, c) /\ Place(E, t, c, lo, hi)
  /\ SearchAt(E, n, h, t, c, lo, hi) \/ ConcatAt(E, n, h, t, c, lo, hi)

NodesInv(E, n, h, c, p) ==
  /\ DOMAIN h \subseteq (0..p) \X Keys
  /\ \A x \in DOMAIN h : GoodNode(E, n, h, x, h[x], Open(c, x))
RootsInv(E, n, h, c, p) ==
  \A v \in 0..p : Holds(Dom(h, v), E, c[v].root, E[v], Present(E[v])) /\ Synced(E, n, v, c[v].root)
ContextsInv(c, p) ==
  /\ DOMAIN c = 0..NumTasks /\ \A t \in 0..NumTasks : IsContext(c[t]) /\ c[t].st \in {"ST_RUNNING", "ST_DONE"}
  /\ \A t \in TaskIds : t > p => c[t] = Context
TasksInv(E, n, h, c, p) ==
  \A t \in 1..p : c[t].st = "ST_RUNNING" => \E lo, hi : TaskAt(E, n, h, t, c[t], lo, hi)
TreeInv(E, n, h, c, p) ==
  NodesInv(E, n, h, c, p) /\ RootsInv(E, n, h, c, p) /\ ContextsInv(c, p) /\ TasksInv(E, n, h, c, p)

\* Pointers of the heap are pairs of a version and a key; the null pointer is none.
LEMMA HeapFacts ==
  ASSUME NEW h, DOMAIN h \subseteq Nat \X Keys
  PROVE  /\ nullptr \notin DOMAIN h
         /\ \A x \in DOMAIN h : Ver(x) \in Nat /\ Key(x) \in Keys /\ x = <<Ver(x), Key(x)>>
BY NullAssumption DEF Ver, Key

\* What holds of a version keeps holding when nodes are added and versions are
\* committed.
LEMMA DomMore ==
  ASSUME NEW h, NEW h2, DOMAIN h \subseteq DOMAIN h2, DOMAIN h \subseteq Nat \X Keys,
         NEW n \in Nat, NEW n2 \in Nat, n <= n2, NEW v
  PROVE  /\ Dom(h, v) \subseteq Dom(h2, v) /\ Com(h, n, v) \subseteq Com(h2, n2, v)
         /\ Com(h, n, v) \subseteq Dom(h, v) /\ Dom(h, v) \subseteq DOMAIN h
<1>1. \A x \in DOMAIN h : Ver(x) \in Nat BY HeapFacts
<1> QED BY <1>1 DEF Dom, Com

\* A commit keeps pointers synced.
LEMMA SyncedMore ==
  ASSUME NEW E, NEW n \in Nat, NEW n2 \in Nat, n <= n2, NEW v, NEW p, p # nullptr => Ver(p) \in Nat, Synced(E, n, v, p)
  PROVE  Synced(E, n2, v, p)
BY DEF Synced

\* A node stays good when nodes are added and versions are committed.
LEMMA GoodNodeMore ==
  ASSUME NEW E, NEW h, NEW h2, DOMAIN h \subseteq DOMAIN h2, DOMAIN h \subseteq Nat \X Keys,
         NEW n \in Nat, NEW n2 \in Nat, n <= n2, NEW x, NEW r, NEW open \in BOOLEAN, GoodNode(E, n, h, x, r, open)
  PROVE  GoodNode(E, n2, h2, x, r, open)
<1>1. CASE open BY <1>1 DEF GoodNode
<1>2. CASE ~open
  <2>1. Dom(h, Ver(x)) \subseteq Dom(h2, Ver(x)) /\ Dom(h, Ver(x)) \subseteq DOMAIN h BY DomMore
  <2>2. NodeIs(Dom(h, Ver(x)), E, x, r) BY <1>2 DEF GoodNode
  <2>3. NodeIs(Dom(h2, Ver(x)), E, x, r) BY <2>1, <2>2, NodeMore
  <2>4. \A y \in DOMAIN h : Ver(y) \in Nat BY HeapFacts
  <2>5. /\ r.lch # nullptr => r.lch \in DOMAIN h
        /\ r.rch # nullptr => r.rch \in DOMAIN h
    BY <2>1, <2>2 DEF NodeIs, Holds
  <2>6. Synced(E, n2, Ver(x), r.lch) BY <1>2, <2>4, <2>5, SyncedMore DEF GoodNode
  <2>7. Synced(E, n2, Ver(x), r.rch) BY <1>2, <2>4, <2>5, SyncedMore DEF GoodNode
  <2> QED BY <1>2, <2>3, <2>6, <2>7 DEF GoodNode
<1> QED BY <1>1, <1>2

\* So does a pointer a version holds.
LEMMA RootMore ==
  ASSUME NEW E, NEW h, NEW h2, DOMAIN h \subseteq DOMAIN h2, DOMAIN h \subseteq Nat \X Keys,
         NEW n \in Nat, NEW n2 \in Nat, n <= n2, NEW v, NEW w, NEW p, NEW c, NEW S,
         Holds(Dom(h, v), E, p, c, S), Synced(E, n, w, p)
  PROVE  Holds(Dom(h2, v), E, p, c, S) /\ Synced(E, n2, w, p)
<1>1. Dom(h, v) \subseteq Dom(h2, v) /\ Dom(h, v) \subseteq DOMAIN h BY DomMore
<1>2. Holds(Dom(h2, v), E, p, c, S) BY <1>1, HoldsMore
<1>3. p # nullptr => Ver(p) \in Nat BY <1>1, HeapFacts DEF Holds
<1>4. Synced(E, n2, w, p) BY <1>3, SyncedMore
<1> QED BY <1>2, <1>4

\* So does the place a task has come to.
LEMMA TaskAtMore ==
  ASSUME NEW E, NEW h, NEW h2, DOMAIN h \subseteq DOMAIN h2, DOMAIN h \subseteq Nat \X Keys,
         NEW n \in Nat, NEW n2 \in Nat, n <= n2, NEW t, NEW c, NEW lo, NEW hi, TaskAt(E, n, h, t, c, lo, hi)
  PROVE  TaskAt(E, n2, h2, t, c, lo, hi)
<1>1. CASE SearchAt(E, n, h, t, c, lo, hi)
  <2>1. /\ Holds(Dom(h, t-1), E, c.t_past, E[t-1], Inside(E[t-1], lo, hi))
        /\ Synced(E, n, t-1, c.t_past)
    BY <1>1 DEF SearchAt
  <2>2. /\ Holds(Dom(h2, t-1), E, c.t_past, E[t-1], Inside(E[t-1], lo, hi))
        /\ Synced(E, n2, t-1, c.t_past)
    BY <2>1, RootMore
  <2>3. SearchAt(E, n2, h2, t, c, lo, hi) BY <1>1, <2>2 DEF SearchAt
  <2> QED BY <2>3 DEF TaskAt
<1>2. CASE ConcatAt(E, n, h, t, c, lo, hi)
  <2>1. Com(h, n, t-1) \subseteq Com(h2, n2, t-1) BY DomMore
  <2>2. /\ Holds(Com(h2, n2, t-1), E, c.t_l, E[t-1], Inside(E[t-1], lo, c.key))
        /\ Holds(Com(h2, n2, t-1), E, c.t_r, E[t-1], Inside(E[t-1], c.key, hi))
    BY <1>2, <2>1, HoldsMore DEF ConcatAt
  <2>3. ConcatAt(E, n2, h2, t, c, lo, hi) BY <1>2, <2>1, <2>2 DEF ConcatAt
  <2> QED BY <2>3 DEF TaskAt
<1> QED BY <1>1, <1>2 DEF TaskAt

\* What a step of task t leaves: the heap h2 and the context d.
Lands(E, n, h, h2, t, d) ==
  /\ DOMAIN h \subseteq DOMAIN h2 /\ DOMAIN h2 \subseteq DOMAIN h \cup {t} \X Keys
  /\ \A z \in DOMAIN h : Ver(z) # t => h2[z] = h[z]
  /\ IsContext(d) /\ d.st \in {"ST_RUNNING", "ST_DONE"}
  /\ \A z \in DOMAIN h2 : Ver(z) = t => GoodNode(E, n, h2, z, h2[z], d.st = "ST_RUNNING" /\ d.t_cur = z)
  /\ d.st = "ST_RUNNING" => \E lo, hi : TaskAt(E, n, h2, t, d, lo, hi)
  /\ Holds(Dom(h2, t), E, d.root, E[t], Present(E[t])) /\ Synced(E, n, t, d.root)

\* A step of task t, or the step that issues it.
StepOf(E, n, h, h2, c, c2, p, p2, t) ==
  /\ n \in Nat /\ p \in Nat /\ p2 \in Nat /\ t \in TaskIds /\ p2 <= NumTasks
  /\ TreeInv(E, n, h, c, p)
  /\ ((p2 = p /\ t \in 1..p) \/ (p2 = p + 1 /\ t = p + 1))
  /\ DOMAIN c2 = 0..NumTasks /\ \A u \in 0..NumTasks : u # t => c2[u] = c[u]
  /\ Lands(E, n, h, h2, t, c2[t])

\* A step that lands keeps TreeInv: it only writes nodes of its own version.
LEMMA TreeStepIn ==
  ASSUME NEW E, NEW n, NEW h, NEW h2, NEW c, NEW c2, NEW p, NEW p2, NEW t, StepOf(E, n, h, h2, c, c2, p, p2, t)
  PROVE  TreeInv(E, n, h2, c2, p2)
<1>01. Lands(E, n, h, h2, t, c2[t]) BY DEF StepOf
<1>0. /\ DOMAIN h \subseteq DOMAIN h2 /\ DOMAIN h2 \subseteq DOMAIN h \cup {t} \X Keys
      /\ \A x \in DOMAIN h : Ver(x) # t => h2[x] = h[x]
      /\ IsContext(c2[t]) /\ c2[t].st \in {"ST_RUNNING", "ST_DONE"}
      /\ \A x \in DOMAIN h2 : Ver(x) = t => GoodNode(E, n, h2, x, h2[x], c2[t].st = "ST_RUNNING" /\ c2[t].t_cur = x)
      /\ c2[t].st = "ST_RUNNING" => \E lo, hi : TaskAt(E, n, h2, t, c2[t], lo, hi)
      /\ Holds(Dom(h2, t), E, c2[t].root, E[t], Present(E[t])) /\ Synced(E, n, t, c2[t].root)
  BY <1>01 DEF Lands
<1>00. /\ n \in Nat /\ p \in Nat /\ p2 \in Nat /\ t \in TaskIds /\ p2 <= NumTasks
      /\ TreeInv(E, n, h, c, p)
      /\ ((p2 = p /\ t \in 1..p) \/ (p2 = p + 1 /\ t = p + 1))
      /\ DOMAIN c2 = 0..NumTasks /\ \A u \in 0..NumTasks : u # t => c2[u] = c[u]
  BY DEF StepOf
<1> USE <1>0, <1>00
<1>1. /\ NumTasks \in Nat /\ t \in Nat /\ t <= p2 /\ p <= p2 /\ 1 <= t
      /\ \A u \in TaskIds : u \in 0..NumTasks
  BY NumTasksAssumption DEF TaskIds
<1>2. DOMAIN h \subseteq Nat \X Keys /\ DOMAIN h \subseteq (0..p) \X Keys BY DEF TreeInv, NodesInv
<1>3. DOMAIN h2 \subseteq (0..p2) \X Keys /\ DOMAIN h2 \subseteq Nat \X Keys BY <1>1, <1>2
<1>4. \A x \in {t} \X Keys : Ver(x) = t BY DEF Ver
\* Only the task of its version leaves a node open.
<1>5. \A u \in TaskIds, x \in DOMAIN h2 : c2[u].st = "ST_RUNNING" /\ c2[u].t_cur = x => Ver(x) = u
  <2> SUFFICES ASSUME NEW u \in TaskIds, NEW x \in DOMAIN h2, c2[u].st = "ST_RUNNING", c2[u].t_cur = x
               PROVE  Ver(x) = u
    OBVIOUS
  <2>1. CASE u = t
    <3>1. PICK lo, hi : TaskAt(E, n, h2, t, c2[t], lo, hi) BY <2>1
    <3> QED BY <2>1, <3>1, <1>4 DEF TaskAt, Place
  <2>2. CASE u # t /\ u <= p
    <3>1. u \in 1..p /\ c2[u] = c[u] BY <1>1, <2>2 DEF TaskIds
    <3>2. PICK lo, hi : TaskAt(E, n, h, u, c[u], lo, hi) BY <3>1 DEF TreeInv, TasksInv
    <3>3. \A y \in {u} \X Keys : Ver(y) = u BY DEF Ver
    <3> QED BY <3>1, <3>2, <3>3 DEF TaskAt, Place
  <2>3. CASE u # t /\ u > p
    <3>1. c2[u] = Context BY <1>1, <2>3 DEF TreeInv, ContextsInv
    <3>2. x = nullptr BY <3>1 DEF Context
    <3> QED BY <3>2, <1>3, HeapFacts
  <2> QED BY <1>1, <2>1, <2>2, <2>3 DEF TaskIds
<1>6. \A x \in DOMAIN h2 : Ver(x) = t => Open(c2, x) = (c2[t].st = "ST_RUNNING" /\ c2[t].t_cur = x)
  <2> SUFFICES ASSUME NEW x \in DOMAIN h2, Ver(x) = t
               PROVE  (\E u \in TaskIds : c2[u].st = "ST_RUNNING" /\ c2[u].t_cur = x) <=> c2[t].st = "ST_RUNNING" /\ c2[t].t_cur = x
    BY DEF Open
  <2> QED BY <1>5
<1>7. \A x \in DOMAIN h : Ver(x) # t => Open(c2, x) = Open(c, x)
  <2> SUFFICES ASSUME NEW x \in DOMAIN h, Ver(x) # t PROVE Open(c2, x) <=> Open(c, x)
    BY DEF Open
  <2>1. ASSUME Open(c2, x) PROVE Open(c, x)
    <3>1. PICK u \in TaskIds : c2[u].st = "ST_RUNNING" /\ c2[u].t_cur = x BY <2>1 DEF Open
    <3>2. u # t BY <1>5, <3>1
    <3> QED BY <1>1, <3>1, <3>2 DEF Open
  <2>2. ASSUME Open(c, x) PROVE Open(c2, x)
    <3>1. PICK u \in TaskIds : c[u].st = "ST_RUNNING" /\ c[u].t_cur = x BY <2>2 DEF Open
    <3>2. CASE u # t BY <1>1, <3>1, <3>2 DEF Open
    <3>3. CASE u = t /\ p2 = p
      <4>1. t \in 1..p BY <3>3, <1>1
      <4>2. PICK lo, hi : TaskAt(E, n, h, t, c[t], lo, hi) BY <3>1, <3>3, <4>1 DEF TreeInv, TasksInv
      <4> QED BY <3>1, <3>3, <4>2, <1>4 DEF TaskAt, Place
    <3>4. CASE u = t /\ p2 # p
      <4>1. t > p BY <3>4
      <4>2. c[t] = Context BY <4>1 DEF TreeInv, ContextsInv
      <4>3. x = nullptr BY <3>1, <3>4, <4>2 DEF Context
      <4> QED BY <4>3, <1>2, HeapFacts
    <3> QED BY <3>2, <3>3, <3>4
  <2> QED BY <2>1, <2>2
<1>8. NodesInv(E, n, h2, c2, p2)
  <2> SUFFICES ASSUME NEW x \in DOMAIN h2 PROVE GoodNode(E, n, h2, x, h2[x], Open(c2, x))
    BY <1>3 DEF NodesInv
  <2>1. CASE Ver(x) = t BY <1>6, <2>1
  <2>2. CASE Ver(x) # t
    <3>1. x \in DOMAIN h /\ h2[x] = h[x] /\ Open(c2, x) = Open(c, x) BY <1>4, <1>7, <2>2
    <3>2. GoodNode(E, n, h, x, h[x], Open(c, x)) BY <3>1 DEF TreeInv, NodesInv
    <3>3. Open(c, x) \in BOOLEAN BY DEF Open
    <3> QED BY <1>2, <3>1, <3>2, <3>3, GoodNodeMore
  <2> QED BY <2>1, <2>2
<1>9. RootsInv(E, n, h2, c2, p2)
  <2> SUFFICES ASSUME NEW v \in 0..p2, v # t
               PROVE  Holds(Dom(h2, v), E, c2[v].root, E[v], Present(E[v])) /\ Synced(E, n, v, c2[v].root)
    BY DEF RootsInv
  <2>1. v \in 0..p /\ v \in 0..NumTasks BY <1>1
  <2>2. c2[v] = c[v] BY <2>1
  <2>3. Holds(Dom(h, v), E, c[v].root, E[v], Present(E[v])) /\ Synced(E, n, v, c[v].root)
    BY <2>1 DEF TreeInv, RootsInv
  <2> QED BY <1>2, <2>2, <2>3, RootMore
<1>10. ContextsInv(c2, p2)
  <2>1. \A u \in 0..NumTasks : IsContext(c2[u]) /\ c2[u].st \in {"ST_RUNNING", "ST_DONE"}
    BY DEF TreeInv, ContextsInv
  <2>2. \A u \in TaskIds : u > p2 => u # t /\ u > p BY <1>1 DEF TaskIds
  <2> QED BY <1>1, <2>1, <2>2 DEF TreeInv, ContextsInv
<1>11. TasksInv(E, n, h2, c2, p2)
  <2> SUFFICES ASSUME NEW u \in 1..p2, u # t, c2[u].st = "ST_RUNNING"
               PROVE  \E lo, hi : TaskAt(E, n, h2, u, c2[u], lo, hi)
    BY DEF TasksInv
  <2>1. u \in 1..p /\ u \in 0..NumTasks BY <1>1
  <2>2. c2[u] = c[u] BY <2>1
  <2>3. PICK lo, hi : TaskAt(E, n, h, u, c[u], lo, hi) BY <2>1, <2>2 DEF TreeInv, TasksInv
  <2>4. TaskAt(E, n, h2, u, c[u], lo, hi) BY <1>2, <2>3, TaskAtMore
  <2> QED BY <2>2, <2>4
<1> QED BY <1>8, <1>9, <1>10, <1>11 DEF TreeInv

\* The same, conjunct by conjunct.
LEMMA TreeStep ==
  ASSUME NEW E, NEW n \in Nat, NEW h, NEW h2, NEW c, NEW c2, NEW p \in Nat, NEW p2 \in Nat, TreeInv(E, n, h, c, p),
         NEW t \in TaskIds, (p2 = p /\ t \in 1..p) \/ (p2 = p + 1 /\ t = p + 1),
         DOMAIN h \subseteq DOMAIN h2, DOMAIN h2 \subseteq DOMAIN h \cup {t} \X Keys,
         \A x \in DOMAIN h : Ver(x) # t => h2[x] = h[x],
         DOMAIN c2 = 0..NumTasks, \A u \in 0..NumTasks : u # t => c2[u] = c[u],
         IsContext(c2[t]), c2[t].st \in {"ST_RUNNING", "ST_DONE"},
         \A x \in DOMAIN h2 : Ver(x) = t =>
            GoodNode(E, n, h2, x, h2[x], c2[t].st = "ST_RUNNING" /\ c2[t].t_cur = x),
         c2[t].st = "ST_RUNNING" => \E lo, hi : TaskAt(E, n, h2, t, c2[t], lo, hi),
         Holds(Dom(h2, t), E, c2[t].root, E[t], Present(E[t])), Synced(E, n, t, c2[t].root),
         p2 <= NumTasks
  PROVE  TreeInv(E, n, h2, c2, p2)
<1>1. Lands(E, n, h, h2, t, c2[t]) BY DEF Lands
<1>2. StepOf(E, n, h, h2, c, c2, p, p2, t) BY <1>1 DEF StepOf
<1> QED BY <1>2, TreeStepIn

\* The step that issues task t lands.
LEMMA TreeLands ==
  ASSUME NEW E, NEW n \in Nat, NEW h, NEW h2, NEW c, NEW p \in Nat, TreeInv(E, n, h, c, p), NEW t \in TaskIds, NEW d,
         t = p + 1, Lands(E, n, h, h2, t, d)
  PROVE  TreeInv(E, n, h2, [c EXCEPT ![t] = d], t)
<1> SUFFICES ASSUME NEW c2, c2 = [c EXCEPT ![t] = d] PROVE TreeInv(E, n, h2, c2, t) OBVIOUS
<1>1. DOMAIN c = 0..NumTasks /\ t \in 0..NumTasks /\ t \in Nat /\ t <= NumTasks
  BY NumTasksAssumption DEF TreeInv, ContextsInv, TaskIds
<1>2. c2[t] = d /\ DOMAIN c2 = 0..NumTasks /\ \A u \in 0..NumTasks : u # t => c2[u] = c[u] BY <1>1
<1>3. Lands(E, n, h, h2, t, c2[t]) BY <1>2
<1>4. StepOf(E, n, h, h2, c, c2, p, t, t) BY <1>1, <1>2, <1>3 DEF StepOf
<1> QED BY <1>4, TreeStepIn

\* Versions are committed.
LEMMA TreeCommit ==
  ASSUME NEW E, NEW n \in Nat, NEW n2 \in Nat, n <= n2, NEW h, NEW c, NEW p \in Nat, TreeInv(E, n, h, c, p)
  PROVE  TreeInv(E, n2, h, c, p)
<1>1. DOMAIN h \subseteq Nat \X Keys BY DEF TreeInv, NodesInv
<1>2. NodesInv(E, n2, h, c, p)
  <2>1. \A x \in DOMAIN h : GoodNode(E, n, h, x, h[x], Open(c, x)) /\ Open(c, x) \in BOOLEAN
    BY DEF TreeInv, NodesInv, Open
  <2>2. \A x \in DOMAIN h : GoodNode(E, n2, h, x, h[x], Open(c, x)) BY <1>1, <2>1, GoodNodeMore
  <2> QED BY <2>2 DEF TreeInv, NodesInv
<1>3. RootsInv(E, n2, h, c, p) BY <1>1, RootMore DEF TreeInv, RootsInv
<1>4. TasksInv(E, n2, h, c, p)
  <2> SUFFICES ASSUME NEW t \in 1..p, c[t].st = "ST_RUNNING" PROVE \E lo, hi : TaskAt(E, n2, h, t, c[t], lo, hi)
    BY DEF TasksInv
  <2>1. PICK lo, hi : TaskAt(E, n, h, t, c[t], lo, hi) BY DEF TreeInv, TasksInv
  <2>2. TaskAt(E, n2, h, t, c[t], lo, hi) BY <1>1, <2>1, TaskAtMore
  <2> QED BY <2>2
<1> QED BY <1>2, <1>3, <1>4 DEF TreeInv

\* Only sums are stored.
LEMMA TreeAugment ==
  ASSUME NEW E, NEW n \in Nat, NEW h, NEW h2, NEW c, NEW p \in Nat, TreeInv(E, n, h, c, p), DOMAIN h2 = DOMAIN h,
         \A x \in DOMAIN h : IsNode(h2[x]) /\ h2[x].val = h[x].val /\ h2[x].lch = h[x].lch /\ h2[x].rch = h[x].rch
  PROVE  TreeInv(E, n, h2, c, p)
<1>1. \A v : Dom(h2, v) = Dom(h, v) /\ Com(h2, n, v) = Com(h, n, v) BY DEF Dom, Com
<1>2. NodesInv(E, n, h2, c, p)
  <2> SUFFICES ASSUME NEW x \in DOMAIN h PROVE GoodNode(E, n, h2, x, h2[x], Open(c, x))
    BY DEF TreeInv, NodesInv
  <2>1. GoodNode(E, n, h, x, h[x], Open(c, x)) BY DEF TreeInv, NodesInv
  <2>2. ~Open(c, x) => NodeIs(Dom(h2, Ver(x)), E, x, h2[x])
    <3> SUFFICES ASSUME ~Open(c, x) PROVE NodeIs(Dom(h, Ver(x)), E, x, h2[x]) BY <1>1
    <3>1. NodeIs(Dom(h, Ver(x)), E, x, h[x]) BY <2>1 DEF GoodNode
    <3> QED BY <3>1 DEF NodeIs
  <2> QED BY <2>1, <2>2 DEF GoodNode
<1>3. RootsInv(E, n, h2, c, p) BY <1>1 DEF TreeInv, RootsInv
<1>4. TasksInv(E, n, h2, c, p)
  <2> SUFFICES ASSUME NEW t \in 1..p, c[t].st = "ST_RUNNING" PROVE \E lo, hi : TaskAt(E, n, h2, t, c[t], lo, hi)
    BY DEF TasksInv
  <2>1. PICK lo, hi : TaskAt(E, n, h, t, c[t], lo, hi) BY DEF TreeInv, TasksInv
  <2>2. TaskAt(E, n, h2, t, c[t], lo, hi) BY <1>1, <2>1 DEF TaskAt, SearchAt, ConcatAt
  <2> QED BY <2>2
<1> QED BY <1>2, <1>3, <1>4 DEF TreeInv

\* Priorities fall on every way down.
LEMMA TreeOrdered ==
  ASSUME NEW E, NEW n, NEW h, NEW c, NEW p \in Nat, TreeInv(E, n, h, c, p), \A v \in 0..p : E[v] \in Counts
  PROVE  HeapOrdered(h)
<1>1. DOMAIN h \subseteq Nat \X Keys /\ DOMAIN h \subseteq (0..p) \X Keys BY DEF TreeInv, NodesInv
<1> SUFFICES ASSUME NEW x \in DOMAIN h, NEW u \in {h[x].lch, h[x].rch}, u # nullptr
             PROVE  u \in DOMAIN h /\ Pry(u) < Pry(x)
  BY <1>1 DEF HeapOrdered, Pointers
<1>2. GoodNode(E, n, h, x, h[x], Open(c, x)) BY DEF TreeInv, NodesInv
<1>3. NodeIs(Dom(h, Ver(x)), E, x, h[x]) BY <1>2 DEF GoodNode
<1> DEFINE k == Key(x)  S == SubKeys(E[Ver(x)], k)
<1>4. k \in Keys /\ Ver(x) \in 0..p BY <1>1 DEF Ver, Key
<1>5. \/ Holds(Dom(h, Ver(x)), E, u, E[Ver(x)], {j \in S : j < k})
      \/ Holds(Dom(h, Ver(x)), E, u, E[Ver(x)], {j \in S : j > k})
  <2>1. /\ Holds(Dom(h, Ver(x)), E, h[x].lch, E[Ver(x)], {j \in S : j < k})
        /\ Holds(Dom(h, Ver(x)), E, h[x].rch, E[Ver(x)], {j \in S : j > k})
    BY <1>3, Zenon DEF NodeIs
  <2> HIDE DEF k, S
  <2> QED BY <2>1
<1>6. u \in Dom(h, Ver(x)) /\ Key(u) \in S /\ (Key(u) < k \/ Key(u) > k)
  <2> HIDE DEF k, S
  <2> QED BY <1>5 DEF Holds
<1>7. u \in DOMAIN h BY <1>6 DEF Dom
<1>8. Key(u) \in Keys /\ Key(u) # k
  <2>1. Key(u) \in Keys BY <1>6 DEF SubKeys
  <2> HIDE DEF S, k
  <2> QED BY <2>1, <1>4, <1>6, KeyFacts
<1>9. Hash[Key(u)] <= Hash[k]
  <2>1. Key(u) \in Between(Key(u), k) BY <1>4, <1>8, KeyFacts DEF Between
  <2> QED BY <1>6, <2>1 DEF SubKeys
<1>10. Hash[Key(u)] < Hash[k] BY <1>4, <1>8, <1>9, HashAssumption
<1> QED BY <1>7, <1>10 DEF Pry

\* The nodes of committed versions are finished, and so is whatever they lead to.
LEMMA ComFinished ==
  ASSUME NEW E, NEW n \in Nat, NEW h, NEW c, NEW p \in Nat, TreeInv(E, n, h, c, p), \A v \in 0..p : E[v] \in Counts,
         \A v \in TaskIds : v <= n => c[v].st # "ST_RUNNING", NEW v \in Int
  PROVE  Finished(h, Com(h, n, v), E)
<1>1. HeapOrdered(h) BY TreeOrdered
<1>2. Com(h, n, v) \subseteq DOMAIN h BY DEF Com
<1>3. ASSUME NEW x \in Com(h, n, v) PROVE NodeIs(Com(h, n, v), E, x, h[x])
  <2>1. x \in DOMAIN h /\ Ver(x) \in Nat /\ Ver(x) <= n /\ DOMAIN h \subseteq Nat \X Keys
    BY HeapFacts DEF Com, TreeInv, NodesInv
  <2>2. ~Open(c, x)
    <3> SUFFICES ASSUME NEW u \in TaskIds, c[u].st = "ST_RUNNING", c[u].t_cur = x PROVE FALSE BY DEF Open
    <3>1. CASE u > p
      <4>1. c[u] = Context BY <3>1 DEF TreeInv, ContextsInv
      <4>2. x = nullptr BY <4>1 DEF Context
      <4> QED BY <4>2, <2>1, HeapFacts
    <3>2. CASE ~(u > p)
      <4>1. u \in 1..p BY <3>2, NumTasksAssumption DEF TaskIds
      <4>2. PICK lo, hi : TaskAt(E, n, h, u, c[u], lo, hi) BY <4>1 DEF TreeInv, TasksInv
      <4>3. Ver(x) = u BY <4>2 DEF TaskAt, Place, Ver
      <4> QED BY <2>1, <4>3
    <3> QED BY <3>1, <3>2
  <2>3. NodeIs(Dom(h, Ver(x)), E, x, h[x])
    <3>1. GoodNode(E, n, h, x, h[x], Open(c, x)) BY <2>1 DEF TreeInv, NodesInv
    <3> QED BY <2>2, <3>1 DEF GoodNode
  <2>4. Dom(h, Ver(x)) \subseteq Com(h, n, v)
    <3> SUFFICES ASSUME NEW y \in Dom(h, Ver(x)) PROVE y \in Com(h, n, v) OBVIOUS
    <3>1. y \in DOMAIN h /\ Ver(y) <= Ver(x) /\ Ver(y) \in Nat BY <2>1, HeapFacts DEF Dom
    <3> QED BY <2>1, <3>1 DEF Com
  <2> QED BY <2>3, <2>4, NodeMore
<1> QED BY <1>1, <1>2, <1>3 DEF Finished
-----------------------------------------------------------------------------
(* What one call of concat_ or update_ makes: y is to be the subtree between *)
(* lo and hi of version t, all of it or down to a node that is left open.    *)
Outcome(E, n, h, t, y, lo, hi) ==
  /\ IsContext(y.c) /\ At(y.new) \subseteq {t} \X Keys
  /\ Holds(Dom(h, t) \cup At(y.new), E, y.ref, E[t], Inside(E[t], lo, hi)) /\ Synced(E, n, t, y.ref)
  /\ \/ y.c.st = "ST_DONE" /\ Makes(Com(h, n, t-1), E, t, y.new)
     \/ /\ y.c.st = "ST_RUNNING"
        /\ \E k \in Keys : y.ref = <<t, k>> /\ E[t][k] > 0 /\ y.new = {Node(<<t, k>>, E[t][k], nullptr, nullptr)}
        /\ TaskAt(E, n, h, t, [y.c EXCEPT !.t_cur = y.ref], lo, hi)

\* The null pointer holds the empty subtree.
LEMMA HeldNull == ASSUME NEW D, NEW cs, NEW c, NEW S, nullptr \notin D, Holds(D, cs, nullptr, c, S) PROVE S = {}
BY DEF Holds

\* The root of a held subtree is the key that leads it.
LEMMA HeldLeads ==
  ASSUME NEW D, NEW cs, NEW p, NEW c, NEW lo, NEW hi, p # nullptr, Holds(D, cs, p, c, Inside(c, lo, hi))
  PROVE  /\ p \in D /\ Leads(Key(p), Inside(c, lo, hi)) /\ cs[Ver(p)][Key(p)] = c[Key(p)]
         /\ Key(p) \in Keys /\ lo < Key(p) /\ Key(p) < hi /\ c[Key(p)] > 0 /\ Inside(c, lo, hi) # {}
<1> DEFINE S == Inside(c, lo, hi)
<1>1. p \in D /\ Key(p) \in S /\ SubKeys(cs[Ver(p)], Key(p)) = S /\ cs[Ver(p)][Key(p)] = c[Key(p)]
  <2> HIDE DEF S
  <2> QED BY DEF Holds, S
<1>2. Key(p) \in Keys /\ lo < Key(p) /\ Key(p) < hi /\ c[Key(p)] > 0 BY <1>1 DEF Inside
<1>3. \A j \in S : Hash[j] <= Hash[Key(p)]
  <2> SUFFICES ASSUME NEW j \in S PROVE Hash[j] <= Hash[Key(p)] OBVIOUS
  <2>1. j \in Keys BY DEF Inside
  <2>2. j \in Between(j, Key(p)) BY <1>2, <2>1, KeyFacts DEF Between
  <2>3. j \in SubKeys(cs[Ver(p)], Key(p)) BY <1>1
  <2>4. cs[Ver(p)][j] > 0 BY <2>3 DEF SubKeys
  <2> QED BY <2>2, <2>3, <2>4 DEF SubKeys
<1> QED BY <1>1, <1>2, <1>3 DEF Leads

\* What a subtree that is made at once needs.
LEMMA OutcomeDone ==
  ASSUME NEW E, NEW n \in Nat, NEW h, DOMAIN h \subseteq Nat \X Keys, NEW t \in Nat, NEW y, NEW lo, NEW hi,
         IsContext(y.c), y.c.st = "ST_DONE", Result(Com(h, n, t-1), E, t, y, E[t], lo, hi)
  PROVE  Outcome(E, n, h, t, y, lo, hi)
<1>1. Makes(Com(h, n, t-1), E, t, y.new) /\ Holds(Com(h, n, t-1) \cup At(y.new), E, y.ref, E[t], Inside(E[t], lo, hi))
  BY DEF Result
<1>2. At(y.new) \subseteq {t} \X Keys BY <1>1 DEF At, Makes
<1>3. \A x \in DOMAIN h : Ver(x) \in Nat BY HeapFacts
<1>4. Com(h, n, t-1) \subseteq Dom(h, t) BY <1>3 DEF Com, Dom
<1>5. Holds(Dom(h, t) \cup At(y.new), E, y.ref, E[t], Inside(E[t], lo, hi))
  <2>1. Com(h, n, t-1) \cup At(y.new) \subseteq Dom(h, t) \cup At(y.new) BY <1>4
  <2> QED BY <1>1, <2>1, HoldsMore
<1>6. Synced(E, n, t, y.ref)
  <2> SUFFICES ASSUME y.ref # nullptr, ~(Ver(y.ref) <= n) PROVE Ver(y.ref) = t BY DEF Synced
  <2>1. y.ref \in Com(h, n, t-1) \cup At(y.new) BY <1>1 DEF Holds
  <2>2. y.ref \in {t} \X Keys BY <1>2, <2>1 DEF Com
  <2> QED BY <2>2 DEF Ver
<1> QED BY <1>1, <1>2, <1>5, <1>6 DEF Outcome

\* What a subtree that is left open at its root needs.
LEMMA OutcomeOpen ==
  ASSUME NEW E, NEW n, NEW h, NEW t, NEW y, NEW lo, NEW hi, NEW k \in Keys, E[t] \in Counts, Fenced(E[t], lo, hi),
         Leads(k, Inside(E[t], lo, hi)),
         IsContext(y.c), y.c.st = "ST_RUNNING", y.ref = <<t, k>>, y.new = {Node(<<t, k>>, E[t][k], nullptr, nullptr)},
         TaskAt(E, n, h, t, [y.c EXCEPT !.t_cur = y.ref], lo, hi)
  PROVE  Outcome(E, n, h, t, y, lo, hi)
<1>1. At(y.new) = {<<t, k>>} BY PointerFacts DEF At
<1>2. E[t][k] > 0 BY DEF Leads, Inside
<1>3. SubKeys(E[t], k) = Inside(E[t], lo, hi) BY SubIsInside
<1>4. Ver(<<t, k>>) = t /\ Key(<<t, k>>) = k /\ <<t, k>> # nullptr
  <2>1. t \in Nat BY NumTasksAssumption DEF TaskAt, Change, TaskIds
  <2> QED BY <2>1, NullAssumption DEF Ver, Key
<1>5. Holds(Dom(h, t) \cup At(y.new), E, y.ref, E[t], Inside(E[t], lo, hi))
  <2> DEFINE S == Inside(E[t], lo, hi)
  <2>1. k \in S /\ SubKeys(E[t], k) = S BY <1>3 DEF Leads
  <2>2. S # {} BY <2>1
  <2> HIDE DEF S
  <2>3. y.ref \in Dom(h, t) \cup At(y.new) BY <1>1
  <2> QED BY <1>4, <2>1, <2>2, <2>3 DEF Holds, S
<1>6. Synced(E, n, t, y.ref) BY <1>4 DEF Synced
<1> QED BY <1>1, <1>2, <1>5, <1>6 DEF Outcome

\* A search goes on below the node it has passed or found.
LEMMA OutcomeSearch ==
  ASSUME NEW E, NEW n \in Nat, NEW h, NEW t, NEW c, IsContext(c), Change(E, t, c), NEW lo, NEW hi,
         lo < c.key, c.key < hi, Fenced(E[t-1], lo, hi), Fenced(E[t], lo, hi),
         c.t_past # nullptr, Holds(Dom(h, t-1), E, c.t_past, E[t-1], Inside(E[t-1], lo, hi)),
         Synced(E, n, t-1, c.t_past), E[t][Key(c.t_past)] > 0,
         Hash[c.key] < Hash[Key(c.t_past)] \/ c.key = Key(c.t_past),
         NEW y, y.ref = <<t, Key(c.t_past)>>,
         y.new = {Node(<<t, Key(c.t_past)>>, E[t][Key(c.t_past)], nullptr, nullptr)},
         IsContext(y.c), y.c.st = "ST_RUNNING",
         y.c.key = c.key, y.c.op = c.op, y.c.t_past = c.t_past,
         \/ /\ y.c.fn = "FN_SEARCH" /\ Hash[c.key] < Hash[Key(c.t_past)]
            /\ y.c.dir = IF c.key < Key(c.t_past) THEN "DIR_LEFT" ELSE "DIR_RIGHT"
         \/ y.c.fn = "FN_SETREF" /\ c.key = Key(c.t_past)
  PROVE  Outcome(E, n, h, t, y, lo, hi)
<1> DEFINE k == Key(c.t_past)  d == [y.c EXCEPT !.t_cur = y.ref]
<1>1. /\ Leads(k, Inside(E[t-1], lo, hi)) /\ k \in Keys /\ lo < k /\ k < hi BY HeldLeads
<1>2. Leads(k, Inside(E[t], lo, hi))
  <2>1. \A j \in Inside(E[t], lo, hi) : j # c.key => j \in Inside(E[t-1], lo, hi)
    BY DEF Inside, Change, Differ
  <2>2. Hash[c.key] <= Hash[k] BY <1>1, HashAssumption DEF Change
  <2>3. k \in Inside(E[t], lo, hi) BY <1>1 DEF Inside
  <2> QED BY <1>1, <2>1, <2>2, <2>3 DEF Leads
<1>3. /\ d.key = c.key /\ d.op = c.op /\ d.t_past = c.t_past /\ d.fn = y.c.fn /\ d.dir = y.c.dir
      /\ d.t_cur = <<t, k>>
  BY DEF IsContext
<1> HIDE DEF d
<1>4. Key(d.t_cur) = k /\ d.t_cur \in {t} \X Keys BY <1>1, <1>3 DEF Key
<1>5. TaskAt(E, n, h, t, d, lo, hi)
  <2>1. Change(E, t, d) BY <1>3 DEF Change
  <2>2. Place(E, t, d, lo, hi) BY <1>2, <1>3, <1>4 DEF Place
  <2>3. SearchAt(E, n, h, t, d, lo, hi) BY <1>3, <1>4 DEF SearchAt
  <2> QED BY <2>1, <2>2, <2>3 DEF TaskAt
<1> HIDE DEF k
<1>6. E[t] \in Counts BY DEF Change
<1> QED BY <1>1, <1>2, <1>5, <1>6, OutcomeOpen DEF d, k

\* A concatenation between lo and hi that has come to t_l and t_r.
ConcatFrom(E, n, h, t, c, lo, hi) ==
  /\ IsContext(c) /\ Change(E, t, c) /\ c.st = "ST_RUNNING" /\ c.fn = "FN_CONCAT" /\ E[t][c.key] = 0
  /\ lo < c.key /\ c.key < hi /\ Fenced(E[t], lo, hi)
  /\ Fenced(E[t-1], lo, c.key) /\ Fenced(E[t-1], c.key, hi) /\ c.t_past \in Com(h, n, t-1)
  /\ Holds(Com(h, n, t-1), E, c.t_l, E[t-1], Inside(E[t-1], lo, c.key))
  /\ Holds(Com(h, n, t-1), E, c.t_r, E[t-1], Inside(E[t-1], c.key, hi))

\* A concatenation takes the higher root of the two, or what is left.
LEMMA ConcatOutcome ==
  ASSUME NEW E, NEW n \in Nat, NEW h, DOMAIN h \subseteq Nat \X Keys, NEW t, Finished(h, Com(h, n, t-1), E),
         NEW c, NEW lo, NEW hi, ConcatFrom(E, n, h, t, c, lo, hi)
  PROVE  Outcome(E, n, h, t, concat_(h, t, c), lo, hi) /\ concat_(h, t, c).c.root = c.root
<1> DEFINE y == concat_(h, t, c)  D == Com(h, n, t-1)  q == c.key  a == E[t-1]  b == E[t]
<1>0. /\ IsContext(c) /\ Change(E, t, c) /\ c.st = "ST_RUNNING" /\ c.fn = "FN_CONCAT" /\ E[t][c.key] = 0
      /\ lo < c.key /\ c.key < hi /\ Fenced(E[t], lo, hi)
      /\ Fenced(E[t-1], lo, c.key) /\ Fenced(E[t-1], c.key, hi) /\ c.t_past \in Com(h, n, t-1)
      /\ Holds(Com(h, n, t-1), E, c.t_l, E[t-1], Inside(E[t-1], lo, c.key))
      /\ Holds(Com(h, n, t-1), E, c.t_r, E[t-1], Inside(E[t-1], c.key, hi))
  BY DEF ConcatFrom
<1>1. /\ t \in Nat /\ q \in Keys /\ a \in Counts /\ b \in Counts /\ Differ(a, b, q) /\ b[q] = 0
  BY <1>0, NumTasksAssumption DEF Change, TaskIds
<1>2. lo \in Int /\ hi \in Int BY <1>0, FencePoint DEF Fenced
<1>3. /\ Inside(b, lo, hi) = Inside(a, lo, q) \cup Inside(a, q, hi)
      /\ Inside(a, lo, q) = Inside(b, lo, q) /\ Inside(a, q, hi) = Inside(b, q, hi)
      /\ \A k \in Inside(a, lo, q) : k \in Keys /\ a[k] = b[k] /\ k < q /\ lo < k
      /\ \A k \in Inside(a, q, hi) : k \in Keys /\ a[k] = b[k] /\ q < k /\ k < hi
      /\ \A p : Holds(D, E, p, a, Inside(a, lo, q)) => Holds(D, E, p, b, Inside(b, lo, q))
      /\ \A p : Holds(D, E, p, a, Inside(a, q, hi)) => Holds(D, E, p, b, Inside(b, q, hi))
  <2> HIDE DEF a, b, q, D
  <2> QED BY <1>0, <1>1, <1>2, WithoutKey DEF q
<1>4. Holds(D, E, c.t_l, b, Inside(b, lo, q)) /\ Holds(D, E, c.t_r, b, Inside(b, q, hi)) BY <1>0, <1>3
<1>5. /\ c.t_l = nullptr <=> Inside(b, lo, q) = {}
      /\ c.t_r = nullptr <=> Inside(b, q, hi) = {}
  <2> HIDE DEF D, a, b, q
  <2> QED BY <1>4, HeldNode DEF D
\* One side is empty.
<1>6. ASSUME NEW r, y = Yield(r, {}, Done(c)), Holds(D, E, r, b, Inside(b, lo, hi))
      PROVE  Outcome(E, n, h, t, y, lo, hi) /\ y.c.root = c.root
  <2>1. IsContext(y.c) /\ y.c.st = "ST_DONE" /\ y.c.root = c.root /\ y.ref = r /\ y.new = {}
    BY <1>0, <1>6 DEF IsContext, Yield, Done
  <2>2. Makes(D, E, t, y.new) BY <2>1 DEF Makes
  <2>3. At(y.new) = {} BY <2>1 DEF At
  <2>4. D \cup At(y.new) = D BY <2>3
  <2> HIDE DEF y
  <2>5. Result(D, E, t, y, b, lo, hi) BY <1>6, <2>1, <2>2, <2>4 DEF Result
  <2> QED BY <1>1, <2>1, <2>5, OutcomeDone
<1>7. CASE c.t_l = nullptr
  <2>1. y = Yield(c.t_r, {}, Done(c)) BY <1>7 DEF concat_
  <2>2. Inside(b, lo, hi) = Inside(b, q, hi) BY <1>3, <1>5, <1>7
  <2> HIDE DEF y, D, a, b, q
  <2> QED BY <1>4, <1>6, <2>1, <2>2 DEF y
<1>8. CASE c.t_l # nullptr /\ c.t_r = nullptr
  <2>1. y = Yield(c.t_l, {}, Done(c)) BY <1>8 DEF concat_
  <2>2. Inside(b, lo, hi) = Inside(b, lo, q) BY <1>3, <1>5, <1>8
  <2> HIDE DEF y, D, a, b, q
  <2> QED BY <1>4, <1>6, <2>1, <2>2 DEF y
<1>9. CASE c.t_l # nullptr /\ c.t_r # nullptr
  <2> DEFINE s == IF Above(c.t_l, c.t_r) THEN c.t_l ELSE c.t_r
             k == Key(s)
             e == [c EXCEPT !.dir = IF Above(c.t_l, c.t_r) THEN "DIR_RIGHT" ELSE "DIR_LEFT"]
             d == [y.c EXCEPT !.t_cur = y.ref]
  <2>1. y = Yield(<<t, k>>, {make_weak_copy(h, t, s)}, e)
    <3>1. CASE Above(c.t_l, c.t_r) BY <1>9, <3>1 DEF concat_
    <3>2. CASE ~Above(c.t_l, c.t_r) BY <1>9, <3>2 DEF concat_
    <3> QED BY <3>1, <3>2
  <2>2. /\ Leads(Key(c.t_l), Inside(a, lo, q)) /\ h[c.t_l].val = a[Key(c.t_l)]
        /\ Leads(Key(c.t_r), Inside(a, q, hi)) /\ h[c.t_r].val = a[Key(c.t_r)]
    <3> HIDE DEF D, a, q
    <3> QED BY <1>0, <1>1, <1>9, HeldRead DEF D, a, q
  <2>3. Key(c.t_l) \in Keys /\ Key(c.t_r) \in Keys BY <1>3, <2>2 DEF Leads
  <2>4. Hash[Key(c.t_l)] \in Nat /\ Hash[Key(c.t_r)] \in Nat BY <2>3, HashAssumption
  <2>5. \A j \in Inside(a, lo, q) \cup Inside(a, q, hi) : Hash[j] \in Nat BY <1>3, HashAssumption
  <2>6. k \in Keys /\ h[s].val = b[k] /\ Leads(k, Inside(b, lo, hi))
    <3>1. CASE Above(c.t_l, c.t_r)
      <4>1. s = c.t_l /\ Hash[Key(c.t_l)] > Hash[Key(c.t_r)] BY <3>1 DEF Above, Pry
      <4>2. \A j \in Inside(b, lo, hi) : Hash[j] <= Hash[Key(c.t_l)]
        BY <1>3, <2>2, <2>4, <2>5, <4>1 DEF Leads
      <4>3. Key(c.t_l) \in Inside(a, lo, q) BY <2>2 DEF Leads
      <4> HIDE DEF a, b, q
      <4> QED BY <1>3, <2>2, <2>3, <4>1, <4>2, <4>3 DEF Leads
    <3>2. CASE ~Above(c.t_l, c.t_r)
      <4>1. s = c.t_r /\ ~(Hash[Key(c.t_l)] > Hash[Key(c.t_r)]) BY <3>2 DEF Above, Pry
      <4>2. \A j \in Inside(b, lo, hi) : Hash[j] <= Hash[Key(c.t_r)]
        BY <1>3, <2>2, <2>4, <2>5, <4>1 DEF Leads
      <4>3. Key(c.t_r) \in Inside(a, q, hi) BY <2>2 DEF Leads
      <4> HIDE DEF a, b, q
      <4> QED BY <1>3, <2>2, <2>3, <4>1, <4>2, <4>3 DEF Leads
    <3> QED BY <3>1, <3>2
  <2> HIDE DEF s
  <2>7. /\ y.ref = <<t, k>> /\ y.new = {Node(<<t, k>>, b[k], nullptr, nullptr)} /\ y.c = e
    BY <2>1, <2>6 DEF Yield, make_weak_copy, Copy
  <2> HIDE DEF y
  <2>8. /\ IsContext(y.c) /\ y.c.st = "ST_RUNNING" /\ y.c.root = c.root
        /\ d.key = c.key /\ d.op = c.op /\ d.fn = "FN_CONCAT" /\ d.t_past = c.t_past
        /\ d.t_l = c.t_l /\ d.t_r = c.t_r /\ d.t_cur = <<t, k>>
        /\ d.dir = IF Above(c.t_l, c.t_r) THEN "DIR_RIGHT" ELSE "DIR_LEFT"
    BY <1>0, <2>7 DEF IsContext
  <2> HIDE DEF d, k
  <2>9. Key(d.t_cur) = k /\ d.t_cur \in {t} \X Keys BY <2>6, <2>8, PointerFacts
  <2>10. TaskAt(E, n, h, t, d, lo, hi)
    <3>1. Change(E, t, d) BY <1>0, <2>8 DEF Change
    <3>2. Place(E, t, d, lo, hi) BY <1>0, <2>6, <2>8, <2>9 DEF Place
    <3>3. ConcatAt(E, n, h, t, d, lo, hi) BY <1>0, <1>9, <2>8, <2>9 DEF ConcatAt, s, k
    <3> QED BY <3>1, <3>2, <3>3 DEF TaskAt
  <2> HIDE DEF e
  <2>11. Outcome(E, n, h, t, y, lo, hi) BY <1>0, <1>1, <2>6, <2>7, <2>8, <2>10, OutcomeOpen DEF d
  <2> QED BY <2>8, <2>11 DEF y
<1> QED BY <1>7, <1>8, <1>9

\* A search between lo and hi that has come to t_past.
SearchFrom(E, n, h, t, c, lo, hi) ==
  /\ IsContext(c) /\ Change(E, t, c) /\ c.st = "ST_RUNNING" /\ c.fn = "FN_SEARCH"
  /\ lo < c.key /\ c.key < hi /\ Fenced(E[t-1], lo, hi) /\ Fenced(E[t], lo, hi)
  /\ Holds(Dom(h, t-1), E, c.t_past, E[t-1], Inside(E[t-1], lo, hi)) /\ Synced(E, n, t-1, c.t_past)

Values(E, h) == DOMAIN h \subseteq Nat \X Keys /\ \A x \in DOMAIN h : h[x].val = E[Ver(x)][Key(x)]

\* It finds the node of its key.
LEMMA UpdateFoundOutcome ==
  ASSUME NEW E, NEW n \in Nat, NEW h, Values(E, h), NEW t, Finished(h, Com(h, n, t-1), E),
         NEW c, NEW lo, NEW hi, SearchFrom(E, n, h, t, c, lo, hi), c.t_past # nullptr, Key(c.t_past) = c.key,
         c.op = "OP_DELETE" /\ LastOccurrence(h, c.t_past) => n >= Ver(c.t_past)
  PROVE  Outcome(E, n, h, t, update_found_(h, t, c), lo, hi) /\ update_found_(h, t, c).c.root = c.root
<1> DEFINE y == update_found_(h, t, c)  p == c.t_past  q == c.key  a == E[t-1]  b == E[t]
           WithVal(v) == Yield(<<t, q>>, {Copy(t, p, v, nullptr, nullptr)}, [c EXCEPT !.fn = "FN_SETREF"])
<1>0. /\ IsContext(c) /\ Change(E, t, c) /\ c.st = "ST_RUNNING"
      /\ lo < c.key /\ c.key < hi /\ Fenced(E[t-1], lo, hi) /\ Fenced(E[t], lo, hi)
      /\ Holds(Dom(h, t-1), E, c.t_past, E[t-1], Inside(E[t-1], lo, hi)) /\ Synced(E, n, t-1, c.t_past)
      /\ DOMAIN h \subseteq Nat \X Keys /\ \A x \in DOMAIN h : h[x].val = E[Ver(x)][Key(x)]
  BY DEF SearchFrom, Values
<1>1. /\ p \in DOMAIN h /\ Ver(p) <= t - 1 /\ q \in Keys /\ a[q] > 0 /\ E[Ver(p)][q] = a[q]
  BY <1>0, HeldLeads DEF Dom, Change
<1>2. h[p].val = a[q] /\ a[q] \in Nat /\ b[q] \in Nat BY <1>0, <1>1 DEF Change, Counts
<1>3. ASSUME NEW v, y = WithVal(v), v = b[q], b[q] > 0
      PROVE  Outcome(E, n, h, t, y, lo, hi) /\ y.c.root = c.root
  <2>1. /\ y.ref = <<t, Key(p)>> /\ y.new = {Node(<<t, Key(p)>>, b[Key(p)], nullptr, nullptr)}
        /\ y.c = [c EXCEPT !.fn = "FN_SETREF"]
    BY <1>0, <1>3 DEF Yield, Copy
  <2> HIDE DEF y
  <2>2. /\ IsContext(y.c) /\ y.c.st = "ST_RUNNING" /\ y.c.fn = "FN_SETREF" /\ y.c.root = c.root
        /\ y.c.key = c.key /\ y.c.op = c.op /\ y.c.t_past = c.t_past
    BY <1>0, <2>1 DEF IsContext
  <2>3. E[t][Key(c.t_past)] > 0 BY <1>0, <1>3
  <2>4. Outcome(E, n, h, t, y, lo, hi) BY <1>0, <2>1, <2>2, <2>3, OutcomeSearch
  <2> QED BY <1>0, <2>2, <2>4
<1>4. CASE c.op = "OP_INSERT"
  <2>1. y = WithVal(h[p].val + 1) BY <1>0, <1>4 DEF update_found_
  <2>2. h[p].val + 1 = b[q] BY <1>0, <1>2, <1>4 DEF Change
  <2> HIDE DEF y, WithVal, b, a, q, p
  <2> QED BY <1>0, <1>2, <1>3, <2>1, <2>2 DEF y
<1>5. CASE c.op = "OP_DELETE" /\ ~LastOccurrence(h, p)
  <2>1. y = WithVal(h[p].val - 1) BY <1>0, <1>5 DEF update_found_
  <2>2. h[p].val - 1 = b[q] /\ b[q] > 0 BY <1>0, <1>1, <1>2, <1>5 DEF Change, LastOccurrence
  <2> HIDE DEF y, WithVal, b, a, q, p
  <2> QED BY <1>0, <1>2, <1>3, <2>1, <2>2 DEF y
<1>6. CASE c.op = "OP_DELETE" /\ LastOccurrence(h, p)
  <2> DEFINE D == Com(h, n, t-1)
             l == h[p].lch
             r == h[p].rch
  <2>0. PICK e : e = [c EXCEPT !.t_l = l, !.t_r = r, !.fn = "FN_CONCAT"] OBVIOUS
  <2>1. y = concat_(h, t, e) BY <1>0, <1>6, <2>0 DEF update_found_
  <2>2. b[q] = 0 BY <1>0, <1>1, <1>2, <1>6 DEF Change, LastOccurrence
  <2>3. p \in D
    <3>1. Ver(p) <= n BY <1>0, <1>1, <1>6, HeapFacts
    <3> QED BY <1>0, <1>1, <3>1 DEF Com
  <2>4. Holds(D, E, p, a, Inside(a, lo, hi))
    <3>1. Inside(a, lo, hi) # {} BY <1>0, HeldLeads
    <3> HIDE DEF D
    <3> QED BY <1>0, <2>3, <3>1 DEF Holds
  <2>5. /\ Fenced(a, lo, q) /\ Fenced(a, q, hi)
        /\ Holds(D, E, h[p].lch, a, Inside(a, lo, q)) /\ Holds(D, E, h[p].rch, a, Inside(a, q, hi))
    <3>1. a \in Counts /\ Fenced(a, lo, hi) /\ p # nullptr /\ Finished(h, D, E) BY <1>0 DEF Change
    <3> HIDE DEF D, a, p
    <3>2. /\ Fenced(a, lo, Key(p)) /\ Fenced(a, Key(p), hi)
          /\ Holds(D, E, h[p].lch, a, Inside(a, lo, Key(p))) /\ Holds(D, E, h[p].rch, a, Inside(a, Key(p), hi))
      BY <1>0, <2>4, <3>1, HeldRead
    <3> QED BY <1>0, <3>2 DEF p
  <2>6. /\ IsContext(e) /\ e.st = "ST_RUNNING" /\ e.fn = "FN_CONCAT" /\ e.root = c.root
        /\ e.key = c.key /\ e.op = c.op /\ e.t_past = c.t_past /\ e.t_l = h[p].lch /\ e.t_r = h[p].rch
    <3> DEFINE c1 == [c EXCEPT !.t_l = l]
               c2 == [c1 EXCEPT !.t_r = r]
    <3> HIDE DEF l, r, y, p, q, a, b, D
    <3>1. e = [c2 EXCEPT !.fn = "FN_CONCAT"] BY <1>0, <2>0
    <3>2. c1 = [st |-> c.st, op |-> c.op, key |-> c.key, fn |-> c.fn, dir |-> c.dir, t_cur |-> c.t_cur,
                t_past |-> c.t_past, t_l |-> l, t_r |-> c.t_r, root |-> c.root] BY <1>0 DEF IsContext
    <3> HIDE DEF c1
    <3>3. c2 = [st |-> c.st, op |-> c.op, key |-> c.key, fn |-> c.fn, dir |-> c.dir, t_cur |-> c.t_cur,
                t_past |-> c.t_past, t_l |-> l, t_r |-> r, root |-> c.root] BY <1>0, <3>2
    <3> HIDE DEF c2
    <3>4. e = [st |-> c.st, op |-> c.op, key |-> c.key, fn |-> "FN_CONCAT", dir |-> c.dir, t_cur |-> c.t_cur,
               t_past |-> c.t_past, t_l |-> l, t_r |-> r, root |-> c.root] BY <1>0, <3>1, <3>3
    <3> QED BY <1>0, <3>4 DEF IsContext, l, r
  <2> HIDE DEF y, l, r
  <2>7. Change(E, t, e) BY <1>0, <2>6 DEF Change
  <2>8. ConcatFrom(E, n, h, t, e, lo, hi) BY <1>0, <2>2, <2>3, <2>5, <2>6, <2>7 DEF ConcatFrom
  <2>9. Outcome(E, n, h, t, concat_(h, t, e), lo, hi) /\ concat_(h, t, e).c.root = e.root
    BY <1>0, <2>8, ConcatOutcome
  <2> QED BY <1>0, <2>1, <2>6, <2>9 DEF y
<1> QED BY <1>0, <1>4, <1>5, <1>6 DEF Change

\* One step of a search: it ends, passes a node, or finds the node of its key.
LEMMA UpdateOutcome ==
  ASSUME NEW E, NEW n \in Nat, NEW h, Values(E, h), NEW t, Finished(h, Com(h, n, t-1), E),
         NEW c, NEW lo, NEW hi, SearchFrom(E, n, h, t, c, lo, hi), NeedsCommitted(h, c) => n >= Ver(c.t_past)
  PROVE  Outcome(E, n, h, t, update_(h, t, c), lo, hi) /\ update_(h, t, c).c.root = c.root
<1> DEFINE y == update_(h, t, c)  p == c.t_past  q == c.key  a == E[t-1]  b == E[t]  D == Com(h, n, t-1)
<1>0. /\ IsContext(c) /\ Change(E, t, c) /\ c.st = "ST_RUNNING" /\ c.fn = "FN_SEARCH"
      /\ lo < q /\ q < hi /\ Fenced(a, lo, hi) /\ Fenced(b, lo, hi)
      /\ Holds(Dom(h, t-1), E, p, a, Inside(a, lo, hi)) /\ Synced(E, n, t-1, p)
      /\ DOMAIN h \subseteq Nat \X Keys /\ \A x \in DOMAIN h : h[x].val = E[Ver(x)][Key(x)]
  BY DEF SearchFrom, Values
<1>1. /\ t \in Nat /\ q \in Keys /\ a \in Counts /\ b \in Counts /\ Differ(a, b, q)
      /\ \A k \in Keys : a[k] \in Nat /\ b[k] \in Nat /\ Hash[k] \in Nat
  BY <1>0, NumTasksAssumption, HashAssumption DEF Change, TaskIds, Counts
<1>n. nullptr \notin Dom(h, t-1) BY <1>0, HeapFacts DEF Dom
<1>2. lo \in Int /\ hi \in Int BY <1>0, FencePoint DEF Fenced
\* The search ends here, with what r tells.
<1>3. ASSUME NEW r, NEW new, y = Yield(r, new, Done(c)), NEW z, z.ref = r, z.new = new, Result(D, E, t, z, b, lo, hi)
      PROVE  Outcome(E, n, h, t, y, lo, hi) /\ y.c.root = c.root
  <2>1. IsContext(y.c) /\ y.c.st = "ST_DONE" /\ y.c.root = c.root /\ y.ref = r /\ y.new = new
    BY <1>0, <1>3 DEF IsContext, Yield, Done
  <2> HIDE DEF y
  <2>2. Result(D, E, t, y, b, lo, hi) BY <1>3, <2>1 DEF Result
  <2> QED BY <1>0, <1>1, <2>1, <2>2, OutcomeDone
<1>4. CASE p = nullptr /\ c.op = "OP_INSERT"
  <2> DEFINE new == {Node(<<t, q>>, b[q], nullptr, nullptr)}
             z == [ref |-> <<t, q>>, new |-> new]
  <2>1. Inside(a, lo, hi) = {} BY <1>0, <1>4, <1>n, HeldNull
  <2>2. a[q] = 0 /\ b[q] = 1 BY <1>0, <1>1, <1>4, <2>1 DEF Inside, Change
  <2>3. Inside(b, lo, hi) = {q} BY <1>0, <1>1, <2>1, <2>2 DEF Inside, Differ
  <2>4. Inside(b, lo, q) = {} /\ Inside(b, q, hi) = {} BY <1>0, <1>1, <1>2, <2>3, KeyFacts DEF Inside
  <2>5. Leads(q, Inside(b, lo, hi)) BY <1>1, <2>3 DEF Leads
  <2>6. y = Yield(<<t, q>>, new, Done(c)) BY <1>4, <2>2 DEF update_, make_node
  <2>7. Holds(D, E, nullptr, b, Inside(b, lo, q)) /\ Holds(D, E, nullptr, b, Inside(b, q, hi)) BY <2>4 DEF Holds
  <2>8. Makes(D, E, t, new) /\ Holds(D \cup At(new), E, <<t, q>>, b, Inside(b, lo, hi))
    <3> HIDE DEF D
    <3> QED BY <1>0, <1>1, <2>5, <2>7, OneNode
  <2>9. z.ref = <<t, q>> /\ z.new = new OBVIOUS
  <2> HIDE DEF y, D, b, z, new
  <2>10. Result(D, E, t, z, b, lo, hi) BY <2>8, <2>9 DEF Result
  <2> QED BY <1>3, <2>6, <2>9, <2>10 DEF y
<1>5. CASE p = nullptr /\ c.op = "OP_DELETE"
  <2>1. Inside(a, lo, hi) = {} BY <1>0, <1>5, <1>n, HeldNull
  <2>2. b[q] = 0 BY <1>0, <1>1, <1>5, <2>1 DEF Inside, Change
  <2>3. Inside(b, lo, hi) = {} BY <1>0, <1>1, <2>1, <2>2 DEF Inside, Differ
  <2>4. y = Yield(nullptr, {}, Done(c)) BY <1>5 DEF update_
  <2>5. Holds(D, E, nullptr, b, Inside(b, lo, hi)) BY <2>3 DEF Holds
  <2> HIDE DEF y, D, b
  <2>6. Result(D, E, t, Nothing(nullptr), b, lo, hi) BY <2>5, NothingSpec
  <2>7. Nothing(nullptr).ref = nullptr /\ Nothing(nullptr).new = {} BY DEF Nothing
  <2> QED BY <1>3, <2>4, <2>6, <2>7 DEF y
<1>6. ASSUME p # nullptr
      PROVE  /\ p \in DOMAIN h /\ Ver(p) \in Nat /\ Ver(p) <= t - 1 /\ Key(p) \in Keys
             /\ Leads(Key(p), Inside(a, lo, hi)) /\ a[Key(p)] > 0 /\ h[p].val = a[Key(p)]
             /\ Inside(a, lo, hi) # {}
  <2>1. /\ p \in Dom(h, t-1) /\ Leads(Key(p), Inside(a, lo, hi)) /\ E[Ver(p)][Key(p)] = a[Key(p)]
        /\ Key(p) \in Keys /\ a[Key(p)] > 0 /\ Inside(a, lo, hi) # {}
    BY <1>0, <1>6, HeldLeads
  <2>2. p \in DOMAIN h /\ Ver(p) <= t - 1 BY <2>1 DEF Dom
  <2> QED BY <1>0, <2>1, <2>2, HeapFacts
<1>7. CASE p # nullptr /\ Pry(p) > Hash[q]
  <2> DEFINE e == [c EXCEPT !.dir = IF c.key < Key(p) THEN "DIR_LEFT" ELSE "DIR_RIGHT"]
  <2>1. y = Yield(<<t, Key(p)>>, {make_weak_copy(h, t, p)}, e) BY <1>7 DEF update_
  <2>2. b[Key(p)] = a[Key(p)] /\ b[Key(p)] > 0
    <3>1. Key(p) # q BY <1>1, <1>6, <1>7 DEF Pry
    <3> QED BY <1>1, <1>6, <1>7, <3>1 DEF Differ
  <2>3. /\ y.ref = <<t, Key(p)>> /\ y.new = {Node(<<t, Key(p)>>, b[Key(p)], nullptr, nullptr)} /\ y.c = e
    BY <1>6, <1>7, <2>1, <2>2 DEF Yield, make_weak_copy, Copy
  <2> HIDE DEF y
  <2>4. /\ IsContext(y.c) /\ y.c.st = "ST_RUNNING" /\ y.c.root = c.root
        /\ y.c.key = c.key /\ y.c.op = c.op /\ y.c.t_past = c.t_past /\ y.c.fn = "FN_SEARCH"
        /\ y.c.dir = IF c.key < Key(p) THEN "DIR_LEFT" ELSE "DIR_RIGHT"
    BY <1>0, <2>3 DEF IsContext
  <2> HIDE DEF e
  <2>5. Hash[c.key] < Hash[Key(p)] BY <1>1, <1>6, <1>7 DEF Pry
  <2>6. Outcome(E, n, h, t, y, lo, hi) BY <1>0, <1>7, <2>2, <2>3, <2>4, <2>5, OutcomeSearch
  <2> QED BY <2>4, <2>6 DEF y
<1>8. CASE p # nullptr /\ ~(Pry(p) > Hash[q]) /\ Key(p) = q
  <2>1. y = update_found_(h, t, c) BY <1>8 DEF update_
  <2>2. c.op = "OP_DELETE" /\ LastOccurrence(h, c.t_past) => n >= Ver(c.t_past)
    BY <1>1, <1>8 DEF NeedsCommitted, Pry
  <2> HIDE DEF y
  <2>3. c.t_past # nullptr /\ Key(c.t_past) = c.key BY <1>8
  <2>4. Outcome(E, n, h, t, update_found_(h, t, c), lo, hi) /\ update_found_(h, t, c).c.root = c.root
    BY <2>2, <2>3, UpdateFoundOutcome
  <2> QED BY <2>1, <2>4 DEF y
<1>9. ASSUME p # nullptr, ~(Pry(p) > Hash[q]), Key(p) # q
      PROVE  (\A j \in Inside(a, lo, hi) : Hash[j] < Hash[q]) /\ a[q] = 0
  <2>1. Hash[Key(p)] < Hash[q] BY <1>1, <1>6, <1>9, HashAssumption DEF Pry
  <2>2. \A j \in Inside(a, lo, hi) : j \in Keys /\ Hash[j] <= Hash[Key(p)] BY <1>6, <1>9 DEF Inside, Leads
  <2>3. \A j \in Inside(a, lo, hi) : Hash[j] < Hash[q] BY <1>1, <1>6, <1>9, <2>1, <2>2
  <2>4. q \notin Inside(a, lo, hi) BY <1>1, <2>3
  <2> QED BY <1>0, <1>1, <2>3, <2>4 DEF Inside
<1>10. CASE p # nullptr /\ ~(Pry(p) > Hash[q]) /\ Key(p) # q /\ c.op = "OP_INSERT"
  <2> DEFINE r == process_deploy(h, t, p, q)
  <2>1. y = Yield(r.ref, r.new, Done(c)) BY <1>10 DEF update_
  <2>2. (\A j \in Inside(a, lo, hi) : Hash[j] < Hash[q]) /\ a[q] = 0 BY <1>9, <1>10
  <2>3. b[q] = 1 BY <1>0, <1>10, <2>2 DEF Change
  <2>4. n >= Ver(p) BY <1>1, <1>6, <1>10 DEF NeedsCommitted, Pry
  <2>5. Holds(D, E, p, a, Inside(a, lo, hi))
    <3>1. p \in D BY <1>6, <1>10, <2>4 DEF Com
    <3> HIDE DEF D, a
    <3> QED BY <1>0, <1>6, <1>10, <3>1 DEF Holds
  <2> HIDE DEF y, D, r
  <2>6. Makes(D, E, t, r.new) /\ Holds(D \cup At(r.new), E, r.ref, b, Inside(b, lo, hi))
    <3>1. Finished(h, D, E) BY DEF D
    <3> HIDE DEF a, b, p, q
    <3> QED BY <1>0, <1>1, <2>2, <2>3, <2>5, <3>1, DeploySpec DEF r, b
  <2>7. Result(D, E, t, r, b, lo, hi) BY <2>6 DEF Result
  <2> HIDE DEF b
  <2> QED BY <1>3, <2>1, <2>7 DEF y
<1>11. CASE p # nullptr /\ ~(Pry(p) > Hash[q]) /\ Key(p) # q /\ c.op = "OP_DELETE"
  <2>1. y = Yield(p, {}, Done(c)) BY <1>11 DEF update_
  <2>2. b[q] = 0 /\ a[q] = 0 BY <1>0, <1>9, <1>11 DEF Change
  <2>3. a = b
    <3>1. \A k \in Keys : a[k] = b[k] BY <1>1, <2>2 DEF Differ
    <3> HIDE DEF a, b
    <3> QED BY <1>1, <3>1 DEF Counts
  <2>4. /\ IsContext(y.c) /\ y.c.st = "ST_DONE" /\ y.c.root = c.root /\ y.ref = p /\ y.new = {}
    BY <1>0, <2>1 DEF IsContext, Yield, Done
  <2>5. Synced(E, n, t, p) BY <1>0, <2>3 DEF Synced
  <2>6. At(y.new) = {} /\ Makes(D, E, t, y.new)
    <3> HIDE DEF y
    <3> QED BY <2>4 DEF At, Makes
  <2>7. Holds(Dom(h, t) \cup At(y.new), E, p, b, Inside(b, lo, hi))
    <3>1. \A x \in DOMAIN h : Ver(x) \in Nat BY <1>0, HeapFacts
    <3>2. Dom(h, t-1) \subseteq Dom(h, t) BY <1>1, <3>1 DEF Dom
    <3>3. Dom(h, t-1) \subseteq Dom(h, t) \cup At(y.new) BY <3>2
    <3>4. Holds(Dom(h, t-1), E, p, b, Inside(b, lo, hi)) BY <1>0, <2>3
    <3> HIDE DEF y, p, a, b
    <3> QED BY <3>3, <3>4, HoldsMore
  <2> HIDE DEF y
  <2>8. Outcome(E, n, h, t, y, lo, hi) BY <2>4, <2>5, <2>6, <2>7 DEF Outcome
  <2> QED BY <2>4, <2>8 DEF y
<1>12. c.op = "OP_INSERT" \/ c.op = "OP_DELETE" BY <1>0 DEF Change
<1> HIDE DEF y, p, q
<1> QED BY <1>4, <1>5, <1>7, <1>8, <1>10, <1>11, <1>12 DEF y
-----------------------------------------------------------------------------
(* A step links the node its task has open, and opens the next one.         *)
LEMMA OpenOwn ==
  ASSUME NEW E, NEW n, NEW h, NEW c, NEW p \in Nat, TreeInv(E, n, h, c, p), NEW x \in DOMAIN h, Open(c, x)
  PROVE  Ver(x) \in TaskIds /\ Ver(x) \in 1..p /\ c[Ver(x)].st = "ST_RUNNING" /\ c[Ver(x)].t_cur = x
<1>1. PICK u \in TaskIds : c[u].st = "ST_RUNNING" /\ c[u].t_cur = x BY DEF Open
<1>2. u <= p
  <2> SUFFICES ASSUME ~(u <= p) PROVE FALSE OBVIOUS
  <2>1. u > p BY NumTasksAssumption DEF TaskIds
  <2>2. c[u] = Context BY <2>1 DEF TreeInv, ContextsInv
  <2>3. x = nullptr BY <1>1, <2>2 DEF Context
  <2>4. DOMAIN h \subseteq Nat \X Keys BY DEF TreeInv, NodesInv
  <2> QED BY <2>3, <2>4, HeapFacts
<1>3. u \in 1..p BY <1>2, NumTasksAssumption DEF TaskIds
<1>4. PICK lo, hi : TaskAt(E, n, h, u, c[u], lo, hi) BY <1>1, <1>3 DEF TreeInv, TasksInv
<1>5. Ver(x) = u BY <1>1, <1>4 DEF TaskAt, Place, Ver
<1> QED BY <1>1, <1>3, <1>5

Links(E, n, h, c, t, h2, c2, N) ==
  /\ N \subseteq {t} \X Keys /\ DOMAIN h2 = DOMAIN h \cup N
  /\ \A x \in DOMAIN h \ N : x # c[t].t_cur => h2[x] = h[x]
  /\ c[t].t_cur \in DOMAIN h \ N => GoodNode(E, n, h2, c[t].t_cur, h2[c[t].t_cur], FALSE)
  /\ \A x \in N : GoodNode(E, n, h2, x, h2[x], c2[t].st = "ST_RUNNING" /\ c2[t].t_cur = x)
  /\ DOMAIN c2 = 0..NumTasks /\ \A u \in 0..NumTasks : u # t => c2[u] = c[u]
  /\ IsContext(c2[t]) /\ c2[t].st \in {"ST_RUNNING", "ST_DONE"} /\ c2[t].root = c[t].root
  /\ c2[t].st = "ST_RUNNING" => c2[t].t_cur \in N /\ \E lo, hi : TaskAt(E, n, h, t, c2[t], lo, hi)

\* A step that sets the children of its open node keeps TreeInv.
LEMMA LinkStep ==
  ASSUME NEW E, NEW n \in Nat, NEW h, NEW c, NEW p \in Nat, p <= NumTasks, TreeInv(E, n, h, c, p),
         NEW t \in 1..p, c[t].st = "ST_RUNNING", NEW h2, NEW c2, NEW N, Links(E, n, h, c, t, h2, c2, N)
  PROVE  TreeInv(E, n, h2, c2, p)
<1>0. /\ N \subseteq {t} \X Keys /\ DOMAIN h2 = DOMAIN h \cup N
      /\ \A x \in DOMAIN h \ N : x # c[t].t_cur => h2[x] = h[x]
      /\ c[t].t_cur \in DOMAIN h \ N => GoodNode(E, n, h2, c[t].t_cur, h2[c[t].t_cur], FALSE)
      /\ \A x \in N : GoodNode(E, n, h2, x, h2[x], c2[t].st = "ST_RUNNING" /\ c2[t].t_cur = x)
      /\ DOMAIN c2 = 0..NumTasks /\ \A u \in 0..NumTasks : u # t => c2[u] = c[u]
      /\ IsContext(c2[t]) /\ c2[t].st \in {"ST_RUNNING", "ST_DONE"} /\ c2[t].root = c[t].root
      /\ c2[t].st = "ST_RUNNING" => c2[t].t_cur \in N /\ \E lo, hi : TaskAt(E, n, h, t, c2[t], lo, hi)
  BY DEF Links
<1> DEFINE cur == c[t].t_cur
<1>1. t \in TaskIds /\ t \in 0..p BY NumTasksAssumption DEF TaskIds
<1>2. DOMAIN h \subseteq Nat \X Keys BY DEF TreeInv, NodesInv
<1>3. PICK lo, hi : TaskAt(E, n, h, t, c[t], lo, hi) BY DEF TreeInv, TasksInv
<1>4. Ver(cur) = t BY <1>3 DEF TaskAt, Place, Ver
<1>5. \A x \in {t} \X Keys : Ver(x) = t BY DEF Ver
<1>6. \A x \in DOMAIN h : Ver(x) # t => h2[x] = h[x] BY <1>0, <1>4, <1>5
<1>7. DOMAIN h \subseteq DOMAIN h2 /\ DOMAIN h2 \subseteq DOMAIN h \cup {t} \X Keys BY <1>0
<1>8. \A x \in DOMAIN h2 : Ver(x) = t =>
         GoodNode(E, n, h2, x, h2[x], c2[t].st = "ST_RUNNING" /\ c2[t].t_cur = x)
  <2> SUFFICES ASSUME NEW x \in DOMAIN h2, x \notin N, Ver(x) = t
               PROVE  GoodNode(E, n, h2, x, h2[x], c2[t].st = "ST_RUNNING" /\ c2[t].t_cur = x)
    BY <1>0
  <2>1. (c2[t].st = "ST_RUNNING" /\ c2[t].t_cur = x) = FALSE BY <1>0
  <2>2. CASE x = cur BY <1>0, <2>1, <2>2
  <2>3. CASE x # cur
    <3>1. x \in DOMAIN h /\ h2[x] = h[x] BY <1>0, <2>3
    <3>2. GoodNode(E, n, h, x, h[x], Open(c, x)) BY <3>1 DEF TreeInv, NodesInv
    <3>3. ~Open(c, x) BY <2>3, <3>1, OpenOwn
    <3>4. Open(c, x) \in BOOLEAN BY DEF Open
    <3>5. GoodNode(E, n, h2, x, h[x], Open(c, x)) BY <1>2, <1>7, <3>2, <3>4, GoodNodeMore
    <3> QED BY <2>1, <3>1, <3>3, <3>4, <3>5
  <2> QED BY <2>2, <2>3
<1>9. c2[t].st = "ST_RUNNING" => \E lo1, hi1 : TaskAt(E, n, h2, t, c2[t], lo1, hi1)
  <2> SUFFICES ASSUME c2[t].st = "ST_RUNNING" PROVE \E lo1, hi1 : TaskAt(E, n, h2, t, c2[t], lo1, hi1) OBVIOUS
  <2>1. PICK lo1, hi1 : TaskAt(E, n, h, t, c2[t], lo1, hi1) BY <1>0
  <2>2. TaskAt(E, n, h2, t, c2[t], lo1, hi1) BY <1>2, <1>7, <2>1, TaskAtMore
  <2> QED BY <2>2
<1>10. Holds(Dom(h2, t), E, c2[t].root, E[t], Present(E[t])) /\ Synced(E, n, t, c2[t].root)
  <2>1. Holds(Dom(h, t), E, c[t].root, E[t], Present(E[t])) /\ Synced(E, n, t, c[t].root)
    BY <1>1 DEF TreeInv, RootsInv
  <2>2. Holds(Dom(h2, t), E, c[t].root, E[t], Present(E[t])) /\ Synced(E, n, t, c[t].root)
    BY <1>2, <1>7, <2>1, RootMore
  <2> QED BY <1>0, <2>2
<1> QED BY <1>0, <1>1, <1>6, <1>7, <1>8, <1>9, <1>10, TreeStep

\* The nodes that a call of concat_ or update_ has made, as g and then h2 keep
\* them for the context d.
Allocates(h, y, g, h2, d) ==
  /\ DOMAIN g = DOMAIN h /\ h2 = Alloc(g, y.new)
  /\ d.st = y.c.st /\ (y.c.st = "ST_RUNNING" => d.t_cur = y.ref)
Allocated(E, n, h, t, y, g, h2, d, lo, hi) ==
  /\ DOMAIN h2 = DOMAIN h \cup At(y.new) /\ \A x \in DOMAIN h \ At(y.new) : h2[x] = g[x]
  /\ \A x \in At(y.new) : GoodNode(E, n, h2, x, h2[x], d.st = "ST_RUNNING" /\ d.t_cur = x)
  /\ d.st \in {"ST_RUNNING", "ST_DONE"} /\ (d.st = "ST_RUNNING" => d.t_cur \in At(y.new))
  /\ Holds(Dom(h2, t), E, y.ref, E[t], Inside(E[t], lo, hi)) /\ Synced(E, n, t, y.ref)

\* The nodes an outcome has made are good ones in the heap they are put in.
LEMMA OutcomeNodes ==
  ASSUME NEW E, NEW n \in Nat, NEW h, DOMAIN h \subseteq Nat \X Keys, NEW t \in Nat, NEW y, NEW lo, NEW hi,
         Outcome(E, n, h, t, y, lo, hi), NEW g, NEW h2, NEW d, Allocates(h, y, g, h2, d)
  PROVE  Allocated(E, n, h, t, y, g, h2, d, lo, hi)
<1>0. /\ DOMAIN g = DOMAIN h /\ h2 = Alloc(g, y.new)
      /\ d.st = y.c.st /\ (y.c.st = "ST_RUNNING" => d.t_cur = y.ref)
  BY DEF Allocates
<1>1. /\ DOMAIN h2 = DOMAIN h \cup At(y.new)
      /\ \A x \in DOMAIN h \ At(y.new) : h2[x] = g[x]
      /\ \A x \in At(y.new) : \E m \in y.new :
            m.at = x /\ IsNode(h2[x]) /\ h2[x].val = m.val /\ h2[x].lch = m.lch /\ h2[x].rch = m.rch
  <2> DEFINE new == y.new
  <2>1. h2 = Alloc(g, new) BY <1>0
  <2> HIDE DEF new
  <2>2. /\ DOMAIN Alloc(g, new) = DOMAIN g \cup At(new)
        /\ \A x \in DOMAIN g \ At(new) : Alloc(g, new)[x] = g[x]
        /\ \A x \in At(new) : \E m \in new :
              /\ m.at = x /\ IsNode(Alloc(g, new)[x])
              /\ Alloc(g, new)[x].val = m.val /\ Alloc(g, new)[x].lch = m.lch /\ Alloc(g, new)[x].rch = m.rch
    BY AllocSpec
  <2>3. /\ DOMAIN h2 = DOMAIN h \cup At(new)
        /\ \A x \in DOMAIN h \ At(new) : h2[x] = g[x]
        /\ \A x \in At(new) : \E m \in new :
              m.at = x /\ IsNode(h2[x]) /\ h2[x].val = m.val /\ h2[x].lch = m.lch /\ h2[x].rch = m.rch
    BY <1>0, <2>1, <2>2
  <2> QED BY <2>3 DEF new
<1>2. At(y.new) \subseteq {t} \X Keys BY DEF Outcome
<1>3. \A x \in At(y.new) : Ver(x) = t BY <1>2 DEF Ver
<1>4. \A x \in DOMAIN h : Ver(x) \in Nat BY HeapFacts
<1>5. Dom(h, t) \cup At(y.new) \subseteq Dom(h2, t) /\ Com(h, n, t-1) \cup At(y.new) \subseteq Dom(h2, t)
  <2>1. \A x \in At(y.new) : x \in DOMAIN h2 /\ Ver(x) <= t BY <1>1, <1>3
  <2>2. \A x \in Dom(h, t) : x \in DOMAIN h2 /\ Ver(x) <= t BY <1>1 DEF Dom
  <2>3. \A x \in Com(h, n, t-1) : x \in DOMAIN h2 /\ Ver(x) <= t BY <1>1, <1>4 DEF Com
  <2>4. Dom(h2, t) = {x \in DOMAIN h2 : Ver(x) <= t} BY DEF Dom
  <2> QED BY <2>1, <2>2, <2>3, <2>4
<1>6. Holds(Dom(h2, t), E, y.ref, E[t], Inside(E[t], lo, hi)) BY <1>5, HoldsMore DEF Outcome
<1>7. CASE y.c.st = "ST_DONE" /\ Makes(Com(h, n, t-1), E, t, y.new)
  <2> SUFFICES ASSUME NEW x \in At(y.new) PROVE GoodNode(E, n, h2, x, h2[x], FALSE)
    BY <1>0, <1>1, <1>6, <1>7 DEF Outcome, Allocated
  <2>1. PICK m \in y.new :
          m.at = x /\ IsNode(h2[x]) /\ h2[x].val = m.val /\ h2[x].lch = m.lch /\ h2[x].rch = m.rch
    BY <1>1
  <2>2. NodeIs(Com(h, n, t-1) \cup At(y.new), E, x, m) BY <1>7, <2>1 DEF Makes
  <2>3. NodeIs(Dom(h2, t), E, x, m) BY <1>5, <2>2, NodeMore
  <2>5. NodeIs(Dom(h2, t), E, x, h2[x]) BY <2>1, <2>3 DEF NodeIs
  <2>6. \A u : u = m.lch \/ u = m.rch => u = nullptr \/ u \in Com(h, n, t-1) \cup At(y.new)
    BY <2>2 DEF NodeIs, Holds
  <2>7. \A u \in Com(h, n, t-1) \cup At(y.new) : Synced(E, n, t, u) BY <1>3 DEF Synced, Com
  <2>8. Synced(E, n, t, m.lch) /\ Synced(E, n, t, m.rch) BY <2>6, <2>7 DEF Synced
  <2>9. h2[x].val = E[Ver(x)][Key(x)] /\ h2[x].val > 0 BY <2>5 DEF NodeIs
  <2> QED BY <1>3, <2>1, <2>5, <2>8, <2>9 DEF GoodNode
<1>8. CASE y.c.st = "ST_RUNNING"
  <2>1. PICK k \in Keys : y.ref = <<t, k>> /\ E[t][k] > 0 /\ y.new = {Node(<<t, k>>, E[t][k], nullptr, nullptr)}
    BY <1>8 DEF Outcome
  <2>2. At(y.new) = {<<t, k>>} BY <2>1, PointerFacts DEF At
  <2>3. /\ IsNode(h2[y.ref]) /\ h2[y.ref].val = E[t][k] /\ h2[y.ref].lch = nullptr /\ h2[y.ref].rch = nullptr
    <3> DEFINE m == Node(<<t, k>>, E[t][k], nullptr, nullptr)
    <3>1. m.val = E[t][k] /\ m.lch = nullptr /\ m.rch = nullptr BY PointerFacts
    <3>2. y.new = {m} /\ y.ref \in At(y.new) BY <2>1, <2>2
    <3> HIDE DEF m
    <3> QED BY <1>1, <3>1, <3>2
  <2>4. Ver(y.ref) = t /\ Key(y.ref) = k BY <2>1, PointerFacts
  <2>5. d.st = "ST_RUNNING" /\ d.t_cur = y.ref BY <1>0, <1>8
  <2>6. GoodNode(E, n, h2, y.ref, h2[y.ref], d.st = "ST_RUNNING" /\ d.t_cur = y.ref)
    BY <2>1, <2>3, <2>4, <2>5 DEF GoodNode
  <2>7. \A x \in At(y.new) : GoodNode(E, n, h2, x, h2[x], d.st = "ST_RUNNING" /\ d.t_cur = x) BY <2>1, <2>2, <2>6
  <2> QED BY <1>0, <1>1, <1>6, <1>8, <2>1, <2>2, <2>7 DEF Outcome, Allocated
<1> QED BY <1>7, <1>8 DEF Outcome
-----------------------------------------------------------------------------
(* What a task finds below a finished node it has come to. *)
LEMMA SyncedBelow ==
  ASSUME NEW E, NEW n \in Nat, NEW h, DOMAIN h \subseteq Nat \X Keys, NEW w \in Int, NEW o \in DOMAIN h,
         E[Ver(o)] \in Counts, E[w] \in Counts,
         NodeIs(Dom(h, Ver(o)), E, o, h[o]), Synced(E, n, Ver(o), h[o].lch), Synced(E, n, Ver(o), h[o].rch),
         NEW lo, NEW hi, Fenced(E[w], lo, hi),
         Holds(Dom(h, w), E, o, E[w], Inside(E[w], lo, hi)), Synced(E, n, w, o)
  PROVE  /\ Fenced(E[w], lo, Key(o)) /\ Fenced(E[w], Key(o), hi)
         /\ Holds(Dom(h, w), E, h[o].lch, E[w], Inside(E[w], lo, Key(o)))
         /\ Holds(Dom(h, w), E, h[o].rch, E[w], Inside(E[w], Key(o), hi))
         /\ Synced(E, n, w, h[o].lch) /\ Synced(E, n, w, h[o].rch)
<1> DEFINE u == Ver(o)  k == Key(o)  cu == E[u]  cw == E[w]  D == Dom(h, u)
<1>1. o # nullptr /\ u \in Nat /\ k \in Keys /\ nullptr \notin DOMAIN h BY HeapFacts
<1>2. /\ Leads(k, Inside(cw, lo, hi)) /\ Fenced(cw, lo, k) /\ Fenced(cw, k, hi)
      /\ Holds(D, E, h[o].lch, cw, Inside(cw, lo, k)) /\ Holds(D, E, h[o].rch, cw, Inside(cw, k, hi))
  <2> HIDE DEF cw, D
  <2> QED BY <1>1, NodeRead DEF cw, D
<1>3. D \subseteq Dom(h, w)
  <2>1. o \in Dom(h, w) BY <1>1, <1>2, HeldLeads
  <2>2. u <= w BY <2>1 DEF Dom
  <2>3. \A x \in DOMAIN h : Ver(x) \in Nat BY HeapFacts
  <2> QED BY <1>1, <2>2, <2>3 DEF Dom
<1>4. /\ Holds(Dom(h, w), E, h[o].lch, cw, Inside(cw, lo, k)) /\ Holds(Dom(h, w), E, h[o].rch, cw, Inside(cw, k, hi))
  <2> HIDE DEF cw, D
  <2> QED BY <1>2, <1>3, HoldsMore
<1>5. PICK lo1, hi1 : Fenced(cu, lo1, hi1) /\ Leads(k, Inside(cu, lo1, hi1))
  <2>1. cu[k] > 0 BY DEF NodeIs
  <2> HIDE DEF cu
  <2> QED BY <1>1, <2>1, HasBounds DEF cu
<1>6. /\ Holds(D, E, h[o].lch, cu, Inside(cu, lo1, k)) /\ Holds(D, E, h[o].rch, cu, Inside(cu, k, hi1))
  <2>1. SubKeys(cu, k) = Inside(cu, lo1, hi1)
    <3> HIDE DEF cu
    <3> QED BY <1>5, SubIsInside DEF cu
  <2>2. /\ {j \in Inside(cu, lo1, hi1) : j < k} = Inside(cu, lo1, k)
        /\ {j \in Inside(cu, lo1, hi1) : j > k} = Inside(cu, k, hi1)
    <3> HIDE DEF cu
    <3> QED BY <1>5, Children DEF cu
  <2> QED BY <2>1, <2>2 DEF NodeIs
<1>7. ASSUME NEW i, Synced(E, n, u, i), i # nullptr => i \in D,
             i # nullptr => \/ Leads(Key(i), Inside(cu, lo1, k)) /\ Leads(Key(i), Inside(cw, lo, k))
                            \/ Leads(Key(i), Inside(cu, k, hi1)) /\ Leads(Key(i), Inside(cw, k, hi))
      PROVE  Synced(E, n, w, i)
  <2> SUFFICES ASSUME i # nullptr, ~(Ver(i) <= n) PROVE Ancestors(E[Ver(i)], Key(i)) = Ancestors(cw, Key(i))
    BY DEF Synced
  <2>1. Ver(i) \in Nat /\ Ver(i) <= u BY <1>7, HeapFacts DEF Dom
  <2>2. ~(u <= n) BY <1>1, <2>1
  <2>3. Ancestors(cu, k) = Ancestors(cw, k) BY <1>1, <2>2 DEF Synced
  <2>4. Ancestors(E[Ver(i)], Key(i)) = Ancestors(cu, Key(i)) BY <1>7 DEF Synced
  <2> HIDE DEF cu, cw, k, u
  <2>5. Ancestors(cu, Key(i)) = Ancestors(cu, k) \cup {k} BY <1>5, <1>7, AncestorsChild DEF cu, u
  <2>6. Ancestors(cw, Key(i)) = Ancestors(cw, k) \cup {k} BY <1>2, <1>7, AncestorsChild DEF cw
  <2> QED BY <2>3, <2>4, <2>5, <2>6
<1>8. Synced(E, n, w, h[o].lch)
  <2>1. h[o].lch # nullptr => /\ h[o].lch \in D /\ Leads(Key(h[o].lch), Inside(cu, lo1, k))
                              /\ Leads(Key(h[o].lch), Inside(cw, lo, k))
    <3> HIDE DEF cu, cw, D
    <3> QED BY <1>2, <1>6, HeldLeads
  <2> QED BY <1>7, <2>1
<1>9. Synced(E, n, w, h[o].rch)
  <2>1. h[o].rch # nullptr => /\ h[o].rch \in D /\ Leads(Key(h[o].rch), Inside(cu, k, hi1))
                              /\ Leads(Key(h[o].rch), Inside(cw, k, hi))
    <3> HIDE DEF cu, cw, D
    <3> QED BY <1>2, <1>6, HeldLeads
  <2> QED BY <1>7, <2>1
<1> QED BY <1>2, <1>4, <1>8, <1>9

\* A subtree that lies off the path of the changed key, seen from the next version.
LEMMA SyncedAcross ==
  ASSUME NEW E, NEW n, NEW w, NEW t, E[w] \in Counts, E[t] \in Counts, NEW q \in Keys, Differ(E[w], E[t], q),
         NEW lo, NEW hi, Fenced(E[w], lo, hi), Fenced(E[t], lo, hi),
         NEW k \in Keys, Leads(k, Inside(E[w], lo, hi)), Leads(k, Inside(E[t], lo, hi)), Hash[q] <= Hash[k],
         NEW i, Synced(E, n, w, i),
         i # nullptr => \/ Leads(Key(i), Inside(E[w], lo, k)) /\ Leads(Key(i), Inside(E[t], lo, k))
                        \/ Leads(Key(i), Inside(E[w], k, hi)) /\ Leads(Key(i), Inside(E[t], k, hi))
  PROVE  Synced(E, n, t, i)
<1> DEFINE cw == E[w]  ct == E[t]
<1> SUFFICES ASSUME i # nullptr PROVE Ancestors(cw, Key(i)) = Ancestors(ct, Key(i))
  BY DEF Synced
<1> HIDE DEF cw, ct
<1>1. Ancestors(cw, k) = Ancestors(ct, k) BY AncestorsSame DEF cw, ct
<1>2. Ancestors(cw, Key(i)) = Ancestors(cw, k) \cup {k} BY AncestorsChild DEF cw, ct
<1>3. Ancestors(ct, Key(i)) = Ancestors(ct, k) \cup {k} BY AncestorsChild DEF cw, ct
<1> QED BY <1>1, <1>2, <1>3

\* A node whose two children are set.
LEMMA NodeLinked ==
  ASSUME NEW E, NEW n, NEW h, NEW x, x # nullptr, E[Ver(x)] \in Counts, NEW lo, NEW hi, Fenced(E[Ver(x)], lo, hi),
         Leads(Key(x), Inside(E[Ver(x)], lo, hi)), NEW r, IsNode(r), r.val = E[Ver(x)][Key(x)],
         Holds(Dom(h, Ver(x)), E, r.lch, E[Ver(x)], Inside(E[Ver(x)], lo, Key(x))), Synced(E, n, Ver(x), r.lch),
         Holds(Dom(h, Ver(x)), E, r.rch, E[Ver(x)], Inside(E[Ver(x)], Key(x), hi)), Synced(E, n, Ver(x), r.rch)
  PROVE  GoodNode(E, n, h, x, r, FALSE)
<1> DEFINE c == E[Ver(x)]  D == Dom(h, Ver(x))
<1>1. NodeIs(D, E, x, r)
  <2> HIDE DEF c, D
  <2> QED BY NodeMade DEF c, D
<1>2. r.val > 0 BY <1>1 DEF NodeIs
<1> QED BY <1>1, <1>2 DEF GoodNode

\* SetChildren gives the open node the new child and the other child of the node it copies.
LEMMA SetChildrenSpec ==
  ASSUME NEW h, NEW c, NEW ref, c.t_cur \in DOMAIN h => IsNode(h[c.t_cur]), c.dir \in {"DIR_LEFT", "DIR_RIGHT"}
  PROVE  LET g == SetChildren(h, c, ref)
             r == g[c.t_cur]
         IN /\ DOMAIN g = DOMAIN h /\ \A x \in DOMAIN h : x # c.t_cur => g[x] = h[x]
            /\ c.t_cur \in DOMAIN h =>
                 /\ IsNode(r) /\ r.val = h[c.t_cur].val
                 /\ c.dir = "DIR_LEFT" => r.lch = ref /\ r.rch = h[Original(c)].rch
                 /\ c.dir = "DIR_RIGHT" => r.rch = ref /\ r.lch = h[Original(c)].lch
<1> DEFINE x == c.t_cur  o == Original(c)
<1>1. CASE c.dir = "DIR_LEFT"
  <2> DEFINE v == h[o].rch
  <2>1. SetChildren(h, c, ref) = [h EXCEPT ![x].rch = v, ![x].lch = ref] BY <1>1 DEF SetChildren, Kept, Down
  <2> HIDE DEF o, v
  <2>2. x \in DOMAIN h => h[x] = [val |-> h[x].val, aug |-> h[x].aug, lch |-> h[x].lch, rch |-> h[x].rch] BY DEF IsNode
  <2>3. x \in DOMAIN h => SetChildren(h, c, ref)[x] = [val |-> h[x].val, aug |-> h[x].aug, lch |-> ref, rch |-> v]
    BY <2>1, <2>2
  <2> QED BY <1>1, <2>1, <2>3 DEF IsNode, v, o
<1>2. CASE c.dir = "DIR_RIGHT"
  <2> DEFINE v == h[o].lch
  <2>1. SetChildren(h, c, ref) = [h EXCEPT ![x].lch = v, ![x].rch = ref] BY <1>2 DEF SetChildren, Kept, Down
  <2> HIDE DEF o, v
  <2>2. x \in DOMAIN h => h[x] = [val |-> h[x].val, aug |-> h[x].aug, lch |-> h[x].lch, rch |-> h[x].rch] BY DEF IsNode
  <2>3. x \in DOMAIN h => SetChildren(h, c, ref)[x] = [val |-> h[x].val, aug |-> h[x].aug, lch |-> v, rch |-> ref]
    BY <2>1, <2>2
  <2> QED BY <1>2, <2>1, <2>3 DEF IsNode, v, o
<1> QED BY <1>1, <1>2

-----------------------------------------------------------------------------
(* The steps of a task. *)

\* A step of task t changes no node of another task.
Own(h, h2, t) == DOMAIN h \subseteq DOMAIN h2 /\ \A z \in DOMAIN h : Ver(z) # t => h2[z] = h[z]

\* A task has found y for the child it goes down to; it keeps the other one.
LinksOutcome(E, n, h, c, p, t, lo, hi, old, y, d) ==
  /\ p \in Nat /\ p <= NumTasks /\ TreeInv(E, n, h, c, p) /\ \A v \in 0..p : E[v] \in Counts
  /\ t \in 1..p /\ c[t].st = "ST_RUNNING"
  /\ Place(E, t, c[t], lo, hi) /\ c[t].dir \in {"DIR_LEFT", "DIR_RIGHT"} /\ old = Original(c[t])
  /\ LET k == Key(c[t].t_cur)
     IN /\ c[t].dir = "DIR_LEFT" =>
             /\ Outcome(E, n, h, t, y, lo, k)
             /\ Holds(Dom(h, t), E, h[old].rch, E[t], Inside(E[t], k, hi)) /\ Synced(E, n, t, h[old].rch)
        /\ c[t].dir # "DIR_LEFT" =>
             /\ Outcome(E, n, h, t, y, k, hi)
             /\ Holds(Dom(h, t), E, h[old].lch, E[t], Inside(E[t], lo, k)) /\ Synced(E, n, t, h[old].lch)
  /\ IsContext(d) /\ d.st = y.c.st /\ d.root = c[t].root
  /\ y.c.st = "ST_RUNNING" => d = [y.c EXCEPT !.t_cur = y.ref] /\ d.t_cur = y.ref

\* Linking the outcome of the recursive part keeps TreeInv, and the nodes of other tasks.
LEMMA LinkOutcome ==
  ASSUME NEW E, NEW n \in Nat, NEW h, NEW c, NEW p, NEW t, NEW lo, NEW hi, NEW old, NEW y, NEW d,
         LinksOutcome(E, n, h, c, p, t, lo, hi, old, y, d)
  PROVE  /\ TreeInv(E, n, Alloc(SetChildren(h, c[t], y.ref), y.new), [c EXCEPT ![t] = d], p)
         /\ Own(h, Alloc(SetChildren(h, c[t], y.ref), y.new), t)
<1> DEFINE k == Key(c[t].t_cur)
<1>0. /\ p \in Nat /\ p <= NumTasks /\ TreeInv(E, n, h, c, p) /\ \A v \in 0..p : E[v] \in Counts
      /\ t \in 1..p /\ c[t].st = "ST_RUNNING"
      /\ Place(E, t, c[t], lo, hi) /\ c[t].dir \in {"DIR_LEFT", "DIR_RIGHT"} /\ old = Original(c[t])
      /\ c[t].dir = "DIR_LEFT" =>
           /\ Outcome(E, n, h, t, y, lo, k)
           /\ Holds(Dom(h, t), E, h[old].rch, E[t], Inside(E[t], k, hi)) /\ Synced(E, n, t, h[old].rch)
      /\ c[t].dir # "DIR_LEFT" =>
           /\ Outcome(E, n, h, t, y, k, hi)
           /\ Holds(Dom(h, t), E, h[old].lch, E[t], Inside(E[t], lo, k)) /\ Synced(E, n, t, h[old].lch)
      /\ IsContext(d) /\ d.st = y.c.st /\ d.root = c[t].root
      /\ y.c.st = "ST_RUNNING" => d = [y.c EXCEPT !.t_cur = y.ref] /\ d.t_cur = y.ref
  BY DEF LinksOutcome
<1> SUFFICES ASSUME NEW g, g = SetChildren(h, c[t], y.ref), NEW h2, h2 = Alloc(g, y.new),
                    NEW c2, c2 = [c EXCEPT ![t] = d]
             PROVE  TreeInv(E, n, h2, c2, p) /\ Own(h, h2, t)
  OBVIOUS
<1> DEFINE x == c[t].t_cur  N == At(y.new)  left == c[t].dir = "DIR_LEFT"
<1>1. /\ t \in Nat /\ t \in 0..p /\ t \in 0..NumTasks /\ E[t] \in Counts /\ DOMAIN h \subseteq Nat \X Keys
      /\ DOMAIN c = 0..NumTasks
  BY <1>0, NumTasksAssumption DEF TreeInv, NodesInv, ContextsInv
<1>2. /\ x \in {t} \X Keys /\ Ver(x) = t /\ x # nullptr /\ Fenced(E[t], lo, hi) /\ Leads(k, Inside(E[t], lo, hi))
  BY <1>0, <1>1, NullAssumption DEF Place, Ver
<1>3. x \in DOMAIN h => IsNode(h[x]) /\ h[x].val = E[t][k] BY <1>0, <1>2 DEF TreeInv, NodesInv, GoodNode
<1>4. /\ DOMAIN g = DOMAIN h /\ \A z \in DOMAIN h : z # x => g[z] = h[z]
      /\ x \in DOMAIN h =>
           /\ IsNode(g[x]) /\ g[x].val = h[x].val
           /\ left => g[x].lch = y.ref /\ g[x].rch = h[old].rch
           /\ ~left => g[x].rch = y.ref /\ g[x].lch = h[old].lch
  BY <1>0, <1>3, SetChildrenSpec
<1>5. PICK a, b : Outcome(E, n, h, t, y, a, b) /\ (left => a = lo /\ b = k) /\ (~left => a = k /\ b = hi) BY <1>0
<1>6. /\ DOMAIN h2 = DOMAIN h \cup N /\ \A z \in DOMAIN h \ N : h2[z] = g[z]
      /\ \A z \in N : GoodNode(E, n, h2, z, h2[z], d.st = "ST_RUNNING" /\ d.t_cur = z)
      /\ d.st \in {"ST_RUNNING", "ST_DONE"} /\ (d.st = "ST_RUNNING" => d.t_cur \in N)
      /\ Holds(Dom(h2, t), E, y.ref, E[t], Inside(E[t], a, b)) /\ Synced(E, n, t, y.ref)
  <2>1. Allocates(h, y, g, h2, d) BY <1>0, <1>4 DEF Allocates
  <2>2. Allocated(E, n, h, t, y, g, h2, d, a, b) BY <1>1, <1>5, <2>1, OutcomeNodes
  <2> QED BY <2>2 DEF Allocated
<1>7. N \subseteq {t} \X Keys BY <1>5 DEF Outcome
<1>8. /\ left => Holds(Dom(h2, t), E, h[old].rch, E[t], Inside(E[t], k, hi))
      /\ ~left => Holds(Dom(h2, t), E, h[old].lch, E[t], Inside(E[t], lo, k))
  <2>1. DOMAIN h \subseteq DOMAIN h2 BY <1>6
  <2>2. Dom(h, t) \subseteq Dom(h2, t) BY <2>1 DEF Dom
  <2>3. ASSUME NEW q, NEW S, Holds(Dom(h, t), E, q, E[t], S) PROVE Holds(Dom(h2, t), E, q, E[t], S)
    BY <2>2, <2>3, HoldsMore
  <2> QED BY <1>0, <2>3
<1>9. x \in DOMAIN h \ N => GoodNode(E, n, h2, x, h2[x], FALSE)
  <2> SUFFICES ASSUME x \in DOMAIN h \ N PROVE GoodNode(E, n, h2, x, h2[x], FALSE) OBVIOUS
  <2>1. h2[x] = g[x] BY <1>6
  <2>2. IsNode(h2[x]) /\ h2[x].val = E[Ver(x)][Key(x)] BY <1>2, <1>3, <1>4, <2>1
  <2>3. /\ Holds(Dom(h2, t), E, h2[x].lch, E[t], Inside(E[t], lo, k)) /\ Synced(E, n, t, h2[x].lch)
        /\ Holds(Dom(h2, t), E, h2[x].rch, E[t], Inside(E[t], k, hi)) /\ Synced(E, n, t, h2[x].rch)
    <3>1. CASE left BY <3>1, <1>0, <1>4, <1>5, <1>6, <1>8, <2>1
    <3>2. CASE ~left BY <3>2, <1>0, <1>4, <1>5, <1>6, <1>8, <2>1
    <3> QED BY <3>1, <3>2
  <2> HIDE DEF x
  <2> QED BY <1>1, <1>2, <2>2, <2>3, NodeLinked DEF x
<1>10. /\ DOMAIN c2 = 0..NumTasks /\ \A u \in 0..NumTasks : u # t => c2[u] = c[u]
       /\ c2[t] = d
  BY <1>1
<1>11. d.st = "ST_RUNNING" => \E lo1, hi1 : TaskAt(E, n, h, t, d, lo1, hi1) BY <1>0, <1>5 DEF Outcome
<1> HIDE DEF N
<1>12. \A z \in DOMAIN h \ N : z # c[t].t_cur => h2[z] = h[z] BY <1>4, <1>6
<1>13. /\ \A z \in N : GoodNode(E, n, h2, z, h2[z], c2[t].st = "ST_RUNNING" /\ c2[t].t_cur = z)
       /\ c2[t].st = "ST_RUNNING" => c2[t].t_cur \in N /\ \E lo1, hi1 : TaskAt(E, n, h, t, c2[t], lo1, hi1)
       /\ IsContext(c2[t]) /\ c2[t].st \in {"ST_RUNNING", "ST_DONE"} /\ c2[t].root = c[t].root
  BY <1>0, <1>6, <1>10, <1>11
<1>14. DOMAIN h2 = DOMAIN h \cup N BY <1>6
<1>15. Links(E, n, h, c, t, h2, c2, N) BY <1>7, <1>9, <1>10, <1>12, <1>13, <1>14 DEF Links
<1>16. Own(h, h2, t)
  <2>1. \A z \in N : Ver(z) = t BY <1>7 DEF Ver
  <2> QED BY <1>2, <1>12, <1>14, <2>1 DEF Own
<1> QED BY <1>0, <1>15, <1>16, LinkStep

\* It goes down by one node.
Deeper(E, t, x, d) ==
  d.st = "ST_RUNNING" => /\ Key(x.t_cur) \in Keys /\ Key(d.t_cur) \in Keys
                         /\ Ancestors(E[t], Key(d.t_cur)) = Ancestors(E[t], Key(x.t_cur)) \cup {Key(x.t_cur)}

\* It takes the task to a child of the node it had open.
LEMMA LinkDeeper ==
  ASSUME NEW E, NEW n \in Nat, NEW h, NEW c, NEW p, NEW t, NEW lo, NEW hi, NEW old, NEW y, NEW d,
         LinksOutcome(E, n, h, c, p, t, lo, hi, old, y, d)
  PROVE  Deeper(E, t, c[t], d)
<1> DEFINE k == Key(c[t].t_cur)
<1>0. /\ p \in Nat /\ p <= NumTasks /\ \A v \in 0..p : E[v] \in Counts
      /\ t \in 1..p
      /\ Place(E, t, c[t], lo, hi)
      /\ c[t].dir = "DIR_LEFT" => Outcome(E, n, h, t, y, lo, k)
      /\ c[t].dir # "DIR_LEFT" => Outcome(E, n, h, t, y, k, hi)
      /\ d.st = y.c.st
      /\ y.c.st = "ST_RUNNING" => d = [y.c EXCEPT !.t_cur = y.ref]
  BY DEF LinksOutcome
<1> SUFFICES ASSUME d.st = "ST_RUNNING"
             PROVE  k \in Keys /\ Key(d.t_cur) \in Keys /\ Ancestors(E[t], Key(d.t_cur)) = Ancestors(E[t], k) \cup {k}
  BY DEF Deeper
<1>1. t \in 0..p /\ E[t] \in Counts /\ Fenced(E[t], lo, hi) /\ Leads(k, Inside(E[t], lo, hi)) BY <1>0 DEF Place
<1>2. PICK a, b : Outcome(E, n, h, t, y, a, b) /\ ((a = lo /\ b = k) \/ (a = k /\ b = hi)) BY <1>0
<1>3. TaskAt(E, n, h, t, d, a, b) BY <1>0, <1>2 DEF Outcome
<1>4. Leads(Key(d.t_cur), Inside(E[t], a, b)) BY <1>3 DEF TaskAt, Place
<1> HIDE DEF k
<1>5. Leads(Key(d.t_cur), Inside(E[t], lo, k)) \/ Leads(Key(d.t_cur), Inside(E[t], k, hi)) BY <1>2, <1>4
<1>6. Ancestors(E[t], Key(d.t_cur)) = Ancestors(E[t], k) \cup {k} BY <1>1, <1>5, AncestorsChild
<1>7. k \in Keys /\ Key(d.t_cur) \in Keys BY <1>1, <1>5 DEF Leads, Inside
<1> QED BY <1>6, <1>7

-----------------------------------------------------------------------------
\* A running task t, in a tree that is as it should be.
Runs(E, n, h, c, p, t) ==
  /\ TreeInv(E, n, h, c, p) /\ p \in Nat /\ p <= NumTasks /\ t \in 1..p /\ c[t].st = "ST_RUNNING"
  /\ \A v \in 0..p : E[v] \in Counts
  /\ Finished(h, Com(h, n, t-1), E)

\* The children of o, in the contents of version w.
PathBelow(E, n, h, w, o, lo, hi) ==
  /\ Fenced(E[w], lo, Key(o)) /\ Fenced(E[w], Key(o), hi)
  /\ Holds(Dom(h, w), E, h[o].lch, E[w], Inside(E[w], lo, Key(o)))
  /\ Holds(Dom(h, w), E, h[o].rch, E[w], Inside(E[w], Key(o), hi))
  /\ Synced(E, n, w, h[o].lch) /\ Synced(E, n, w, h[o].rch)

\* A finished node, and the past one a search has come to.
LEMMA PastBelow ==
  ASSUME NEW E, NEW n \in Nat, NEW h, NEW c, NEW p, NEW t, Runs(E, n, h, c, p, t), NEW lo, NEW hi,
         SearchAt(E, n, h, t, c[t], lo, hi), ~Open(c, c[t].t_past)
  PROVE  PathBelow(E, n, h, t-1, c[t].t_past, lo, hi) /\ c[t].t_past \in DOMAIN h
<1> DEFINE o == c[t].t_past  w == t - 1
<1>1. /\ TreeInv(E, n, h, c, p) /\ t \in 1..p /\ w \in 0..p /\ w \in Int /\ E[w] \in Counts
      /\ DOMAIN h \subseteq Nat \X Keys /\ DOMAIN h \subseteq (0..p) \X Keys
  BY DEF Runs, TreeInv, NodesInv
<1>2. /\ Fenced(E[w], lo, hi) /\ o # nullptr /\ Synced(E, n, w, o)
      /\ Holds(Dom(h, w), E, o, E[w], Inside(E[w], lo, hi))
  BY DEF SearchAt
<1> HIDE DEF o
<1>3. o \in DOMAIN h
  <2> HIDE DEF w
  <2> QED BY <1>2, HeldLeads DEF Dom
<1>4. /\ NodeIs(Dom(h, Ver(o)), E, o, h[o]) /\ Synced(E, n, Ver(o), h[o].lch) /\ Synced(E, n, Ver(o), h[o].rch)
  <2>1. GoodNode(E, n, h, o, h[o], Open(c, o)) BY <1>1, <1>3 DEF TreeInv, NodesInv
  <2> QED BY <2>1 DEF GoodNode, o
<1>5. E[Ver(o)] \in Counts
  <2>1. Ver(o) \in 0..p BY <1>1, <1>3 DEF Ver
  <2> QED BY <2>1 DEF Runs
<1>6. PathBelow(E, n, h, w, o, lo, hi)
  <2> HIDE DEF w
  <2> QED BY <1>1, <1>2, <1>3, <1>4, <1>5, SyncedBelow DEF PathBelow
<1> QED BY <1>3, <1>6 DEF o

\* The child a search keeps is the same in the version it makes.
Keeps(E, n, h, t, i, lo, hi) == Holds(Dom(h, t), E, i, E[t], Inside(E[t], lo, hi)) /\ Synced(E, n, t, i)

\* The child of the past node that the task does not go down to is a subtree of
\* its version too.
LEMMA PastKept ==
  ASSUME NEW E, NEW n \in Nat, NEW h, DOMAIN h \subseteq Nat \X Keys, NEW t, NEW c, NEW lo, NEW hi,
         Change(E, t, c), Place(E, t, c, lo, hi), SearchAt(E, n, h, t, c, lo, hi),
         PathBelow(E, n, h, t-1, c.t_past, lo, hi), NEW k, k = Key(c.t_cur)
  PROVE  /\ c.key <= k => Keeps(E, n, h, t, h[c.t_past].rch, k, hi)
         /\ c.key >= k => Keeps(E, n, h, t, h[c.t_past].lch, lo, k)
         /\ Fenced(E[t], lo, k) /\ Fenced(E[t], k, hi) /\ k \in Keys
<1> DEFINE o == c.t_past  w == t - 1  a == E[w]  b == E[t]  q == c.key  D == Dom(h, w)
<1>1. /\ t \in Nat /\ q \in Keys /\ a \in Counts /\ b \in Counts /\ Differ(a, b, q)
  BY NumTasksAssumption DEF Change, TaskIds
<1>2. /\ k = Key(o) /\ o # nullptr /\ Holds(D, E, o, a, Inside(a, lo, hi)) /\ Fenced(a, lo, hi)
      /\ Hash[q] < Hash[k] \/ q = k
      /\ Fenced(b, lo, hi) /\ Leads(k, Inside(b, lo, hi))
  BY DEF SearchAt, Place
<1>3. Leads(k, Inside(a, lo, hi)) /\ k \in Keys
  <2> HIDE DEF a, D, o
  <2> QED BY <1>2, HeldLeads
<1>4. k \in Nat /\ q \in Nat /\ Hash[q] <= Hash[k] BY <1>1, <1>2, <1>3, KeyFacts
<1>5. Fenced(b, lo, k) /\ Fenced(b, k, hi)
  <2> HIDE DEF b
  <2> QED BY <1>1, <1>2, Children
<1>6. /\ Holds(D, E, h[o].lch, a, Inside(a, lo, k)) /\ Holds(D, E, h[o].rch, a, Inside(a, k, hi))
      /\ Synced(E, n, w, h[o].lch) /\ Synced(E, n, w, h[o].rch)
  BY <1>2 DEF PathBelow
<1>7. \A i, S : Holds(D, E, i, b, S) => Holds(Dom(h, t), E, i, b, S)
  <2>1. \A x \in DOMAIN h : Ver(x) \in Nat BY HeapFacts
  <2>2. D \subseteq Dom(h, t) BY <1>1, <2>1 DEF Dom
  <2> HIDE DEF D, b
  <2> QED BY <2>2, HoldsMore
<1>8. ASSUME NEW i, Synced(E, n, w, i),
             i # nullptr => \/ Leads(Key(i), Inside(a, lo, k)) /\ Leads(Key(i), Inside(b, lo, k))
                            \/ Leads(Key(i), Inside(a, k, hi)) /\ Leads(Key(i), Inside(b, k, hi))
      PROVE  Synced(E, n, t, i)
  <2> HIDE DEF w, q
  <2> QED BY <1>1, <1>2, <1>3, <1>4, <1>8, SyncedAcross
<1>9. ASSUME q <= k PROVE Keeps(E, n, h, t, h[o].rch, k, hi)
  <2>1. q \notin Inside(a, k, hi) /\ q \notin Inside(b, k, hi) BY <1>4, <1>9 DEF Inside
  <2>2. Holds(D, E, h[o].rch, b, Inside(b, k, hi))
    <3> HIDE DEF D, a, b, q
    <3> QED BY <1>1, <1>6, <2>1, HoldsSame
  <2>3. h[o].rch # nullptr => Leads(Key(h[o].rch), Inside(a, k, hi)) /\ Leads(Key(h[o].rch), Inside(b, k, hi))
    <3> HIDE DEF D, a, b
    <3> QED BY <1>6, <2>2, HeldLeads
  <2> HIDE DEF D
  <2> QED BY <1>6, <1>7, <1>8, <2>2, <2>3 DEF Keeps
<1>10. ASSUME q >= k PROVE Keeps(E, n, h, t, h[o].lch, lo, k)
  <2>1. q \notin Inside(a, lo, k) /\ q \notin Inside(b, lo, k) BY <1>4, <1>10 DEF Inside
  <2>2. Holds(D, E, h[o].lch, b, Inside(b, lo, k))
    <3> HIDE DEF D, a, b, q
    <3> QED BY <1>1, <1>6, <2>1, HoldsSame
  <2>3. h[o].lch # nullptr => Leads(Key(h[o].lch), Inside(a, lo, k)) /\ Leads(Key(h[o].lch), Inside(b, lo, k))
    <3> HIDE DEF D, a, b
    <3> QED BY <1>6, <2>2, HeldLeads
  <2> HIDE DEF D
  <2> QED BY <1>6, <1>7, <1>8, <2>2, <2>3 DEF Keeps
<1> QED BY <1>3, <1>5, <1>9, <1>10

-----------------------------------------------------------------------------
\* One step of a search.
LEMMA SearchStep ==
  ASSUME NEW E, NEW n \in Nat, NEW h, NEW c, NEW p, NEW t, Runs(E, n, h, c, p, t), NEW lo, NEW hi,
         Change(E, t, c[t]), Place(E, t, c[t], lo, hi), SearchAt(E, n, h, t, c[t], lo, hi), ~Open(c, c[t].t_past),
         c[t].fn = "FN_SEARCH", NEW d, d = Descend(h, c[t]), NeedsCommitted(h, d) => n >= Ver(d.t_past)
  PROVE  LET y == update_(h, t, d)
         IN /\ TreeInv(E, n, Alloc(SetChildren(h, c[t], y.ref), y.new), [c EXCEPT ![t] = [y.c EXCEPT !.t_cur = y.ref]], p)
            /\ Own(h, Alloc(SetChildren(h, c[t], y.ref), y.new), t)
            /\ Deeper(E, t, c[t], [y.c EXCEPT !.t_cur = y.ref])
<1> DEFINE x == c[t]  o == x.t_past  k == Key(x.t_cur)  q == x.key  left == x.dir = "DIR_LEFT"
<1>1. /\ TreeInv(E, n, h, c, p) /\ p \in Nat /\ p <= NumTasks /\ t \in 1..p /\ t \in 0..NumTasks
      /\ x.st = "ST_RUNNING" /\ DOMAIN h \subseteq Nat \X Keys /\ IsContext(x) /\ Finished(h, Com(h, n, t-1), E)
  BY NumTasksAssumption DEF Runs, TreeInv, NodesInv, ContextsInv
<1>2. PathBelow(E, n, h, t-1, o, lo, hi) /\ o \in DOMAIN h BY PastBelow
<1>3. /\ q <= k => Keeps(E, n, h, t, h[o].rch, k, hi)
      /\ q >= k => Keeps(E, n, h, t, h[o].lch, lo, k)
      /\ Fenced(E[t], lo, k) /\ Fenced(E[t], k, hi) /\ k \in Keys
  BY <1>1, <1>2, PastKept
<1>4. /\ q \in Keys /\ lo < q /\ q < hi /\ k = Key(o) /\ Hash[q] < Hash[k]
      /\ x.dir = IF q < k THEN "DIR_LEFT" ELSE "DIR_RIGHT"
  <2>1. q \in Keys /\ k = Key(o) BY DEF Change, SearchAt
  <2>2. ~(Hash[q] < Hash[q]) BY <2>1, HashAssumption
  <2> QED BY <2>1, <2>2 DEF SearchAt, Place
<1>5. q \in Nat /\ k \in Nat /\ q # k /\ (left <=> q < k) BY <1>3, <1>4, KeyFacts
<1>6. d = [x EXCEPT !.t_past = IF left THEN h[o].lch ELSE h[o].rch] BY DEF Descend, Down
<1>7. /\ IsContext(d) /\ d.st = "ST_RUNNING" /\ d.fn = "FN_SEARCH" /\ d.key = q /\ d.op = x.op /\ d.root = x.root
      /\ d.t_past = IF left THEN h[o].lch ELSE h[o].rch
  <2> DEFINE v == IF left THEN h[o].lch ELSE h[o].rch
  <2> HIDE DEF v
  <2>1. d = [x EXCEPT !.t_past = v] BY <1>6 DEF v
  <2>2. /\ IsContext(d) /\ d.st = "ST_RUNNING" /\ d.fn = "FN_SEARCH" /\ d.key = q /\ d.op = x.op /\ d.root = x.root
        /\ d.t_past = v
    BY <1>1, <2>1 DEF IsContext
  <2> QED BY <2>2 DEF v
<1>8. Values(E, h)
  BY <1>1 DEF Values, TreeInv, NodesInv, GoodNode
<1>9. Change(E, t, d) BY <1>7 DEF Change
<1> DEFINE y == update_(h, t, d)
\* The search goes on between a and b.
<1>10. ASSUME NEW a, NEW b, SearchFrom(E, n, h, t, d, a, b) PROVE Outcome(E, n, h, t, y, a, b) /\ y.c.root = x.root
  BY <1>1, <1>7, <1>8, <1>10, UpdateOutcome
<1>11. ASSUME NEW a, NEW b, Outcome(E, n, h, t, y, a, b), y.c.root = x.root, a = (IF left THEN lo ELSE k), b = (IF left THEN k ELSE hi)
       PROVE  /\ TreeInv(E, n, Alloc(SetChildren(h, x, y.ref), y.new), [c EXCEPT ![t] = [y.c EXCEPT !.t_cur = y.ref]], p)
              /\ Own(h, Alloc(SetChildren(h, x, y.ref), y.new), t)
              /\ Deeper(E, t, x, [y.c EXCEPT !.t_cur = y.ref])
  <2> HIDE DEF y
  <2> DEFINE e == [y.c EXCEPT !.t_cur = y.ref]
  <2>1. IsContext(e) /\ e.st = y.c.st /\ e.root = x.root /\ e.t_cur = y.ref
    <3>1. IsContext(y.c) BY <1>11 DEF Outcome
    <3> QED BY <1>11, <3>1 DEF IsContext
  <2>2. o = Original(x) BY DEF Original
  <2>3. x.dir \in {"DIR_LEFT", "DIR_RIGHT"} BY <1>4
  <2>4. left => Outcome(E, n, h, t, y, lo, k) BY <1>11
  <2>5. ~left => Outcome(E, n, h, t, y, k, hi) BY <1>11
  <2>6. left => Keeps(E, n, h, t, h[o].rch, k, hi) BY <1>3, <1>5
  <2>7. ~left => Keeps(E, n, h, t, h[o].lch, lo, k) BY <1>3, <1>5
  <2> HIDE DEF e, o
  <2>8. /\ left => /\ Outcome(E, n, h, t, y, lo, k)
                   /\ Holds(Dom(h, t), E, h[o].rch, E[t], Inside(E[t], k, hi)) /\ Synced(E, n, t, h[o].rch)
        /\ ~left => /\ Outcome(E, n, h, t, y, k, hi)
                    /\ Holds(Dom(h, t), E, h[o].lch, E[t], Inside(E[t], lo, k)) /\ Synced(E, n, t, h[o].lch)
    BY <2>4, <2>5, <2>6, <2>7 DEF Keeps
  <2>9. \A v \in 0..p : E[v] \in Counts BY DEF Runs
  <2>10. y.c.st = "ST_RUNNING" => e = [y.c EXCEPT !.t_cur = y.ref] /\ e.t_cur = y.ref BY <2>1 DEF e
  <2>11. LinksOutcome(E, n, h, c, p, t, lo, hi, o, y, e)
    BY <1>1, <2>1, <2>2, <2>3, <2>8, <2>9, <2>10 DEF LinksOutcome
  <2>12. /\ TreeInv(E, n, Alloc(SetChildren(h, x, y.ref), y.new), [c EXCEPT ![t] = e], p)
         /\ Own(h, Alloc(SetChildren(h, x, y.ref), y.new), t)
    BY <2>11, LinkOutcome
  <2>13. Deeper(E, t, x, e) BY <2>11, LinkDeeper
  <2> QED BY <2>12, <2>13 DEF e
<1>12. CASE left
  <2>1. SearchFrom(E, n, h, t, d, lo, k)
    BY <1>2, <1>3, <1>4, <1>5, <1>7, <1>9, <1>12 DEF SearchFrom, PathBelow
  <2> HIDE DEF y
  <2>2. Outcome(E, n, h, t, y, lo, k) /\ y.c.root = x.root BY <2>1, <1>10
  <2>3. lo = (IF left THEN lo ELSE k) /\ k = (IF left THEN k ELSE hi) BY <1>12
  <2> HIDE DEF x, k, left
  <2> QED BY <2>2, <2>3, <1>11 DEF x, y
<1>13. CASE ~left
  <2>1. SearchFrom(E, n, h, t, d, k, hi)
    BY <1>2, <1>3, <1>4, <1>5, <1>7, <1>9, <1>13 DEF SearchFrom, PathBelow
  <2> HIDE DEF y
  <2>2. Outcome(E, n, h, t, y, k, hi) /\ y.c.root = x.root BY <2>1, <1>10
  <2>3. k = (IF left THEN lo ELSE k) /\ hi = (IF left THEN k ELSE hi) BY <1>13
  <2> HIDE DEF x, k, left
  <2> QED BY <2>2, <2>3, <1>11 DEF x, y
<1> QED BY <1>12, <1>13

-----------------------------------------------------------------------------
\* The node of the key gets both children of the past one.
LEMMA SetRefStep ==
  ASSUME NEW E, NEW n \in Nat, NEW h, NEW c, NEW p, NEW t, Runs(E, n, h, c, p, t), NEW lo, NEW hi,
         Change(E, t, c[t]), Place(E, t, c[t], lo, hi), SearchAt(E, n, h, t, c[t], lo, hi), ~Open(c, c[t].t_past),
         c[t].fn = "FN_SETREF", NEW r, r = execute_one_step_(h, t, c[t])
  PROVE  TreeInv(E, n, r.heap, [c EXCEPT ![t] = r.c], p) /\ Own(h, r.heap, t)
<1> DEFINE x == c[t]  o == x.t_past  z == x.t_cur  k == Key(z)  q == x.key
<1>1. /\ TreeInv(E, n, h, c, p) /\ p \in Nat /\ p <= NumTasks /\ t \in 1..p /\ t \in 0..NumTasks
      /\ x.st = "ST_RUNNING" /\ DOMAIN h \subseteq Nat \X Keys /\ IsContext(x) /\ DOMAIN c = 0..NumTasks
      /\ E[t] \in Counts /\ t \in Nat
  BY NumTasksAssumption DEF Runs, TreeInv, NodesInv, ContextsInv
<1>2. PathBelow(E, n, h, t-1, o, lo, hi) /\ o \in DOMAIN h BY PastBelow
<1>3. /\ q <= k => Keeps(E, n, h, t, h[o].rch, k, hi)
      /\ q >= k => Keeps(E, n, h, t, h[o].lch, lo, k)
      /\ Fenced(E[t], lo, k) /\ Fenced(E[t], k, hi) /\ k \in Keys
  BY <1>1, <1>2, PastKept
<1>4. q = k BY DEF SearchAt
<1>5. k \in Nat BY <1>3, KeyFacts
<1>6. Keeps(E, n, h, t, h[o].rch, k, hi) /\ Keeps(E, n, h, t, h[o].lch, lo, k) BY <1>3, <1>4, <1>5
<1>7. /\ z \in {t} \X Keys /\ Ver(z) = t /\ z # nullptr /\ Fenced(E[t], lo, hi) /\ Leads(k, Inside(E[t], lo, hi))
  BY <1>1, NullAssumption DEF Place, Ver
<1>8. z \in DOMAIN h => IsNode(h[z]) /\ h[z].val = E[t][k] BY <1>1, <1>7 DEF TreeInv, NodesInv, GoodNode
<1> DEFINE L == h[o].lch  R == h[o].rch
<1>9. r.heap = [h EXCEPT ![z].lch = L, ![z].rch = R] /\ r.c = Done(x) BY DEF execute_one_step_
<1>10. IsContext(r.c) /\ r.c.st = "ST_DONE" /\ r.c.root = x.root BY <1>1, <1>9 DEF IsContext, Done
<1> HIDE DEF L, R
<1> SUFFICES ASSUME NEW h2, h2 = r.heap, NEW c2, c2 = [c EXCEPT ![t] = r.c]
             PROVE  TreeInv(E, n, h2, c2, p) /\ Own(h, h2, t)
  OBVIOUS
<1>11. DOMAIN h2 = DOMAIN h /\ \A y \in DOMAIN h : y # z => h2[y] = h[y] BY <1>9
<1>12. z \in DOMAIN h => h2[z] = [val |-> h[z].val, aug |-> h[z].aug, lch |-> L, rch |-> R]
  <2>1. z \in DOMAIN h => h[z] = [val |-> h[z].val, aug |-> h[z].aug, lch |-> h[z].lch, rch |-> h[z].rch]
    BY <1>8 DEF IsNode
  <2> QED BY <1>9, <2>1
<1>13. z \in DOMAIN h => IsNode(h2[z]) /\ h2[z].val = E[t][k] /\ h2[z].lch = L /\ h2[z].rch = R
  BY <1>8, <1>12 DEF IsNode
<1>14. z \in DOMAIN h => GoodNode(E, n, h2, z, h2[z], FALSE)
  <2> SUFFICES ASSUME z \in DOMAIN h PROVE GoodNode(E, n, h2, z, h2[z], FALSE) OBVIOUS
  <2>1. Dom(h2, t) = Dom(h, t) BY <1>11 DEF Dom
  <2>2. /\ Holds(Dom(h2, t), E, h2[z].lch, E[t], Inside(E[t], lo, k)) /\ Synced(E, n, t, h2[z].lch)
        /\ Holds(Dom(h2, t), E, h2[z].rch, E[t], Inside(E[t], k, hi)) /\ Synced(E, n, t, h2[z].rch)
    BY <1>6, <1>13, <2>1 DEF Keeps, L, R
  <2> HIDE DEF z, x
  <2> QED BY <1>1, <1>7, <1>13, <2>2, NodeLinked
<1>15. c2[t] = r.c /\ DOMAIN c2 = 0..NumTasks /\ \A u \in 0..NumTasks : u # t => c2[u] = c[u] BY <1>1
<1>16. Links(E, n, h, c, t, h2, c2, {})
  <2>1. \A y \in DOMAIN h \ {} : y # c[t].t_cur => h2[y] = h[y] BY <1>11
  <2>2. DOMAIN h2 = DOMAIN h \cup {} BY <1>11
  <2>3. c[t].t_cur \in DOMAIN h \ {} => GoodNode(E, n, h2, c[t].t_cur, h2[c[t].t_cur], FALSE) BY <1>14
  <2>4. IsContext(c2[t]) /\ c2[t].st = "ST_DONE" /\ c2[t].root = c[t].root BY <1>10, <1>15
  <2> QED BY <1>15, <2>1, <2>2, <2>3, <2>4 DEF Links
<1>17. Own(h, h2, t) BY <1>7, <1>11 DEF Own
<1> QED BY <1>1, <1>16, <1>17, LinkStep

\* One step of a concatenation.
Concats(E, n, h, c, t, lo, hi, d, k, o) ==
  /\ Change(E, t, c[t]) /\ Place(E, t, c[t], lo, hi) /\ ConcatAt(E, n, h, t, c[t], lo, hi)
  /\ d = Descend(h, c[t]) /\ k = Key(c[t].t_cur) /\ o = Original(c[t])

\* One step of a concatenation.
LEMMA ConcatStep ==
  ASSUME NEW E, NEW n \in Nat, NEW h, NEW c, NEW p, NEW t, Runs(E, n, h, c, p, t), NEW lo, NEW hi,
         NEW d, NEW k, NEW o, Concats(E, n, h, c, t, lo, hi, d, k, o)
  PROVE  /\ c[t].dir \in {"DIR_LEFT", "DIR_RIGHT"} /\ d.root = c[t].root
         /\ c[t].dir = "DIR_LEFT" => ConcatFrom(E, n, h, t, d, lo, k) /\ Keeps(E, n, h, t, h[o].rch, k, hi)
         /\ c[t].dir # "DIR_LEFT" => ConcatFrom(E, n, h, t, d, k, hi) /\ Keeps(E, n, h, t, h[o].lch, lo, k)
<1>0. /\ Change(E, t, c[t]) /\ Place(E, t, c[t], lo, hi) /\ ConcatAt(E, n, h, t, c[t], lo, hi)
      /\ d = Descend(h, c[t]) /\ k = Key(c[t].t_cur) /\ o = Original(c[t])
  BY DEF Concats
<1> DEFINE x == c[t]  q == x.key  a == E[t-1]  b == E[t]  D == Com(h, n, t-1)
<1>1. /\ TreeInv(E, n, h, c, p) /\ t \in 1..p /\ t \in 0..NumTasks /\ t \in Nat /\ p \in Nat /\ p <= NumTasks
      /\ x.st = "ST_RUNNING" /\ DOMAIN h \subseteq Nat \X Keys /\ IsContext(x) /\ Finished(h, D, E)
      /\ a \in Counts /\ b \in Counts
  BY NumTasksAssumption DEF Runs, TreeInv, NodesInv, ContextsInv
<1>2. /\ x.fn = "FN_CONCAT" /\ b[q] = 0 /\ Fenced(a, lo, q) /\ Fenced(a, q, hi) /\ x.t_past \in D
      /\ x.t_l # nullptr /\ x.t_r # nullptr
      /\ Holds(D, E, x.t_l, a, Inside(a, lo, q)) /\ Holds(D, E, x.t_r, a, Inside(a, q, hi))
      /\ \/ x.dir = "DIR_RIGHT" /\ k = Key(x.t_l)
         \/ x.dir = "DIR_LEFT" /\ k = Key(x.t_r)
  BY <1>0 DEF ConcatAt
<1>3. /\ lo < q /\ q < hi /\ Fenced(b, lo, hi) /\ Leads(k, Inside(b, lo, hi)) BY <1>0 DEF Place
<1>4. q \in Keys /\ Differ(a, b, q) BY <1>0 DEF Change
<1>5. Fenced(b, lo, k) /\ Fenced(b, k, hi)
  <2> HIDE DEF b
  <2> QED BY <1>1, <1>3, Children
<1>6. ASSUME NEW i, NEW lo1, NEW hi1, Holds(D, E, i, a, Inside(a, lo1, hi1)), ~(lo1 < q /\ q < hi1)
      PROVE  Keeps(E, n, h, t, i, lo1, hi1)
  <2>1. q \notin Inside(a, lo1, hi1) /\ q \notin Inside(b, lo1, hi1) BY <1>6 DEF Inside
  <2>2. Holds(D, E, i, b, Inside(b, lo1, hi1))
    <3> HIDE DEF D, a, b, q
    <3> QED BY <1>4, <1>6, <2>1, HoldsSame
  <2>3. D \subseteq Dom(h, t)
    <3>1. \A y \in DOMAIN h : Ver(y) \in Nat BY <1>1, HeapFacts
    <3> QED BY <1>1, <3>1 DEF Com, Dom
  <2>4. Holds(Dom(h, t), E, i, b, Inside(b, lo1, hi1))
    <3> HIDE DEF D, b
    <3> QED BY <2>2, <2>3, HoldsMore
  <2>5. i # nullptr => Ver(i) <= n BY <2>2 DEF Holds, Com
  <2> QED BY <2>4, <2>5 DEF Keeps, Synced
<1>7. CASE x.dir = "DIR_RIGHT"
  <2> DEFINE v == h[x.t_l].rch
  <2>1. k = Key(x.t_l) /\ o = x.t_l BY <1>0, <1>2, <1>7 DEF Original, Source
  <2>2. /\ Holds(D, E, h[o].lch, a, Inside(a, lo, k)) /\ Holds(D, E, h[o].rch, a, Inside(a, k, q))
        /\ Fenced(a, k, q) /\ k \in Keys /\ k < q
    <3>1. /\ Holds(D, E, h[o].lch, a, Inside(a, lo, k)) /\ Holds(D, E, h[o].rch, a, Inside(a, k, q))
          /\ Fenced(a, k, q) /\ Leads(k, Inside(a, lo, q))
      <4> HIDE DEF D, a, q
      <4> QED BY <1>1, <1>2, <2>1, HeldRead
    <3> QED BY <3>1 DEF Leads, Inside
  <2>3. d = [x EXCEPT !.t_l = v] BY <1>0, <1>2, <1>7 DEF Descend, Source, Down
  <2> HIDE DEF v
  <2>4. /\ IsContext(d) /\ d.st = x.st /\ d.op = x.op /\ d.key = x.key /\ d.fn = x.fn /\ d.t_past = x.t_past
        /\ d.t_l = v /\ d.t_r = x.t_r /\ d.root = x.root
    BY <1>1, <2>3 DEF IsContext
  <2>5. Change(E, t, d) BY <1>0, <2>4 DEF Change
  <2>6. ConcatFrom(E, n, h, t, d, k, hi) BY <1>1, <1>2, <1>3, <1>5, <2>1, <2>2, <2>4, <2>5 DEF ConcatFrom, v
  <2>7. ~(lo < q /\ q < k) BY <1>4, <2>2, KeyFacts
  <2>8. Keeps(E, n, h, t, h[o].lch, lo, k) BY <1>6, <2>2, <2>7
  <2> QED BY <1>7, <2>4, <2>6, <2>8
<1>8. CASE x.dir = "DIR_LEFT"
  <2> DEFINE v == h[x.t_r].lch
  <2>1. k = Key(x.t_r) /\ o = x.t_r BY <1>0, <1>2, <1>8 DEF Original, Source
  <2>2. /\ Holds(D, E, h[o].lch, a, Inside(a, q, k)) /\ Holds(D, E, h[o].rch, a, Inside(a, k, hi))
        /\ Fenced(a, q, k) /\ k \in Keys /\ q < k
    <3>1. /\ Holds(D, E, h[o].lch, a, Inside(a, q, k)) /\ Holds(D, E, h[o].rch, a, Inside(a, k, hi))
          /\ Fenced(a, q, k) /\ Leads(k, Inside(a, q, hi))
      <4> HIDE DEF D, a, q
      <4> QED BY <1>1, <1>2, <2>1, HeldRead
    <3> QED BY <3>1 DEF Leads, Inside
  <2>3. d = [x EXCEPT !.t_r = v] BY <1>0, <1>2, <1>8 DEF Descend, Source, Down
  <2> HIDE DEF v
  <2>4. /\ IsContext(d) /\ d.st = x.st /\ d.op = x.op /\ d.key = x.key /\ d.fn = x.fn /\ d.t_past = x.t_past
        /\ d.t_r = v /\ d.t_l = x.t_l /\ d.root = x.root
    BY <1>1, <2>3 DEF IsContext
  <2>5. Change(E, t, d) BY <1>0, <2>4 DEF Change
  <2>6. ConcatFrom(E, n, h, t, d, lo, k) BY <1>1, <1>2, <1>3, <1>5, <2>1, <2>2, <2>4, <2>5 DEF ConcatFrom, v
  <2>7. ~(k < q /\ q < hi) BY <1>4, <2>2, KeyFacts
  <2>8. Keeps(E, n, h, t, h[o].rch, k, hi) BY <1>6, <2>2, <2>7
  <2> QED BY <1>8, <2>4, <2>6, <2>8
<1> QED BY <1>2, <1>7, <1>8

-----------------------------------------------------------------------------
\* A step leads to y for the child it goes down to, and keeps the other one.
Finds(E, n, h, c, t, lo, hi, y) ==
  LET o == Original(c)
      k == Key(c.t_cur)
  IN /\ c.dir \in {"DIR_LEFT", "DIR_RIGHT"}
     /\ c.dir = "DIR_LEFT" => Outcome(E, n, h, t, y, lo, k) /\ Keeps(E, n, h, t, h[o].rch, k, hi)
     /\ c.dir # "DIR_LEFT" => Outcome(E, n, h, t, y, k, hi) /\ Keeps(E, n, h, t, h[o].lch, lo, k)

Found(E, n, h, c, p, t, lo, hi, y, d) ==
  /\ Runs(E, n, h, c, p, t) /\ Place(E, t, c[t], lo, hi) /\ Finds(E, n, h, c[t], t, lo, hi, y)
  /\ IsContext(d) /\ d.st = y.c.st /\ d.root = c[t].root
  /\ y.c.st = "ST_RUNNING" => d = [y.c EXCEPT !.t_cur = y.ref] /\ d.t_cur = y.ref

\* A step that leads to an outcome keeps TreeInv and goes down one level.
LEMMA LinkFound ==
  ASSUME NEW E, NEW n \in Nat, NEW h, NEW c, NEW p, NEW t, NEW lo, NEW hi, NEW y, NEW d,
         Found(E, n, h, c, p, t, lo, hi, y, d)
  PROVE  /\ TreeInv(E, n, Alloc(SetChildren(h, c[t], y.ref), y.new), [c EXCEPT ![t] = d], p)
         /\ Own(h, Alloc(SetChildren(h, c[t], y.ref), y.new), t)
         /\ Deeper(E, t, c[t], d)
<1>1. PICK o : o = Original(c[t]) OBVIOUS
<1>2. LinksOutcome(E, n, h, c, p, t, lo, hi, o, y, d) BY <1>1 DEF Found, Runs, Finds, Keeps, LinksOutcome
<1> QED BY <1>2, LinkOutcome, LinkDeeper

\* A step of any kind.
MaySet(n, h, c) == c.fn = "FN_SEARCH" => (NeedsCommitted(h, Descend(h, c)) => n >= Ver(Descend(h, c).t_past))

\* execute_one_step_ keeps TreeInv and goes down one level, if the node it copies
\* is closed.
LEMMA OneStep ==
  ASSUME NEW E, NEW n \in Nat, NEW h, NEW c, NEW p, NEW t, Runs(E, n, h, c, p, t),
         ~Open(c, Original(c[t])), MaySet(n, h, c[t]), NEW r, r = execute_one_step_(h, t, c[t])
  PROVE  TreeInv(E, n, r.heap, [c EXCEPT ![t] = r.c], p) /\ Own(h, r.heap, t) /\ Deeper(E, t, c[t], r.c)
<1>1. PICK lo, hi : TaskAt(E, n, h, t, c[t], lo, hi) BY DEF Runs, TreeInv, TasksInv
<1>2. Change(E, t, c[t]) /\ Place(E, t, c[t], lo, hi) BY <1>1 DEF TaskAt
<1> DEFINE d == Descend(h, c[t])
<1>3. CASE SearchAt(E, n, h, t, c[t], lo, hi) /\ c[t].fn = "FN_SEARCH"
  <2> DEFINE y == update_(h, t, d)  e == [y.c EXCEPT !.t_cur = y.ref]
  <2>1. r.heap = Alloc(SetChildren(h, c[t], y.ref), y.new) /\ r.c = e BY <1>3 DEF execute_one_step_
  <2>2. ~Open(c, c[t].t_past) /\ c[t].fn = "FN_SEARCH" /\ SearchAt(E, n, h, t, c[t], lo, hi) BY <1>3 DEF Original
  <2>3. NeedsCommitted(h, d) => n >= Ver(d.t_past) BY <1>3 DEF MaySet
  <2>4. PICK f : f = d OBVIOUS
  <2> HIDE DEF d
  <2>5. f = Descend(h, c[t]) /\ (NeedsCommitted(h, f) => n >= Ver(f.t_past)) BY <2>3, <2>4 DEF d
  <2>6. TreeInv(E, n, Alloc(SetChildren(h, c[t], update_(h, t, f).ref), update_(h, t, f).new),
                [c EXCEPT ![t] = [update_(h, t, f).c EXCEPT !.t_cur = update_(h, t, f).ref]], p)
       /\ Own(h, Alloc(SetChildren(h, c[t], update_(h, t, f).ref), update_(h, t, f).new), t)
       /\ Deeper(E, t, c[t], [update_(h, t, f).c EXCEPT !.t_cur = update_(h, t, f).ref])
    BY <1>2, <2>2, <2>5, SearchStep
  <2> QED BY <2>1, <2>4, <2>6
<1>4. CASE SearchAt(E, n, h, t, c[t], lo, hi) /\ c[t].fn = "FN_SETREF"
  <2>1. ~Open(c, c[t].t_past) BY <1>4 DEF Original
  <2>2. r.c.st = "ST_DONE"
    <3>1. IsContext(c[t])
      <4>1. t \in 0..NumTasks BY NumTasksAssumption DEF Runs
      <4> QED BY <4>1 DEF Runs, TreeInv, ContextsInv
    <3> QED BY <1>4, <3>1 DEF execute_one_step_, Done, IsContext
  <2>3. Deeper(E, t, c[t], r.c) BY <2>2 DEF Deeper
  <2> QED BY <1>2, <1>4, <2>1, <2>3, SetRefStep
<1>5. CASE ConcatAt(E, n, h, t, c[t], lo, hi)
  <2> DEFINE k == Key(c[t].t_cur)  o == Original(c[t])  y == concat_(h, t, d)  e == [y.c EXCEPT !.t_cur = y.ref]
  <2>1. /\ c[t].dir \in {"DIR_LEFT", "DIR_RIGHT"} /\ d.root = c[t].root
        /\ c[t].dir = "DIR_LEFT" => ConcatFrom(E, n, h, t, d, lo, k) /\ Keeps(E, n, h, t, h[o].rch, k, hi)
        /\ c[t].dir # "DIR_LEFT" => ConcatFrom(E, n, h, t, d, k, hi) /\ Keeps(E, n, h, t, h[o].lch, lo, k)
    <3>1. Concats(E, n, h, c, t, lo, hi, d, k, o) BY <1>2, <1>5 DEF Concats
    <3> HIDE DEF d, k, o, y
    <3> QED BY <3>1, ConcatStep
  <2>2. r.heap = Alloc(SetChildren(h, c[t], y.ref), y.new) /\ r.c = e BY <1>5 DEF ConcatAt, execute_one_step_
  <2>3. Finished(h, Com(h, n, t-1), E) /\ DOMAIN h \subseteq Nat \X Keys BY DEF Runs, TreeInv, NodesInv
  <2> HIDE DEF d
  <2>4. ASSUME NEW a, NEW b, ConcatFrom(E, n, h, t, d, a, b) PROVE Outcome(E, n, h, t, y, a, b) /\ y.c.root = d.root
    BY <2>3, <2>4, ConcatOutcome
  <2> HIDE DEF y
  <2>5. Finds(E, n, h, c[t], t, lo, hi, y) /\ y.c.root = c[t].root BY <2>1, <2>4 DEF Finds
  <2>6. IsContext(y.c) BY <2>5 DEF Finds, Outcome
  <2>7. IsContext(e) /\ e.st = y.c.st /\ e.root = c[t].root /\ e.t_cur = y.ref BY <2>5, <2>6 DEF IsContext
  <2> HIDE DEF e
  <2>8. e = [y.c EXCEPT !.t_cur = y.ref] BY DEF e
  <2>9. /\ TreeInv(E, n, Alloc(SetChildren(h, c[t], y.ref), y.new), [c EXCEPT ![t] = e], p)
        /\ Own(h, Alloc(SetChildren(h, c[t], y.ref), y.new), t) /\ Deeper(E, t, c[t], e)
    <3>1. Found(E, n, h, c, p, t, lo, hi, y, e) BY <1>2, <2>5, <2>7, <2>8 DEF Found
    <3> QED BY <3>1, LinkFound
  <2> QED BY <2>2, <2>9
<1> QED BY <1>1, <1>3, <1>4, <1>5 DEF TaskAt, SearchAt

-----------------------------------------------------------------------------
\* A task that makes the rest of its version at once.
SearchRest(E, n, h, c, t, lo, hi, d, s) ==
  /\ Change(E, t, c[t]) /\ Place(E, t, c[t], lo, hi) /\ SearchAt(E, n, h, t, c[t], lo, hi) /\ ~Open(c, c[t].t_past)
  /\ c[t].fn = "FN_SEARCH" /\ n >= Ver(c[t].t_past) /\ d = Descend(h, c[t])
  /\ s = IF c[t].op = "OP_INSERT" THEN search_insert(h, t, d.t_past, c[t].key)
                                  ELSE search_delete(h, t, d.t_past, c[t].key)
ConcatRest(E, n, h, c, t, lo, hi, d, s) ==
  /\ Change(E, t, c[t]) /\ Place(E, t, c[t], lo, hi) /\ ConcatAt(E, n, h, t, c[t], lo, hi)
  /\ d = Descend(h, c[t]) /\ s = process_concat(h, t, d.t_l, d.t_r)
FindsRest(E, n, h, c, t, lo, hi, d, s) ==
  Finds(E, n, h, c[t], t, lo, hi, Yield(s.ref, s.new, Done(d))) /\ IsContext(d) /\ d.root = c[t].root

\* search_insert and search_delete make all of the rest of a search.
LEMMA CompleteSearch ==
  ASSUME NEW E, NEW n \in Nat, NEW h, NEW c, NEW p, NEW t, Runs(E, n, h, c, p, t), NEW lo, NEW hi, NEW d, NEW s,
         SearchRest(E, n, h, c, t, lo, hi, d, s)
  PROVE  FindsRest(E, n, h, c, t, lo, hi, d, s)
<1>0. /\ Change(E, t, c[t]) /\ Place(E, t, c[t], lo, hi) /\ SearchAt(E, n, h, t, c[t], lo, hi) /\ ~Open(c, c[t].t_past)
      /\ c[t].fn = "FN_SEARCH" /\ n >= Ver(c[t].t_past) /\ d = Descend(h, c[t])
      /\ s = IF c[t].op = "OP_INSERT" THEN search_insert(h, t, d.t_past, c[t].key)
                                      ELSE search_delete(h, t, d.t_past, c[t].key)
  BY DEF SearchRest
<1> DEFINE x == c[t]  o == x.t_past  k == Key(x.t_cur)  q == x.key  a == E[t-1]  b == E[t]
           D == Com(h, n, t-1)  left == x.dir = "DIR_LEFT"  v == IF left THEN h[o].lch ELSE h[o].rch
<1>1. /\ t \in 1..p /\ t \in 0..NumTasks /\ t \in Nat /\ DOMAIN h \subseteq Nat \X Keys /\ IsContext(x)
      /\ Finished(h, D, E) /\ a \in Counts /\ b \in Counts /\ TreeInv(E, n, h, c, p)
  BY NumTasksAssumption DEF Runs, TreeInv, NodesInv, ContextsInv
<1>2. PathBelow(E, n, h, t-1, o, lo, hi) /\ o \in DOMAIN h BY <1>0, PastBelow
<1>3. /\ q <= k => Keeps(E, n, h, t, h[o].rch, k, hi)
      /\ q >= k => Keeps(E, n, h, t, h[o].lch, lo, k)
      /\ Fenced(b, lo, k) /\ Fenced(b, k, hi) /\ k \in Keys
  BY <1>0, <1>1, <1>2, PastKept
<1>4. /\ q \in Keys /\ lo < q /\ q < hi /\ k = Key(o) /\ Hash[q] < Hash[k] /\ Fenced(a, lo, hi) /\ o # nullptr
      /\ x.dir = IF q < k THEN "DIR_LEFT" ELSE "DIR_RIGHT"
      /\ Holds(Dom(h, t-1), E, o, a, Inside(a, lo, hi)) /\ Differ(a, b, q)
  <2>1. q \in Keys /\ k = Key(o) BY <1>0 DEF Change, SearchAt
  <2>2. ~(Hash[q] < Hash[q]) BY <2>1, HashAssumption
  <2> QED BY <1>0, <2>1, <2>2 DEF SearchAt, Place, Change
<1>5. q \in Nat /\ k \in Nat /\ q # k /\ (left <=> q < k) BY <1>3, <1>4, KeyFacts
<1>6. Holds(D, E, o, a, Inside(a, lo, hi))
  <2>1. o \in Dom(h, t-1) /\ Inside(a, lo, hi) # {}
    <3> HIDE DEF a, o
    <3> QED BY <1>4, HeldLeads
  <2>2. Ver(o) \in Nat /\ Ver(o) <= n BY <1>0, <1>1, <1>2, HeapFacts
  <2>3. o \in D BY <2>1, <2>2 DEF Com, Dom
  <2> HIDE DEF D, a, o
  <2> QED BY <1>4, <2>1, <2>3 DEF Holds
<1>7. /\ Holds(D, E, h[o].lch, a, Inside(a, lo, k)) /\ Holds(D, E, h[o].rch, a, Inside(a, k, hi))
      /\ Fenced(a, lo, k) /\ Fenced(a, k, hi)
  <2> HIDE DEF D, a, o
  <2> QED BY <1>1, <1>4, <1>6, HeldRead
<1>8. d = [x EXCEPT !.t_past = v] BY <1>0 DEF Descend, Down
<1> HIDE DEF v
<1>9. IsContext(d) /\ d.root = x.root /\ d.t_past = v BY <1>1, <1>8 DEF IsContext
<1>10. ASSUME NEW lo1, NEW hi1, lo1 < q, q < hi1, Fenced(a, lo1, hi1), Fenced(b, lo1, hi1),
              Holds(D, E, v, a, Inside(a, lo1, hi1))
       PROVE  Outcome(E, n, h, t, Yield(s.ref, s.new, Done(d)), lo1, hi1)
  <2>1. PICK N \in Nat : \A j \in Keys : Hash[j] < N BY HashBound
  <2>2. \A j \in Inside(a, lo1, hi1) : Hash[j] < N BY <2>1 DEF Inside
  <2>3. Result(D, E, t, s, b, lo1, hi1)
    <3>1. CASE x.op = "OP_INSERT"
      <4>1. b[q] = a[q] + 1 BY <1>0, <3>1 DEF Change
      <4>2. s = search_insert(h, t, v, q) BY <1>0, <1>9, <3>1
      <4> HIDE DEF a, b, D, q
      <4> QED BY <1>1, <1>4, <1>10, <2>1, <2>2, <4>1, <4>2, InsertSpec DEF b
    <3>2. CASE x.op = "OP_DELETE"
      <4>1. b[q] = IF a[q] > 0 THEN a[q] - 1 ELSE 0 BY <1>0, <3>2 DEF Change
      <4>2. s = search_delete(h, t, v, q) BY <1>0, <1>9, <3>2
      <4> HIDE DEF a, b, D, q
      <4> QED BY <1>1, <1>4, <1>10, <2>1, <2>2, <4>1, <4>2, DeleteSpec DEF b
    <3> QED BY <1>0, <3>1, <3>2 DEF Change
  <2>4. PICK y : y = Yield(s.ref, s.new, Done(d)) OBVIOUS
  <2>5. y.ref = s.ref /\ y.new = s.new /\ IsContext(y.c) /\ y.c.st = "ST_DONE"
    BY <1>9, <2>4 DEF Yield, Done, IsContext
  <2>6. Result(D, E, t, y, b, lo1, hi1) BY <2>3, <2>5 DEF Result
  <2>7. Outcome(E, n, h, t, y, lo1, hi1) BY <1>1, <2>5, <2>6, OutcomeDone
  <2> QED BY <2>4, <2>7
<1>11. CASE left
  <2>1. Outcome(E, n, h, t, Yield(s.ref, s.new, Done(d)), lo, k)
    BY <1>3, <1>4, <1>5, <1>7, <1>10, <1>11 DEF v
  <2>2. Keeps(E, n, h, t, h[o].rch, k, hi) /\ Original(x) = o BY <1>0, <1>3, <1>5, <1>11 DEF Original
  <2> QED BY <1>9, <1>11, <2>1, <2>2 DEF Finds, FindsRest
<1>12. CASE ~left
  <2>1. Outcome(E, n, h, t, Yield(s.ref, s.new, Done(d)), k, hi)
    BY <1>3, <1>4, <1>5, <1>7, <1>10, <1>12 DEF v
  <2>2. Keeps(E, n, h, t, h[o].lch, lo, k) /\ Original(x) = o BY <1>0, <1>3, <1>5, <1>12 DEF Original
  <2>3. x.dir = "DIR_RIGHT" BY <1>4, <1>5, <1>12
  <2> QED BY <1>9, <1>12, <2>1, <2>2, <2>3 DEF Finds, FindsRest
<1> QED BY <1>11, <1>12

\* process_concat makes all of the rest of a concatenation.
LEMMA CompleteConcat ==
  ASSUME NEW E, NEW n \in Nat, NEW h, NEW c, NEW p, NEW t, Runs(E, n, h, c, p, t), NEW lo, NEW hi,
         NEW d, NEW s, ConcatRest(E, n, h, c, t, lo, hi, d, s)
  PROVE  FindsRest(E, n, h, c, t, lo, hi, d, s)
<1>0. /\ Change(E, t, c[t]) /\ Place(E, t, c[t], lo, hi) /\ ConcatAt(E, n, h, t, c[t], lo, hi)
      /\ d = Descend(h, c[t]) /\ s = process_concat(h, t, d.t_l, d.t_r)
  BY DEF ConcatRest
<1> DEFINE x == c[t]  o == Original(x)  k == Key(x.t_cur)  D == Com(h, n, t-1)  y == Yield(s.ref, s.new, Done(d))
<1>1. /\ x.dir \in {"DIR_LEFT", "DIR_RIGHT"} /\ d.root = x.root
      /\ x.dir = "DIR_LEFT" => ConcatFrom(E, n, h, t, d, lo, k) /\ Keeps(E, n, h, t, h[o].rch, k, hi)
      /\ x.dir # "DIR_LEFT" => ConcatFrom(E, n, h, t, d, k, hi) /\ Keeps(E, n, h, t, h[o].lch, lo, k)
  <2>1. Concats(E, n, h, c, t, lo, hi, d, k, o) BY <1>0 DEF Concats
  <2> HIDE DEF k, o, D, y
  <2> QED BY <2>1, ConcatStep
<1>2. IsContext(d) BY <1>1 DEF ConcatFrom
<1>3. /\ t \in 1..p /\ t \in Nat /\ DOMAIN h \subseteq Nat \X Keys /\ Finished(h, D, E) BY DEF Runs, TreeInv, NodesInv
<1>4. y.ref = s.ref /\ y.new = s.new /\ IsContext(y.c) /\ y.c.st = "ST_DONE"
  BY <1>2 DEF Yield, Done, IsContext
<1> HIDE DEF y
<1>5. ASSUME NEW lo1, NEW hi1, ConcatFrom(E, n, h, t, d, lo1, hi1) PROVE Outcome(E, n, h, t, y, lo1, hi1)
  <2> DEFINE q == d.key  a == E[t-1]  b == E[t]
  <2>1. /\ q \in Keys /\ a \in Counts /\ b \in Counts /\ Differ(a, b, q) /\ b[q] = 0
        /\ lo1 < q /\ q < hi1 /\ Fenced(a, lo1, q) /\ Fenced(a, q, hi1) /\ Fenced(b, lo1, hi1)
        /\ Holds(D, E, d.t_l, a, Inside(a, lo1, q)) /\ Holds(D, E, d.t_r, a, Inside(a, q, hi1))
    BY <1>5 DEF ConcatFrom, Change
  <2>2. PICK N \in Nat : \A j \in Keys : Hash[j] < N BY HashBound
  <2>3. \A j \in Inside(b, lo1, hi1) : Hash[j] < N BY <2>2 DEF Inside
  <2>4. Result(D, E, t, s, b, lo1, hi1)
    <3> HIDE DEF a, b, q, D
    <3> QED BY <1>0, <1>3, <2>1, <2>2, <2>3, ConcatSpec DEF b
  <2>5. Result(D, E, t, y, b, lo1, hi1) BY <1>4, <2>4 DEF Result
  <2> QED BY <1>3, <1>4, <2>5, OutcomeDone
<1>6. Finds(E, n, h, x, t, lo, hi, y) BY <1>1, <1>5 DEF Finds
<1> QED BY <1>1, <1>2, <1>6 DEF y, FindsRest

\* execute_to_complete_ keeps TreeInv, if the version before is committed where
\* it reads it.
LEMMA CompleteStep ==
  ASSUME NEW E, NEW n \in Nat, NEW h, NEW c, NEW p, NEW t, Runs(E, n, h, c, p, t), n >= Ver(c[t].t_past),
         c[t].fn # "FN_CONCAT" => ~Open(c, c[t].t_past), NEW r, r = execute_to_complete_(h, t, c[t])
  PROVE  TreeInv(E, n, r.heap, [c EXCEPT ![t] = r.c], p) /\ Own(h, r.heap, t)
<1>1. PICK lo, hi : TaskAt(E, n, h, t, c[t], lo, hi) BY DEF Runs, TreeInv, TasksInv
<1>2. Change(E, t, c[t]) /\ Place(E, t, c[t], lo, hi) BY <1>1 DEF TaskAt
<1>3. CASE SearchAt(E, n, h, t, c[t], lo, hi) /\ c[t].fn = "FN_SETREF"
  <2>1. ~Open(c, c[t].t_past) /\ r = execute_one_step_(h, t, c[t]) BY <1>3 DEF execute_to_complete_
  <2> QED BY <1>2, <1>3, <2>1, SetRefStep
<1>4. ASSUME NEW d, d = Descend(h, c[t]), NEW s, r.heap = Alloc(SetChildren(h, c[t], s.ref), s.new), r.c = Done(d),
             Finds(E, n, h, c[t], t, lo, hi, Yield(s.ref, s.new, Done(d))), IsContext(d), d.root = c[t].root
      PROVE  TreeInv(E, n, r.heap, [c EXCEPT ![t] = r.c], p) /\ Own(h, r.heap, t)
  <2>1. PICK y : y = Yield(s.ref, s.new, Done(d)) OBVIOUS
  <2>2. y.ref = s.ref /\ y.new = s.new /\ y.c = Done(d) BY <2>1 DEF Yield
  <2>3. PICK e : e = Done(d) OBVIOUS
  <2>4. IsContext(e) /\ e.st = "ST_DONE" /\ e.root = c[t].root BY <1>4, <2>3 DEF IsContext, Done
  <2>5. e.st = y.c.st /\ y.c.st # "ST_RUNNING" BY <2>2, <2>3, <2>4
  <2>6. Finds(E, n, h, c[t], t, lo, hi, y) BY <1>4, <2>1
  <2>7. /\ TreeInv(E, n, Alloc(SetChildren(h, c[t], y.ref), y.new), [c EXCEPT ![t] = e], p)
        /\ Own(h, Alloc(SetChildren(h, c[t], y.ref), y.new), t)
    <3>1. Found(E, n, h, c, p, t, lo, hi, y, e) BY <1>2, <2>4, <2>5, <2>6 DEF Found
    <3> QED BY <3>1, LinkFound
  <2> QED BY <1>4, <2>2, <2>3, <2>7
<1>5. CASE SearchAt(E, n, h, t, c[t], lo, hi) /\ c[t].fn = "FN_SEARCH"
  <2>1. PICK d : d = Descend(h, c[t]) OBVIOUS
  <2>2. PICK s : s = IF c[t].op = "OP_INSERT" THEN search_insert(h, t, d.t_past, c[t].key)
                                              ELSE search_delete(h, t, d.t_past, c[t].key)
    OBVIOUS
  <2>3. r.heap = Alloc(SetChildren(h, c[t], s.ref), s.new) /\ r.c = Done(d)
    BY <1>5, <2>1, <2>2 DEF execute_to_complete_
  <2>4. ~Open(c, c[t].t_past) BY <1>5
  <2>5. SearchRest(E, n, h, c, t, lo, hi, d, s) BY <1>2, <1>5, <2>1, <2>2, <2>4 DEF SearchRest
  <2>6. FindsRest(E, n, h, c, t, lo, hi, d, s) BY <2>5, CompleteSearch
  <2> QED BY <1>4, <2>1, <2>3, <2>6 DEF FindsRest
<1>6. CASE ConcatAt(E, n, h, t, c[t], lo, hi)
  <2>1. PICK d : d = Descend(h, c[t]) OBVIOUS
  <2>2. PICK s : s = process_concat(h, t, d.t_l, d.t_r) OBVIOUS
  <2>3. r.heap = Alloc(SetChildren(h, c[t], s.ref), s.new) /\ r.c = Done(d)
    BY <1>6, <2>1, <2>2 DEF ConcatAt, execute_to_complete_
  <2>5. ConcatRest(E, n, h, c, t, lo, hi, d, s) BY <1>2, <1>6, <2>1, <2>2 DEF ConcatRest
  <2>6. FindsRest(E, n, h, c, t, lo, hi, d, s) BY <2>5, CompleteConcat
  <2> QED BY <1>4, <2>1, <2>3, <2>6 DEF FindsRest
<1> QED BY <1>1, <1>3, <1>5, <1>6 DEF TaskAt, SearchAt

-----------------------------------------------------------------------------
\* The step at the root, which issues a task.
Issues(E, n, h, c, p, t) ==
  /\ TreeInv(E, n, h, c, p) /\ p \in Nat /\ t = p + 1 /\ t <= NumTasks
  /\ \A v \in 0..t : E[v] \in Counts
  /\ Finished(h, Com(h, n, p), E)

\* The master makes the first step of a task, at the root.
LEMMA IssueStep ==
  ASSUME NEW E, NEW n \in Nat, NEW h, NEW c, NEW p, NEW t, Issues(E, n, h, c, p, t), 
         NEW x, IsContext(x), x.st = "ST_RUNNING", x.fn = "FN_SEARCH", x.t_past = c[p].root,
         Change(E, t, x), NeedsCommitted(h, x) => n >= Ver(x.t_past), NEW y, y = update_(h, t, x)
  PROVE  /\ TreeInv(E, n, Alloc(h, y.new), [c EXCEPT ![t] = [y.c EXCEPT !.root = y.ref, !.t_cur = y.ref]], t)
         /\ Own(h, Alloc(h, y.new), t)
         /\ y.c.st = "ST_RUNNING" => Key(y.ref) \in Keys /\ Ancestors(E[t], Key(y.ref)) = {}
<1> SUFFICES ASSUME NEW h2, h2 = Alloc(h, y.new), NEW d, d = [y.c EXCEPT !.root = y.ref, !.t_cur = y.ref]
             PROVE  TreeInv(E, n, h2, [c EXCEPT ![t] = d], t) /\ Own(h, h2, t)
                    /\ (y.c.st = "ST_RUNNING" => Key(y.ref) \in Keys /\ Ancestors(E[t], Key(y.ref)) = {})
  OBVIOUS
<1>1. /\ TreeInv(E, n, h, c, p) /\ p \in Nat /\ t = p + 1 /\ t <= NumTasks /\ t \in Nat /\ t \in TaskIds /\ t - 1 = p
      /\ t \in 0..NumTasks /\ E[t] \in Counts /\ E[p] \in Counts /\ Finished(h, Com(h, n, t-1), E)
      /\ DOMAIN h \subseteq Nat \X Keys /\ DOMAIN h \subseteq (0..p) \X Keys /\ DOMAIN c = 0..NumTasks
  BY NumTasksAssumption DEF Issues, TreeInv, NodesInv, ContextsInv, TaskIds
<1>3. -1 < x.key /\ x.key < Top BY KeyFacts DEF Change
<1>4. Fenced(E[p], -1, Top) /\ Fenced(E[t], -1, Top) BY <1>1, WholeVersion
<1>5. Holds(Dom(h, p), E, c[p].root, E[p], Inside(E[p], -1, Top)) /\ Synced(E, n, p, c[p].root)
  <2>1. p \in 0..p BY <1>1
  <2>2. Holds(Dom(h, p), E, c[p].root, E[p], Present(E[p])) /\ Synced(E, n, p, c[p].root)
    BY <1>1, <2>1 DEF TreeInv, RootsInv
  <2>3. Present(E[p]) = Inside(E[p], -1, Top) BY WholeVersion
  <2> QED BY <2>2, <2>3
<1>6. SearchFrom(E, n, h, t, x, -1, Top) BY <1>1, <1>3, <1>4, <1>5 DEF SearchFrom
<1>7. Values(E, h) BY <1>1 DEF Values, TreeInv, NodesInv, GoodNode
<1>8. Outcome(E, n, h, t, y, -1, Top) BY <1>1, <1>6, <1>7, UpdateOutcome
<1>9. IsContext(d) /\ d.st = y.c.st /\ d.t_cur = y.ref /\ d.root = y.ref
  <2>1. PICK e : e = y.c OBVIOUS
  <2>2. IsContext(e) BY <1>8, <2>1 DEF Outcome
  <2>3. PICK r : r = y.ref OBVIOUS
  <2>4. d = [e EXCEPT !.root = r, !.t_cur = r] BY <2>1, <2>3
  <2>5. PICK f : f = [e EXCEPT !.root = r] OBVIOUS
  <2>6. f = [st |-> e.st, op |-> e.op, key |-> e.key, fn |-> e.fn, dir |-> e.dir, t_cur |-> e.t_cur,
             t_past |-> e.t_past, t_l |-> e.t_l, t_r |-> e.t_r, root |-> r]
    BY <2>2, <2>5 DEF IsContext
  <2>7. d = [f EXCEPT !.t_cur = r] BY <2>4, <2>5
  <2>8. d = [st |-> e.st, op |-> e.op, key |-> e.key, fn |-> e.fn, dir |-> e.dir, t_cur |-> r,
             t_past |-> e.t_past, t_l |-> e.t_l, t_r |-> e.t_r, root |-> r]
    BY <2>6, <2>7
  <2> QED BY <2>1, <2>3, <2>8 DEF IsContext
<1>10. Allocated(E, n, h, t, y, h, h2, d, -1, Top)
  <2>1. Allocates(h, y, h, h2, d) BY <1>9 DEF Allocates
  <2> QED BY <1>1, <1>8, <2>1, OutcomeNodes
<1>11. /\ DOMAIN h2 = DOMAIN h \cup At(y.new) /\ \A z \in DOMAIN h \ At(y.new) : h2[z] = h[z]
       /\ \A z \in At(y.new) : GoodNode(E, n, h2, z, h2[z], d.st = "ST_RUNNING" /\ d.t_cur = z)
       /\ d.st \in {"ST_RUNNING", "ST_DONE"}
       /\ Holds(Dom(h2, t), E, y.ref, E[t], Inside(E[t], -1, Top)) /\ Synced(E, n, t, y.ref)
       /\ At(y.new) \subseteq {t} \X Keys
  BY <1>8, <1>10 DEF Allocated, Outcome
<1>12. d.st = "ST_RUNNING" => \E lo, hi : TaskAt(E, n, h2, t, d, lo, hi)
  <2> SUFFICES ASSUME d.st = "ST_RUNNING" PROVE TaskAt(E, n, h2, t, d, -1, Top) OBVIOUS
  <2>1. PICK e : e = [y.c EXCEPT !.t_cur = y.ref] OBVIOUS
  <2>2. TaskAt(E, n, h, t, e, -1, Top) BY <1>8, <1>9, <2>1 DEF Outcome
  <2>3. DOMAIN h \subseteq DOMAIN h2 BY <1>11
  <2>4. TaskAt(E, n, h2, t, e, -1, Top) BY <1>1, <2>2, <2>3, TaskAtMore
  <2>5. /\ d.key = e.key /\ d.op = e.op /\ d.fn = e.fn /\ d.dir = e.dir /\ d.t_cur = e.t_cur
        /\ d.t_past = e.t_past /\ d.t_l = e.t_l /\ d.t_r = e.t_r
    <3>1. IsContext(y.c) BY <1>8 DEF Outcome
    <3> QED BY <2>1, <3>1 DEF IsContext
  <2>6. Change(E, t, d) BY <2>4, <2>5 DEF TaskAt, Change
  <2>7. Place(E, t, d, -1, Top) BY <2>4, <2>5 DEF TaskAt, Place
  <2>8. SearchAt(E, n, h2, t, e, -1, Top) => SearchAt(E, n, h2, t, d, -1, Top) BY <2>5 DEF SearchAt
  <2>9. ConcatAt(E, n, h2, t, e, -1, Top) => ConcatAt(E, n, h2, t, d, -1, Top) BY <2>5 DEF ConcatAt
  <2> QED BY <2>4, <2>6, <2>7, <2>8, <2>9 DEF TaskAt
<1>14. \A z \in DOMAIN h2 : Ver(z) = t => z \in At(y.new)
  <2>1. \A z \in DOMAIN h : Ver(z) # t BY <1>1 DEF Ver
  <2> QED BY <1>11, <2>1
<1>15. \A z \in DOMAIN h : Ver(z) # t => h2[z] = h[z] BY <1>11 DEF Ver
<1>16. \A z \in DOMAIN h2 : Ver(z) = t => GoodNode(E, n, h2, z, h2[z], d.st = "ST_RUNNING" /\ d.t_cur = z)
  BY <1>11, <1>14
<1>17. Holds(Dom(h2, t), E, d.root, E[t], Present(E[t])) /\ Synced(E, n, t, d.root)
  <2>1. Present(E[t]) = Inside(E[t], -1, Top) BY WholeVersion
  <2> QED BY <1>9, <1>11, <2>1
<1>18. DOMAIN h \subseteq DOMAIN h2 /\ DOMAIN h2 \subseteq DOMAIN h \cup {t} \X Keys BY <1>11
<1>19. Lands(E, n, h, h2, t, d) BY <1>9, <1>11, <1>12, <1>15, <1>16, <1>17, <1>18 DEF Lands
<1>20. DOMAIN c = 0..NumTasks /\ t \in 0..NumTasks BY <1>1
<1>21. ASSUME y.c.st = "ST_RUNNING" PROVE Key(y.ref) \in Keys /\ Ancestors(E[t], Key(y.ref)) = {}
  <2>1. PICK e : e = [y.c EXCEPT !.t_cur = y.ref] OBVIOUS
  <2>2. e.t_cur = y.ref
    <3>1. IsContext(y.c) BY <1>8 DEF Outcome
    <3> QED BY <2>1, <3>1 DEF IsContext
  <2>3. TaskAt(E, n, h, t, e, -1, Top) BY <1>8, <1>21, <2>1 DEF Outcome
  <2>4. Leads(Key(y.ref), Inside(E[t], -1, Top)) BY <2>2, <2>3 DEF TaskAt, Place
  <2>5. Present(E[t]) = Inside(E[t], -1, Top) BY WholeVersion
  <2>6. Leads(Key(y.ref), Present(E[t])) BY <2>4, <2>5
  <2>7. Key(y.ref) \in Keys BY <2>6 DEF Leads, Present
  <2> QED BY <2>6, <2>7, AncestorsRoot
<1>22. TreeInv(E, n, h2, [c EXCEPT ![t] = d], t) BY <1>1, <1>19, <1>20, TreeLands
<1> QED BY <1>15, <1>18, <1>21, <1>22 DEF Own

\* A task that changes nothing.
LEMMA NopStep ==
  ASSUME NEW E, NEW n \in Nat, NEW h, NEW c, NEW p, NEW t, Issues(E, n, h, c, p, t), E[t] = E[p],
         NEW d, d = Done([Context EXCEPT !.root = c[p].root])
  PROVE  TreeInv(E, n, h, [c EXCEPT ![t] = d], t)
<1> SUFFICES ASSUME NEW c2, c2 = [c EXCEPT ![t] = d] PROVE TreeInv(E, n, h, c2, t) OBVIOUS
<1>1. /\ TreeInv(E, n, h, c, p) /\ p \in Nat /\ t = p + 1 /\ t <= NumTasks /\ t \in Nat /\ t \in TaskIds
      /\ t \in 0..NumTasks
      /\ DOMAIN h \subseteq Nat \X Keys /\ DOMAIN h \subseteq (0..p) \X Keys /\ DOMAIN c = 0..NumTasks
  BY NumTasksAssumption DEF Issues, TreeInv, NodesInv, ContextsInv, TaskIds
<1>2. IsContext(d) /\ d.st = "ST_DONE" /\ d.root = c[p].root BY DEF Done, Context, IsContext
<1>3. c2[t] = d /\ DOMAIN c2 = 0..NumTasks /\ \A u \in 0..NumTasks : u # t => c2[u] = c[u] BY <1>1
<1>4. \A z \in DOMAIN h : Ver(z) # t BY <1>1 DEF Ver
<1>5. Holds(Dom(h, t), E, d.root, E[t], Present(E[t])) /\ Synced(E, n, t, d.root)
  <2>1. p \in 0..p BY <1>1
  <2>2. Holds(Dom(h, p), E, c[p].root, E[p], Present(E[p])) /\ Synced(E, n, p, c[p].root)
    BY <1>1, <2>1 DEF TreeInv, RootsInv
  <2>3. \A x \in DOMAIN h : Ver(x) \in Nat BY <1>1, HeapFacts
  <2>4. Dom(h, p) \subseteq Dom(h, t) BY <1>1, <2>3 DEF Dom
  <2>5. Holds(Dom(h, t), E, c[p].root, E[p], Present(E[p])) BY <2>2, <2>4, HoldsMore
  <2> QED BY <1>2, <2>2, <2>5 DEF Synced
<1> QED BY <1>1, <1>2, <1>3, <1>4, <1>5, TreeStep

\* Version 0.
LEMMA TreeInit ==
  ASSUME NEW E, E[0] \in Counts, NEW b, b = build_parallel(E[0]), NEW c,
         c = [t \in 0..NumTasks |-> IF t = 0 THEN Done([Context EXCEPT !.root = b.ref]) ELSE Context]
  PROVE  TreeInv(E, 0, b.new, c, 0)
<1> DEFINE h == b.new  D == DOMAIN h
<1>1. /\ D = {<<0, k>> : k \in Present(E[0])} /\ Holds(D, E, b.ref, E[0], Present(E[0]))
      /\ \A x \in D : NodeIs(D, E, x, h[x]) /\ IsNode(h[x])
  BY BuildSpec
<1>2. D \subseteq {0} \X Keys /\ \A x \in D : Ver(x) = 0 BY <1>1 DEF Present, Ver
<1>3. Dom(h, 0) = D BY <1>2 DEF Dom
<1>4. 0 \in 0..NumTasks /\ DOMAIN c = 0..NumTasks /\ c[0] = Done([Context EXCEPT !.root = b.ref])
      /\ \A t \in 0..NumTasks : t # 0 => c[t] = Context
  BY NumTasksAssumption
<1>5. c[0].st = "ST_DONE" /\ c[0].root = b.ref /\ IsContext(c[0]) BY <1>4 DEF Done, Context, IsContext
<1>6. IsContext(Context) /\ Context.st = "ST_RUNNING" /\ Context.t_cur = nullptr BY DEF Context, IsContext
<1> HIDE DEF h, D
<1>7. ContextsInv(c, 0) BY <1>4, <1>5, <1>6, NumTasksAssumption DEF ContextsInv, TaskIds
<1>8. TasksInv(E, 0, h, c, 0) BY DEF TasksInv
<1>9. \A q : q = nullptr \/ q \in D => Synced(E, 0, 0, q) BY <1>2 DEF Synced
<1>10. RootsInv(E, 0, h, c, 0)
  <2>1. Synced(E, 0, 0, b.ref) BY <1>1, <1>9 DEF Holds
  <2>2. \A v \in 0..0 : v = 0 OBVIOUS
  <2> QED BY <1>1, <1>3, <1>5, <2>1, <2>2 DEF RootsInv
<1>11. NodesInv(E, 0, h, c, 0)
  <2>1. DOMAIN h \subseteq (0..0) \X Keys BY <1>2 DEF D
  <2>2. ASSUME NEW x \in DOMAIN h PROVE GoodNode(E, 0, h, x, h[x], Open(c, x))
    <3>1. x # nullptr BY <1>2, <2>2, NullAssumption DEF D
    <3>2. ~Open(c, x)
      <4>1. \A u \in TaskIds : c[u] = Context BY <1>4, NumTasksAssumption DEF TaskIds
      <4> QED BY <1>6, <3>1, <4>1 DEF Open
    <3>3. NodeIs(D, E, x, h[x]) /\ IsNode(h[x]) /\ Ver(x) = 0 BY <1>1, <1>2 DEF h, D
    <3>4. Synced(E, 0, 0, h[x].lch) /\ Synced(E, 0, 0, h[x].rch) BY <1>9, <3>3 DEF NodeIs, Holds
    <3>5. h[x].val = E[Ver(x)][Key(x)] /\ h[x].val > 0 BY <3>3 DEF NodeIs
    <3> QED BY <1>3, <3>2, <3>3, <3>4, <3>5 DEF GoodNode
  <2> QED BY <2>1, <2>2 DEF NodesInv
<1>12. TreeInv(E, 0, h, c, 0) BY <1>7, <1>8, <1>10, <1>11 DEF TreeInv
<1> QED BY <1>12 DEF h

-----------------------------------------------------------------------------
(* Who is how deep.  The keys on the path to the node a task has open tell  *)
(* at which depth it is.  Pipe i takes a task to depth i, a worker goes on  *)
(* from there, and stage tells how far it has come.                         *)
Depth(E, t, c) == Cardinality(Ancestors(E[t], Key(c.t_cur)))

PipeDepth(E, t) ==
  /\ \A i \in 0..num_pipes : t <= passed[i] => Depth(E, t, ctxs[t]) >= i
  /\ \A i \in 1..num_pipes : t > passed[i] => Depth(E, t, ctxs[t]) <= i - 1
  /\ t > num_fetched => Depth(E, t, ctxs[t]) <= num_pipes
  /\ stage[t] = 0 \/ Depth(E, t, ctxs[t]) + 1 >= num_pipes + stage[t]
WorkerDepth(E, w) ==
  LET t == worker[w].task
  IN IF t <= passed[num_pipes]
     THEN ctxs[t].st = "ST_RUNNING" => Depth(E, t, ctxs[t]) + 1 = num_pipes + worker[w].stage
     ELSE worker[w].stage = 1

DepthInv(E) ==
  /\ \A t \in TaskIds : t <= passed[0] /\ ctxs[t].st = "ST_RUNNING" => PipeDepth(E, t)
  /\ \A t \in TaskIds : t > passed[0] => stage[t] = 0
  /\ \A t \in 0..NumTasks : stage[t] \in Nat
  /\ \A w \in Workers : worker[w].pc \in AtTask => WorkerDepth(E, w)
  /\ \A w \in Workers : worker[w].stage <= Cardinality(Keys) + 1

TreeNow == txs \in Workloads /\ TreeInv(Expected, num_committed, heap, ctxs, passed[0])
FullInv == IInv /\ CommitInv /\ TreeNow /\ DepthInv(Expected)

\* A task is less deep than there are keys.
LEMMA DepthBounds ==
  ASSUME NEW E, NEW t, NEW c, Key(c.t_cur) \in Keys
  PROVE  Depth(E, t, c) \in Nat /\ Depth(E, t, c) < Cardinality(Keys) /\ Cardinality(Keys) \in Nat
BY AncestorsFinite DEF Depth

\* One level down is one deeper.
LEMMA DepthDeeper ==
  ASSUME NEW E, NEW t, NEW c, NEW d, Deeper(E, t, c, d), d.st = "ST_RUNNING"
  PROVE  Depth(E, t, d) = Depth(E, t, c) + 1 /\ Key(c.t_cur) \in Keys /\ Key(d.t_cur) \in Keys
<1> DEFINE k == Key(c.t_cur)  A == Ancestors(E[t], k)
<1>1. k \in Keys /\ Key(d.t_cur) \in Keys /\ Ancestors(E[t], Key(d.t_cur)) = A \cup {k} BY DEF Deeper
<1>2. IsFiniteSet(A) /\ k \notin A BY <1>1, AncestorsFinite
<1> HIDE DEF k, A
<1>3. Cardinality(A \cup {k}) = Cardinality(A) + 1 BY <1>2, FS_AddElement
<1> QED BY <1>1, <1>3 DEF Depth, k, A

\* The stages never reach the mark of the tasks that are done.
LEMMA StagesBelow == ASSUME IInv, NEW E, DepthInv(E) PROVE StagesBelowDone
<1>1. Cardinality(Keys) \in Nat BY KeysAssumption, FS_CardinalityType
<1>2. \A w \in Workers : worker[w].stage \in Nat /\ worker[w].stage <= Cardinality(Keys) + 1
  BY DEF IInv, Types, DepthInv
<1> QED BY <1>1, <1>2, Constants DEF StagesBelowDone, STAGE_DONE

\* What the constant-level lemmas ask of a state.
LEMMA StateFacts ==
  ASSUME FullInv
  PROVE  /\ num_committed \in Nat /\ passed[0] \in Nat /\ passed[0] <= NumTasks /\ num_committed <= passed[0]
         /\ TreeInv(Expected, num_committed, heap, ctxs, passed[0])
         /\ \A v \in 0..NumTasks : Expected[v] \in Counts
         /\ \A v \in 0..passed[0] : Expected[v] \in Counts
         /\ \A v \in 0..num_committed : ctxs[v].st = "ST_DONE"
         /\ \A v \in Int : Finished(heap, Com(heap, num_committed, v), Expected)
         /\ \A x \in DOMAIN heap : Ver(x) <= num_committed => ~Open(ctxs, x)
<1>1. num_committed \in Nat /\ passed[0] \in Nat /\ passed[0] <= NumTasks /\ num_committed <= passed[0]
  <2>1. IInv /\ CommitInv BY DEF FullInv
  <2>2. CommittedDone BY <2>1, CommitImplies
  <2> QED BY <2>1, <2>2, Constants DEF IInv, Types, StationsInv, CommittedDone
<1>2. TreeInv(Expected, num_committed, heap, ctxs, passed[0]) /\ txs \in Workloads BY DEF FullInv, TreeNow
<1>3. \A v \in 0..NumTasks : Expected[v] \in Counts BY <1>2, ExpectedIs
<1>4. \A v \in 0..passed[0] : Expected[v] \in Counts BY <1>1, <1>3, Constants
<1>5. \A v \in 0..num_committed : ctxs[v].st = "ST_DONE" BY DEF FullInv, CommitInv
<1>6. \A v \in TaskIds : v <= num_committed => ctxs[v].st # "ST_RUNNING" BY <1>1, <1>5, Constants DEF TaskIds
<1>7. \A v \in Int : Finished(heap, Com(heap, num_committed, v), Expected) BY <1>1, <1>2, <1>4, <1>6, ComFinished
<1>8. \A x \in DOMAIN heap : Ver(x) <= num_committed => ~Open(ctxs, x) BY <1>1, <1>2, <1>6, OpenOwn
<1> QED BY <1>1, <1>2, <1>3, <1>4, <1>5, <1>7, <1>8

\* An issued task that is not done runs.
LEMMA RunsNow ==
  ASSUME FullInv, NEW t \in TaskIds, t <= passed[0], ctxs[t].st # "ST_DONE"
  PROVE  Runs(Expected, num_committed, heap, ctxs, passed[0], t) /\ ctxs[t].st = "ST_RUNNING"
<1>1. t \in 1..passed[0] /\ t \in 0..NumTasks /\ t - 1 \in Int BY StateFacts, Constants DEF TaskIds
<1>2. ctxs[t].st = "ST_RUNNING" BY <1>1, StateFacts DEF TreeInv, ContextsInv
<1> QED BY <1>1, <1>2, StateFacts DEF Runs
-----------------------------------------------------------------------------
(* A step is only ready when the children it is to copy are there.          *)

\* The node a task copies is open in no task, unless in one that is as deep.
LEMMA SameDepth ==
  ASSUME FullInv, NEW t \in TaskIds, t <= passed[0], ctxs[t].st = "ST_RUNNING", Open(ctxs, Original(ctxs[t]))
  PROVE  LET u == Ver(ctxs[t].t_past)
         IN /\ u \in TaskIds /\ u <= passed[0] /\ u < t /\ ctxs[u].st = "ST_RUNNING"
            /\ Depth(Expected, u, ctxs[u]) = Depth(Expected, t, ctxs[t])
            /\ Key(ctxs[u].t_cur) \in Keys /\ Key(ctxs[t].t_cur) \in Keys
<1> DEFINE E == Expected  n == num_committed  c == ctxs[t]  o == c.t_past  u == Ver(o)
<1>1. Runs(E, n, heap, ctxs, passed[0], t) BY RunsNow
<1>2. PICK lo, hi : TaskAt(E, n, heap, t, c, lo, hi) BY <1>1 DEF Runs, TreeInv, TasksInv
<1>3. t \in Int /\ t - 1 \in Int /\ DOMAIN heap \subseteq Nat \X Keys
  BY <1>1, Constants DEF TaskIds, Runs, TreeInv, NodesInv
<1>4. ~ConcatAt(E, n, heap, t, c, lo, hi)
  <2> SUFFICES ASSUME ConcatAt(E, n, heap, t, c, lo, hi) PROVE FALSE OBVIOUS
  <2>1. Original(c) \in Com(heap, n, t-1) BY DEF ConcatAt, Original, Source, Holds
  <2>2. Original(c) \in DOMAIN heap /\ Ver(Original(c)) <= n BY <2>1 DEF Com
  <2> QED BY <2>2, StateFacts
<1>5. SearchAt(E, n, heap, t, c, lo, hi) BY <1>2, <1>4 DEF TaskAt
<1>6. Original(c) = o BY <1>5 DEF SearchAt, Original
<1>7. /\ o # nullptr /\ Key(o) = Key(c.t_cur) /\ Synced(E, n, t-1, o)
      /\ Holds(Dom(heap, t-1), E, o, E[t-1], Inside(E[t-1], lo, hi))
      /\ Hash[c.key] < Hash[Key(c.t_cur)] \/ c.key = Key(c.t_cur)
  BY <1>5 DEF SearchAt
<1>8. o \in Dom(heap, t-1) /\ Key(o) \in Keys
  <2> HIDE DEF o, E
  <2> QED BY <1>7, HeldLeads
<1>9. o \in DOMAIN heap /\ u <= t - 1 /\ u \in Nat BY <1>3, <1>8, HeapFacts DEF Dom
<1>10. u \in TaskIds /\ u \in 1..passed[0] /\ ctxs[u].st = "ST_RUNNING" /\ ctxs[u].t_cur = o
  <2>1. Open(ctxs, o) BY <1>6
  <2> HIDE DEF o, E, n
  <2> QED BY <1>1, <1>9, <2>1, OpenOwn DEF Runs, u
<1>11. ~(u <= n) BY <1>6, <1>9, StateFacts
<1>12. Ancestors(E[u], Key(o)) = Ancestors(E[t-1], Key(o)) BY <1>7, <1>11 DEF Synced
<1>13. Ancestors(E[t-1], Key(o)) = Ancestors(E[t], Key(o))
  <2>1. c.key \in Keys /\ Differ(E[t-1], E[t], c.key) BY <1>2 DEF TaskAt, Change
  <2>2. Hash[c.key] <= Hash[Key(o)] BY <1>7, <1>8, <2>1, HashAssumption
  <2> HIDE DEF E, c, o
  <2> QED BY <1>8, <2>1, <2>2, AncestorsSame
<1>14. Depth(E, u, ctxs[u]) = Depth(E, t, ctxs[t]) BY <1>7, <1>10, <1>12, <1>13 DEF Depth
<1>15. u \in Int /\ u < t BY <1>3, <1>9
<1> QED BY <1>7, <1>8, <1>10, <1>14, <1>15, StateFacts

\* The node a pipe is about to copy is closed: the task before is deeper.
LEMMA PipeReady ==
  ASSUME FullInv, NEW i \in 1..num_pipes, NEW t \in TaskIds, AtPipe(i, t), ctxs[t].st = "ST_RUNNING"
  PROVE  ~Open(ctxs, Original(ctxs[t]))
<1> SUFFICES ASSUME Open(ctxs, Original(ctxs[t])) PROVE FALSE OBVIOUS
<1> DEFINE u == Ver(ctxs[t].t_past)
<1>1. /\ i \in 0..num_pipes /\ i - 1 \in 0..num_pipes /\ i \in Int /\ t \in Int
      /\ passed[i] \in Nat /\ passed[i-1] \in Nat /\ passed[0] \in Nat /\ passed[i-1] <= passed[0]
  BY Constants DEF FullInv, IInv, Types, StationsInv, TaskIds
<1>2. passed[i] = t - 1 /\ t <= passed[i-1] BY DEF AtPipe
<1>3. t <= passed[0] /\ t > passed[i] BY <1>1, <1>2
<1>4. /\ u \in TaskIds /\ u <= passed[0] /\ u < t /\ ctxs[u].st = "ST_RUNNING"
      /\ Depth(Expected, u, ctxs[u]) = Depth(Expected, t, ctxs[t])
      /\ Key(ctxs[u].t_cur) \in Keys
  BY <1>3, SameDepth
<1> HIDE DEF u
<1>5. u \in Int BY <1>4, Constants DEF TaskIds
<1>6. u <= passed[i] BY <1>1, <1>2, <1>4, <1>5
<1>7. Depth(Expected, u, ctxs[u]) \in Nat BY <1>4, DepthBounds
<1>8. Depth(Expected, u, ctxs[u]) >= i BY <1>1, <1>4, <1>6 DEF FullInv, DepthInv, PipeDepth
<1>9. Depth(Expected, t, ctxs[t]) <= i - 1 BY <1>3 DEF FullInv, DepthInv, PipeDepth
<1> QED BY <1>1, <1>4, <1>7, <1>8, <1>9

\* So is the node a worker copies once DependencyPassed lets it.
LEMMA WorkerReady ==
  ASSUME FullInv, NEW w \in Workers, worker[w].pc = "step", DependencyPassed(w)
  PROVE  ~Open(ctxs, Original(ctxs[worker[w].task]))
<1> SUFFICES ASSUME Open(ctxs, Original(ctxs[worker[w].task])) PROVE FALSE OBVIOUS
<1> DEFINE t == worker[w].task  s == worker[w].stage  u == Ver(ctxs[t].t_past)
<1>1. /\ t \in TaskIds /\ t <= num_submitted /\ ctxs[t].st # "ST_DONE" /\ worker[w].pc \in AtTask
      /\ s \in Nat
  BY DEF FullInv, IInv, Types, FetchedInv, RunningInv, AtTask, TaskIds
<1>2. /\ num_submitted <= passed[num_pipes] /\ passed[num_pipes] <= passed[0] /\ num_submitted \in Nat
      /\ passed[num_pipes] \in Nat /\ passed[0] \in Nat /\ t \in Int /\ num_pipes \in Nat
  BY <1>1, Constants DEF FullInv, IInv, Types, StationsInv, TaskIds
<1>3. t <= passed[num_pipes] /\ t <= passed[0] BY <1>1, <1>2
<1>4. ctxs[t].st = "ST_RUNNING" BY <1>1, <1>3, RunsNow
<1>5. /\ u \in TaskIds /\ u <= passed[0] /\ u < t /\ ctxs[u].st = "ST_RUNNING"
      /\ Depth(Expected, u, ctxs[u]) = Depth(Expected, t, ctxs[t])
      /\ Key(ctxs[u].t_cur) \in Keys
  BY <1>1, <1>3, <1>4, SameDepth
<1>6. stage[u] > s BY DEF DependencyPassed
<1> HIDE DEF u, s
<1>7. stage[u] \in Nat /\ stage[u] # 0
  <2>1. u \in 0..NumTasks BY <1>5, Constants DEF TaskIds
  <2>2. stage[u] \in Nat BY <2>1 DEF FullInv, DepthInv
  <2> QED BY <1>1, <1>6, <2>2
<1>8. Depth(Expected, u, ctxs[u]) + 1 >= num_pipes + stage[u] BY <1>5, <1>7 DEF FullInv, DepthInv, PipeDepth
<1>9. Depth(Expected, t, ctxs[t]) + 1 = num_pipes + s BY <1>1, <1>3, <1>4 DEF FullInv, DepthInv, WorkerDepth, s
<1>10. Depth(Expected, u, ctxs[u]) \in Nat BY <1>5, DepthBounds
<1> QED BY <1>1, <1>2, <1>5, <1>6, <1>7, <1>8, <1>9, <1>10
-----------------------------------------------------------------------------
(* Every step keeps the tree. *)
LEMMA ExpectedStays == ASSUME txs' = txs PROVE Expected' = Expected
BY DEF Expected, M!Replay, M!Apply

\* A step that leaves the tree alone keeps TreeNow.
LEMMA TreeKeeps ==
  ASSUME FullInv, UNCHANGED <<txs, ctxs>>, passed'[0] = passed[0], num_committed' \in Nat, num_committed' >= num_committed,
         heap' = heap
  PROVE  TreeNow'
<1>1. Expected' = Expected BY ExpectedStays
<1>2. TreeInv(Expected, num_committed', heap, ctxs, passed[0])
  <2>1. PICK n : n = num_committed' OBVIOUS
  <2>2. TreeInv(Expected, n, heap, ctxs, passed[0]) BY <2>1, StateFacts, TreeCommit
  <2> QED BY <2>1, <2>2
<1> QED BY <1>1, <1>2 DEF TreeNow, FullInv

\* TreeNow after a step of a task is TreeInv of what the step makes.
LEMMA StepsTo ==
  ASSUME FullInv, NEW t, NEW r, NEW p, StepTo(t, r), UNCHANGED <<txs, num_committed>>, passed'[0] = p,
         TreeInv(Expected, num_committed, r.heap, [ctxs EXCEPT ![t] = r.c], p)
  PROVE  TreeNow'
<1>1. Expected' = Expected BY ExpectedStays
<1>2. heap' = r.heap /\ ctxs' = [ctxs EXCEPT ![t] = r.c] BY DEF StepTo
<1>3. TreeInv(Expected, num_committed, heap', ctxs', p) BY <1>2
<1> QED BY <1>1, <1>3 DEF TreeNow, FullInv

\* A step of task t writes nothing, or nothing but nodes of a task that is not done.
Spares(t) == heap' = heap \/ (ctxs[t].st # "ST_DONE" /\ Own(heap, heap', t))

\* execute_one_step_, of a task of the scheduler.
LEMMA TakeStep ==
  ASSUME FullInv, NEW t \in TaskIds, t <= passed[0], ctxs[t].st # "ST_DONE", ~Open(ctxs, Original(ctxs[t])),
         MayStep(ctxs[t]), StepTo(t, execute_one_step_(heap, t, ctxs[t])),
         UNCHANGED <<txs, num_committed>>, passed'[0] = passed[0]
  PROVE  TreeNow' /\ Spares(t) /\ Deeper(Expected, t, ctxs[t], ctxs'[t])
<1>1. PICK r : r = execute_one_step_(heap, t, ctxs[t]) OBVIOUS
<1>2. Runs(Expected, num_committed, heap, ctxs, passed[0], t) BY RunsNow
<1>3. MaySet(num_committed, heap, ctxs[t]) BY DEF MayStep, MayUpdate, MaySet
<1>4. num_committed \in Nat BY StateFacts
<1>5. /\ TreeInv(Expected, num_committed, r.heap, [ctxs EXCEPT ![t] = r.c], passed[0]) /\ Own(heap, r.heap, t)
      /\ Deeper(Expected, t, ctxs[t], r.c)
  BY <1>1, <1>2, <1>3, <1>4, OneStep
<1>6. StepTo(t, r) BY <1>1
<1>7. TreeNow' BY <1>5, <1>6, StepsTo
<1>8. ctxs'[t] = r.c
  <2>1. t \in DOMAIN ctxs BY Constants DEF FullInv, IInv, Types, TaskIds
  <2> QED BY <1>6, <2>1 DEF StepTo
<1>9. Spares(t) BY <1>5, <1>6 DEF Spares, StepTo
<1> QED BY <1>5, <1>7, <1>8, <1>9

\* execute_to_complete_, of a task of the scheduler.
LEMMA TakeRest ==
  ASSUME FullInv, NEW t \in TaskIds, t <= passed[0], ctxs[t].st # "ST_DONE", num_committed >= Ver(ctxs[t].t_past),
         StepTo(t, execute_to_complete_(heap, t, ctxs[t])),
         UNCHANGED <<txs, num_committed>>, passed'[0] = passed[0]
  PROVE  TreeNow' /\ Spares(t) /\ ctxs'[t].st = "ST_DONE"
<1>1. PICK r : r = execute_to_complete_(heap, t, ctxs[t]) OBVIOUS
<1>2. Runs(Expected, num_committed, heap, ctxs, passed[0], t) BY RunsNow
<1>3. num_committed \in Nat BY StateFacts
<1>4. ASSUME ctxs[t].fn # "FN_CONCAT" PROVE ~Open(ctxs, ctxs[t].t_past)
  <2>1. PICK lo, hi : TaskAt(Expected, num_committed, heap, t, ctxs[t], lo, hi) BY <1>2 DEF Runs, TreeInv, TasksInv
  <2>2. SearchAt(Expected, num_committed, heap, t, ctxs[t], lo, hi) BY <1>4, <2>1 DEF TaskAt, ConcatAt
  <2>3. ctxs[t].t_past \in DOMAIN heap BY <2>2, HeldLeads DEF SearchAt, Dom
  <2> QED BY <2>3, StateFacts
<1>5. TreeInv(Expected, num_committed, r.heap, [ctxs EXCEPT ![t] = r.c], passed[0]) /\ Own(heap, r.heap, t)
  BY <1>1, <1>2, <1>3, <1>4, CompleteStep
<1>6. StepTo(t, r) BY <1>1
<1>7. TreeNow' BY <1>5, <1>6, StepsTo
<1>8. ctxs'[t] = r.c /\ IsContext(ctxs[t])
  <2>1. t \in 0..NumTasks BY Constants DEF TaskIds
  <2>2. t \in DOMAIN ctxs BY <2>1 DEF FullInv, IInv, Types
  <2> QED BY <1>6, <2>1, <2>2, StateFacts DEF StepTo, TreeInv, ContextsInv
<1>9. r.c.st = "ST_DONE"
  <2>1. DOMAIN ctxs[t] = {"st", "op", "key", "fn", "dir", "t_cur", "t_past", "t_l", "t_r", "root"}
    BY <1>8 DEF IsContext
  <2>2. ASSUME NEW d, DOMAIN d = DOMAIN ctxs[t] PROVE Done(d).st = "ST_DONE" BY <2>1, <2>2 DEF Done
  <2>3. CASE ctxs[t].fn = "FN_SETREF"
    <3>1. r.c = Done(ctxs[t]) BY <1>1, <2>3 DEF execute_to_complete_, execute_one_step_
    <3> QED BY <2>2, <3>1
  <2>4. CASE ctxs[t].fn # "FN_SETREF"
    <3>1. PICK d : d = Descend(heap, ctxs[t]) OBVIOUS
    <3>2. r.c = Done(d) BY <1>1, <2>4, <3>1 DEF execute_to_complete_
    <3>3. PICK lo, hi : TaskAt(Expected, num_committed, heap, t, ctxs[t], lo, hi) BY <1>2 DEF Runs, TreeInv, TasksInv
    <3>4. ctxs[t].fn \in {"FN_SEARCH", "FN_CONCAT"} BY <2>4, <3>3 DEF TaskAt, SearchAt, ConcatAt
    <3>5. DOMAIN d = DOMAIN ctxs[t] BY <3>1, <3>4 DEF Descend
    <3> QED BY <2>2, <3>2, <3>5
  <2> QED BY <2>3, <2>4
<1>10. Spares(t) BY <1>5, <1>6 DEF Spares, StepTo
<1> QED BY <1>7, <1>8, <1>9, <1>10
-----------------------------------------------------------------------------
\* augment writes sums only.
LEMMA AugmentKeeps ==
  ASSUME NEW h, \A x \in DOMAIN h : IsNode(h[x]), NEW tree, NEW h2, h2 = augment(h, tree)
  PROVE  /\ DOMAIN h2 = DOMAIN h
         /\ \A x \in DOMAIN h : /\ IsNode(h2[x]) /\ h2[x].val = h[x].val
                                /\ h2[x].lch = h[x].lch /\ h2[x].rch = h[x].rch
<1>1. PICK T, s : h2 = [t \in DOMAIN h |-> IF t \in T THEN [h[t] EXCEPT !.aug = s[t]] ELSE h[t]]
  <2> DEFINE sum == CHOOSE f : f = [t \in Pointers(h) |->
               IF t = nullptr THEN 0
               ELSE IF h[t].aug # aug_uninitialized THEN h[t].aug
               ELSE f[h[t].lch] + h[t].val + f[h[t].rch]]
             visited == CHOOSE f : f = [t \in Pointers(h) |->
               IF t = nullptr \/ h[t].aug # aug_uninitialized THEN {}
               ELSE {t} \cup f[h[t].lch] \cup f[h[t].rch]]
             todo == visited[tree]
  <2>1. augment(h, tree) = [t \in DOMAIN h |-> IF t \in todo THEN [h[t] EXCEPT !.aug = sum[t]] ELSE h[t]]
    BY Zenon DEF augment
  <2> HIDE DEF sum, todo, visited
  <2> QED BY <2>1
<1> SUFFICES ASSUME NEW x \in DOMAIN h
             PROVE  IsNode(h2[x]) /\ h2[x].val = h[x].val /\ h2[x].lch = h[x].lch /\ h2[x].rch = h[x].rch
  BY <1>1
<1>2. h2[x] = h[x] \/ h2[x] = [h[x] EXCEPT !.aug = s[x]] BY <1>1
<1>3. IsNode(h[x]) OBVIOUS
<1>4. CASE h2[x] = h[x] BY <1>3, <1>4
<1>5. CASE h2[x] = [h[x] EXCEPT !.aug = s[x]]
  <2>1. PICK m : m = h[x] OBVIOUS
  <2>2. PICK a : a = s[x] OBVIOUS
  <2>3. PICK m2 : m2 = h2[x] OBVIOUS
  <2>4. m2 = [m EXCEPT !.aug = a] /\ IsNode(m) BY <1>3, <1>5, <2>1, <2>2, <2>3
  <2>5. IsNode(m2) /\ m2.val = m.val /\ m2.lch = m.lch /\ m2.rch = m.rch BY <2>4 DEF IsNode
  <2> QED BY <2>1, <2>3, <2>5
<1> QED BY <1>2, <1>4, <1>5

\* A worker that estimates changes no tree.
LEMMA EstimateTree == ASSUME FullInv, NEW w \in Workers, Estimate(w) PROVE TreeNow'
<1>1. UNCHANGED <<txs, ctxs, passed, num_committed>> BY DEF Estimate
<1>2. PICK tree : heap' = augment(heap, tree) BY DEF Estimate
<1>3. \A x \in DOMAIN heap : IsNode(heap[x]) BY StateFacts DEF TreeInv, NodesInv, GoodNode
<1>4. PICK h2 : h2 = heap' OBVIOUS
<1>5. /\ DOMAIN h2 = DOMAIN heap
      /\ \A x \in DOMAIN heap : /\ IsNode(h2[x]) /\ h2[x].val = heap[x].val
                                /\ h2[x].lch = heap[x].lch /\ h2[x].rch = heap[x].rch
  BY <1>2, <1>3, <1>4, AugmentKeeps
<1>6. TreeInv(Expected, num_committed, h2, ctxs, passed[0]) BY <1>5, StateFacts, TreeAugment
<1>7. Expected' = Expected BY <1>1, ExpectedStays
<1> QED BY <1>1, <1>4, <1>6, <1>7 DEF TreeNow, FullInv

\* The context the master gives an update.
LEMMA FirstContext ==
  ASSUME NEW o, NEW k, NEW root, NEW x, x = [Context EXCEPT !.op = o, !.key = k, !.t_past = root]
  PROVE  IsContext(x) /\ x.st = "ST_RUNNING" /\ x.fn = "FN_SEARCH" /\ x.t_past = root /\ x.op = o /\ x.key = k
BY DEF Context, IsContext

AtRoot(E, t, c) == c.st = "ST_RUNNING" => Key(c.t_cur) \in Keys /\ Ancestors(E[t], Key(c.t_cur)) = {}

Starts(E, n, h, c, p, t, x) ==
  /\ Issues(E, n, h, c, p, t) /\ IsContext(x) /\ x.st = "ST_RUNNING" /\ x.fn = "FN_SEARCH" /\ x.t_past = c[p].root
  /\ Change(E, t, x) /\ (NeedsCommitted(h, x) => n >= Ver(x.t_past))

\* The master issues an update: it makes the root of a version, or all of it.
LEMMA IssueTree ==
  ASSUME FullInv, NEW p, NEW t, NEW x, NEW z, z = update_(heap, t, x),
         Starts(Expected, num_committed, heap, ctxs, p, t, x), t \in DOMAIN ctxs, passed'[0] = t,
         StepTo(t, [heap |-> Alloc(heap, z.new), c |-> [z.c EXCEPT !.root = z.ref, !.t_cur = z.ref]]),
         UNCHANGED <<txs, num_committed>>
  PROVE  TreeNow' /\ Own(heap, heap', t) /\ AtRoot(Expected, t, ctxs'[t])
<1> DEFINE E == Expected  n == num_committed
<1>0. /\ Issues(E, n, heap, ctxs, p, t) /\ IsContext(x) /\ x.st = "ST_RUNNING" /\ x.fn = "FN_SEARCH"
      /\ x.t_past = ctxs[p].root /\ Change(E, t, x) /\ (NeedsCommitted(heap, x) => n >= Ver(x.t_past))
      /\ n \in Nat
  BY StateFacts DEF Starts
<1>1. PICK h : h = heap OBVIOUS
<1>2. PICK c : c = ctxs OBVIOUS
<1> HIDE DEF E, n
<1>3. /\ TreeInv(E, n, Alloc(h, z.new), [c EXCEPT ![t] = [z.c EXCEPT !.root = z.ref, !.t_cur = z.ref]], t)
      /\ Own(h, Alloc(h, z.new), t)
      /\ z.c.st = "ST_RUNNING" => Key(z.ref) \in Keys /\ Ancestors(E[t], Key(z.ref)) = {}
  BY <1>0, <1>1, <1>2, IssueStep
<1>4. PICK e : e = [z.c EXCEPT !.root = z.ref, !.t_cur = z.ref] OBVIOUS
<1>5. PICK g : g = Alloc(h, z.new) OBVIOUS
<1>6. PICK r : r = [heap |-> g, c |-> e] OBVIOUS
<1>7. r.heap = g /\ r.c = e BY <1>6
<1>8. TreeInv(E, n, r.heap, [ctxs EXCEPT ![t] = r.c], t) BY <1>2, <1>3, <1>4, <1>5, <1>7
<1>9. StepTo(t, r) BY <1>1, <1>4, <1>5, <1>6
<1>10. TreeNow' BY <1>8, <1>9, StepsTo DEF E, n
<1>11. ctxs'[t] = e BY <1>7, <1>9 DEF StepTo
<1>12. e.st = "ST_RUNNING" => z.c.st = "ST_RUNNING" /\ e.t_cur = z.ref
  <2>1. t \in 0..NumTasks BY Constants DEF FullInv, IInv, Types
  <2>2. IsContext(e) BY <1>10, <1>11, <2>1 DEF TreeNow, TreeInv, ContextsInv
  <2> QED BY <1>4, <2>2 DEF IsContext
<1>13. Own(heap, heap', t) BY <1>1, <1>3, <1>5, <1>7, <1>9 DEF StepTo
<1> QED BY <1>3, <1>10, <1>11, <1>12, <1>13 DEF AtRoot, E

\* A step of the master keeps TreeNow, and leaves its task at the root.
LEMMA MasterTree ==
  ASSUME FullInv, Master
  PROVE  /\ TreeNow'
         /\ LET t == passed[0] + 1
            IN t \in TaskIds /\ passed'[0] = t /\ Spares(t) /\ AtRoot(Expected, t, ctxs'[t])
<1> DEFINE p == passed[0]  t == p + 1  E == Expected  n == num_committed  root == ctxs[p].root
<1>1. /\ p \in Nat /\ p < NumTasks /\ passed'[0] = t /\ t \in TaskIds /\ t - 1 = p /\ t \in 0..NumTasks /\ t <= NumTasks
      /\ UNCHANGED <<txs, num_committed>> /\ n \in Nat
  <2>1. p \in Nat /\ 0 \in DOMAIN passed BY Constants DEF FullInv, IInv, Types
  <2> QED BY <2>1, StateFacts, Constants DEF Master, Conveyor!Push, TaskIds
<1>2. t \in DOMAIN ctxs BY <1>1 DEF FullInv, IInv, Types
<1>3. Issues(E, n, heap, ctxs, p, t)
  <2>1. \A v \in 0..t : E[v] \in Counts BY <1>1, StateFacts, Constants
  <2>2. Finished(heap, Com(heap, n, p), E) BY <1>1, StateFacts
  <2> QED BY <1>1, <2>1, <2>2, StateFacts DEF Issues
<1>4. txs \in Workloads BY DEF FullInv, TreeNow
<1>5. /\ txs[t].op = "OP_NONE" => E[t] = E[p]
      /\ txs[t].op # "OP_NONE" => txs[t].op \in {"OP_INSERT", "OP_DELETE"} /\ txs[t].key \in Keys
      /\ txs[t].op # "OP_NONE" => Differ(E[p], E[t], txs[t].key)
      /\ txs[t].op = "OP_INSERT" => E[t][txs[t].key] = E[p][txs[t].key] + 1
      /\ txs[t].op = "OP_DELETE" =>
                   E[t][txs[t].key] = IF E[p][txs[t].key] > 0 THEN E[p][txs[t].key] - 1 ELSE 0
  BY <1>1, <1>4, TasksAre, ExpectedIs
<1> HIDE DEF E, n
<1>6. CASE txs[t].op = "OP_NONE"
  <2> DEFINE d == Done([Context EXCEPT !.root = root])
  <2>1. StepTo(t, [heap |-> heap, c |-> d]) BY <1>1, <1>6 DEF Master
  <2>2. d.st = "ST_DONE" BY DEF Done, Context
  <2>3. TreeInv(E, n, heap, [ctxs EXCEPT ![t] = d], t) BY <1>1, <1>3, <1>5, <1>6, NopStep
  <2> HIDE DEF d, t
  <2>4. PICK r : r = [heap |-> heap, c |-> d] OBVIOUS
  <2>5. r.heap = heap /\ r.c = d BY <2>4
  <2>6. TreeInv(E, n, r.heap, [ctxs EXCEPT ![t] = r.c], t) BY <2>3, <2>5
  <2>7. StepTo(t, r) BY <2>1, <2>4
  <2>8. TreeNow' BY <1>1, <2>6, <2>7, StepsTo DEF E, n
  <2>9. ctxs'[t] = d BY <1>2, <2>5, <2>7 DEF StepTo
  <2>10. AtRoot(Expected, t, ctxs'[t]) BY <2>2, <2>9 DEF AtRoot
  <2>11. Spares(t) BY <2>5, <2>7 DEF Spares, StepTo
  <2> QED BY <1>1, <2>8, <2>10, <2>11 DEF t
<1>7. CASE txs[t].op # "OP_NONE"
  <2> DEFINE o == txs[t].op  k == txs[t].key
             x == [Context EXCEPT !.op = o, !.key = k, !.t_past = root]
             y == update_(heap, t, x)
             d == [y.c EXCEPT !.root = y.ref, !.t_cur = y.ref]
  <2>1. MayUpdate(x) /\ StepTo(t, [heap |-> Alloc(heap, y.new), c |-> d]) BY <1>1, <1>7 DEF Master
  <2>2. IsContext(x) /\ x.st = "ST_RUNNING" /\ x.fn = "FN_SEARCH" /\ x.t_past = root /\ x.op = o /\ x.key = k
    <3> HIDE DEF o, k, root
    <3>1. PICK x2 : x2 = x OBVIOUS
    <3>2. x2 = [Context EXCEPT !.op = o, !.key = k, !.t_past = root] BY <3>1
    <3> HIDE DEF x
    <3>3. IsContext(x2) /\ x2.st = "ST_RUNNING" /\ x2.fn = "FN_SEARCH" /\ x2.t_past = root /\ x2.op = o /\ x2.key = k
      BY <3>2 DEF Context, IsContext
    <3> QED BY <3>1, <3>3
  <2> HIDE DEF x
  <2>3. Change(E, t, x)
    <3>1. E[p] \in Counts /\ E[t] \in Counts BY <1>1, <1>3 DEF Issues
    <3> QED BY <1>1, <1>5, <1>7, <2>2, <3>1 DEF Change
  <2>4. NeedsCommitted(heap, x) => n >= Ver(x.t_past) BY <2>1 DEF MayUpdate, n
  <2> HIDE DEF t, p, root
  <2>5. Starts(E, n, heap, ctxs, p, t, x) BY <1>3, <2>2, <2>3, <2>4 DEF Starts, root
  <2>6. PICK z : z = y OBVIOUS
  <2>7. z = update_(heap, t, x) BY <2>6
  <2>8. StepTo(t, [heap |-> Alloc(heap, z.new), c |-> [z.c EXCEPT !.root = z.ref, !.t_cur = z.ref]])
    BY <2>1, <2>6
  <2>9. TreeNow' /\ Own(heap, heap', t) /\ AtRoot(E, t, ctxs'[t])
    <3> HIDE DEF y, d, o, k
    <3> QED BY <1>1, <1>2, <2>5, <2>7, <2>8, IssueTree DEF E, n
  <2>10. ctxs[t].st # "ST_DONE"
    <3>1. t > passed[0] /\ t \in TaskIds BY <1>1 DEF t, p
    <3>2. ctxs[t] = Context BY <3>1, StateFacts DEF TreeInv, ContextsInv
    <3> QED BY <3>2 DEF Context
  <2> QED BY <1>1, <2>9, <2>10 DEF t, E, p, Spares
<1> QED BY <1>6, <1>7
-----------------------------------------------------------------------------
\* What a thread's step makes of the task it has.
Goes(t) ==
  \/ ctxs[t].st = "ST_DONE" /\ ctxs'[t] = ctxs[t]
  \/ ctxs[t].st = "ST_RUNNING" /\ Deeper(Expected, t, ctxs[t], ctxs'[t])

\* A step of a pipe keeps TreeNow, and takes its task one level down.
LEMMA PipeTree ==
  ASSUME FullInv, NEW i \in 1..num_pipes, PipeStep(i)
  PROVE  LET t == passed[i] + 1 IN TreeNow' /\ t \in TaskIds /\ AtPipe(i, t) /\ t <= passed[0] /\ Spares(t) /\ Goes(t)
<1> DEFINE t == passed[i] + 1
<1>1. /\ passed[i] < passed[i-1] /\ passed' = [passed EXCEPT ![i] = @ + 1]
      /\ UNCHANGED <<txs, num_committed, num_fetched, worker>>
  BY DEF PipeStep, Conveyor!Pass
<1>2. /\ i \in 0..num_pipes /\ i - 1 \in 0..num_pipes /\ 0 \in 0..num_pipes /\ i # 0 /\ passed[i] \in Nat /\ passed[i-1] \in Nat
      /\ passed[0] \in Nat /\ passed[i-1] <= passed[0] /\ passed[0] <= NumTasks /\ NumTasks \in Nat
  BY Constants DEF FullInv, IInv, Types, StationsInv
<1>3. t \in TaskIds /\ AtPipe(i, t) /\ t <= passed[0] /\ passed'[0] = passed[0]
  BY <1>1, <1>2 DEF TaskIds, AtPipe, FullInv, IInv, Types
<1>4. num_committed \in Nat BY StateFacts
<1>5. CASE ctxs[t].st = "ST_DONE"
  <2>1. UNCHANGED treeVars BY <1>5 DEF PipeStep
  <2>2. ctxs' = ctxs /\ heap' = heap BY <2>1 DEF treeVars
  <2>3. TreeNow' BY <1>1, <1>3, <1>4, <2>2, TreeKeeps
  <2> QED BY <1>3, <1>5, <2>2, <2>3 DEF Goes, Spares
<1>6. CASE ctxs[t].st # "ST_DONE"
  <2>1. MayStep(ctxs[t]) /\ StepTo(t, execute_one_step_(heap, t, ctxs[t])) BY <1>6 DEF PipeStep
  <2> HIDE DEF t
  <2>2. ctxs[t].st = "ST_RUNNING" BY <1>3, <1>6, RunsNow
  <2>3. ~Open(ctxs, Original(ctxs[t])) BY <1>3, <2>2, PipeReady
  <2>4. TreeNow' /\ Spares(t) /\ Deeper(Expected, t, ctxs[t], ctxs'[t]) BY <1>1, <1>3, <1>6, <2>1, <2>3, TakeStep
  <2> QED BY <1>3, <2>2, <2>4 DEF Goes, t
<1> QED BY <1>5, <1>6

\* A worker's task.
LEMMA WorkerTask ==
  ASSUME FullInv, NEW w \in Workers, worker[w].pc \in AtTask, worker[w].task <= num_submitted
  PROVE  LET t == worker[w].task IN t \in TaskIds /\ t <= passed[num_pipes] /\ t <= passed[0] /\ t <= num_fetched
<1> DEFINE t == worker[w].task
<1>1. t \in TaskIds /\ t \in Int /\ t <= num_fetched BY DEF FullInv, IInv, Types, FetchedInv, TaskIds
<1>2. /\ num_submitted <= passed[num_pipes] /\ passed[num_pipes] <= passed[0] /\ num_submitted \in Nat
      /\ passed[num_pipes] \in Nat /\ passed[0] \in Nat
  BY Constants DEF FullInv, IInv, Types, StationsInv
<1> HIDE DEF t
<1>3. t <= num_submitted BY DEF t
<1> QED BY <1>1, <1>2, <1>3 DEF t

\* Loading a task keeps TreeNow, also where it completes the task at once.
LEMMA LoadTree ==
  ASSUME FullInv, NEW w \in Workers, Load(w)
  PROVE  /\ TreeNow' /\ worker[w].pc \in AtTask /\ worker[w].task <= num_submitted /\ Spares(worker[w].task)
         /\ LET t == worker[w].task  s == worker[w].stage
            IN \/ ctxs'[t].st = "ST_DONE" /\ worker' = [worker EXCEPT ![w] = AfterUpdate(w, t)]
                  /\ (UNCHANGED treeVars \/ StepTo(t, execute_to_complete_(heap, t, ctxs[t])))
               \/ ctxs' = ctxs /\ stage' = [stage EXCEPT ![t] = s] /\ worker' = [worker EXCEPT ![w].pc = "step"]
                  /\ ctxs[t].st = "ST_RUNNING"
<1> DEFINE t == worker[w].task  s == worker[w].stage
<1>1. /\ worker[w].pc \in AtTask /\ t <= num_submitted
      /\ UNCHANGED <<txs, num_committed, num_fetched, passed, num_submitted>>
  BY DEF Load, AtTask
<1>2. t \in TaskIds /\ t <= passed[0] BY <1>1, WorkerTask
<1>3. num_committed \in Nat BY StateFacts
<1>4. CASE ctxs[t].st = "ST_DONE"
  <2>1. UNCHANGED treeVars /\ worker' = [worker EXCEPT ![w] = AfterUpdate(w, t)] BY <1>4 DEF Load
  <2>2. ctxs' = ctxs /\ heap' = heap BY <2>1 DEF treeVars
  <2>3. TreeNow' BY <1>1, <1>3, <2>2, TreeKeeps
  <2> QED BY <1>1, <1>4, <2>1, <2>2, <2>3 DEF Spares
<1>5. CASE ctxs[t].st # "ST_DONE" /\ num_committed >= Ver(ctxs[t].t_past)
  <2>1. StepTo(t, execute_to_complete_(heap, t, ctxs[t])) /\ worker' = [worker EXCEPT ![w] = AfterUpdate(w, t)]
    BY <1>5 DEF Load
  <2> HIDE DEF t
  <2>2. TreeNow' /\ Spares(t) /\ ctxs'[t].st = "ST_DONE" BY <1>1, <1>2, <1>5, <2>1, TakeRest
  <2> QED BY <1>1, <2>1, <2>2 DEF t
<1>6. CASE ctxs[t].st # "ST_DONE" /\ ~(num_committed >= Ver(ctxs[t].t_past))
  <2>1. stage' = [stage EXCEPT ![t] = s] /\ worker' = [worker EXCEPT ![w].pc = "step"] /\ UNCHANGED <<heap, ctxs>>
    BY <1>6 DEF Load
  <2>2. TreeNow' BY <1>1, <1>3, <2>1, TreeKeeps
  <2>3. ctxs[t].st = "ST_RUNNING" BY <1>2, <1>6, RunsNow
  <2> QED BY <1>1, <2>1, <2>2, <2>3 DEF Spares
<1> QED BY <1>4, <1>5, <1>6

\* A step of a worker keeps TreeNow, and takes its task one level down.
LEMMA StepTree ==
  ASSUME FullInv, NEW w \in Workers, Step(w)
  PROVE  /\ TreeNow' /\ worker[w].pc \in AtTask /\ worker[w].task <= num_submitted /\ Spares(worker[w].task)
         /\ Deeper(Expected, worker[w].task, ctxs[worker[w].task], ctxs'[worker[w].task])
         /\ ctxs[worker[w].task].st = "ST_RUNNING"
<1> DEFINE t == worker[w].task
<1>1. /\ worker[w].pc \in AtTask /\ worker[w].pc = "step" /\ DependencyPassed(w) /\ MayStep(ctxs[t])
      /\ StepTo(t, execute_one_step_(heap, t, ctxs[t]))
      /\ UNCHANGED <<txs, num_committed, num_fetched, passed, num_submitted>>
  BY DEF Step, AtTask
<1>2. t <= num_submitted /\ ctxs[t].st # "ST_DONE" BY <1>1 DEF FullInv, IInv, RunningInv
<1>3. t \in TaskIds /\ t <= passed[0] BY <1>1, <1>2, WorkerTask
<1>4. ~Open(ctxs, Original(ctxs[t])) BY <1>1, WorkerReady
<1> HIDE DEF t
<1>5. ctxs[t].st = "ST_RUNNING" BY <1>2, <1>3, RunsNow
<1>6. TreeNow' /\ Spares(t) /\ Deeper(Expected, t, ctxs[t], ctxs'[t]) BY <1>1, <1>2, <1>3, <1>4, TakeStep
<1> QED BY <1>1, <1>2, <1>5, <1>6 DEF t

\* Every step of the scheduler keeps TreeNow.
LEMMA TreeNext == ASSUME FullInv, [Next]_vars PROVE TreeNow'
<1>0. num_committed \in Nat BY StateFacts
<1>1. CASE Master BY <1>1, MasterTree
<1>2. ASSUME NEW i \in 1..num_pipes, PipeStep(i) PROVE TreeNow' BY <1>2, PipeTree
<1>3. ASSUME NEW w \in Workers, Load(w) PROVE TreeNow' BY <1>3, LoadTree
<1>4. ASSUME NEW w \in Workers, Step(w) PROVE TreeNow' BY <1>4, StepTree
<1>5. ASSUME NEW w \in Workers, Estimate(w) PROVE TreeNow' BY <1>5, EstimateTree
<1>6. ASSUME NEW w \in Workers, Fetch(w) \/ PublishBlock(w) PROVE TreeNow'
  BY <1>0, <1>6, TreeKeeps DEF Fetch, PublishBlock, treeVars
<1>7. CASE Boarder BY <1>0, <1>7, TreeKeeps DEF Boarder, treeVars, Conveyor!Board
<1>8. CASE Collector
  <2>1. num_committed' \in Nat /\ num_committed' >= num_committed BY <1>0, <1>8, Constants DEF Collector
  <2> QED BY <1>8, <2>1, TreeKeeps DEF Collector, treeVars
<1>9. CASE UNCHANGED vars \/ Stopped BY <1>0, <1>9, TreeKeeps DEF Stopped, vars, treeVars
<1> QED BY <1>1, <1>2, <1>3, <1>4, <1>5, <1>6, <1>7, <1>8, <1>9 DEF Next, Worker

\* The treap the scheduler is constructed on satisfies TreeNow.
LEMMA TreeNowInit == ASSUME Init PROVE TreeNow
<1> DEFINE b == build_parallel(Contents0)
<1>1. /\ txs \in Workloads /\ num_committed = 0 /\ heap = b.new
      /\ ctxs = [t \in 0..NumTasks |-> IF t = 0 THEN Done([Context EXCEPT !.root = b.ref]) ELSE Context]
  BY DEF Init
<1>2. passed[0] = 0 BY Constants DEF Init, Conveyor!Init, Conveyor!Stations
<1>3. Expected[0] = Contents0 /\ Expected[0] \in Counts BY <1>1, ExpectedIs, Constants
<1>4. b = build_parallel(Expected[0]) BY <1>3
<1> HIDE DEF b
<1>5. TreeInv(Expected, 0, b.new, ctxs, 0) BY <1>1, <1>3, <1>4, TreeInit
<1> QED BY <1>1, <1>2, <1>5 DEF TreeNow
-----------------------------------------------------------------------------
(* Every step keeps the depths. *)

\* What DepthInv says of a task, of a worker that has one and of any worker.
TaskDepth(E, t) ==
  /\ t <= passed[0] /\ ctxs[t].st = "ST_RUNNING" => PipeDepth(E, t)
  /\ t > passed[0] => stage[t] = 0
HandDepth(E, w) == worker[w].pc \in AtTask => WorkerDepth(E, w)
StageBound(w) == worker[w].stage <= Cardinality(Keys) + 1

\* DepthInv by its parts, for one task and one worker at a time.
LEMMA DepthParts ==
  ASSUME NEW E
  PROVE  DepthInv(E) <=> /\ \A t \in TaskIds : TaskDepth(E, t)
                         /\ \A t \in 0..NumTasks : stage[t] \in Nat
                         /\ \A w \in Workers : HandDepth(E, w) /\ StageBound(w)
BY DEF DepthInv, TaskDepth, HandDepth, StageBound

\* The types the depths rest on.
LEMMA DepthTypes ==
  ASSUME FullInv
  PROVE  /\ num_fetched \in Nat /\ num_pipes \in Nat /\ NumTasks \in Nat /\ passed[num_pipes] \in Nat
         /\ \A i \in 0..num_pipes : passed[i] \in Nat /\ passed[num_pipes] <= passed[i] /\ passed[i] <= passed[0]
         /\ \A i, j \in 0..num_pipes : i <= j => passed[j] <= passed[i]
         /\ \A t \in TaskIds : t \in Nat /\ t \in 0..NumTasks
         /\ 0 \in 0..num_pipes /\ num_pipes \in 0..num_pipes /\ DOMAIN ctxs = 0..NumTasks /\ DOMAIN stage = 0..NumTasks
         /\ \A w \in Workers : worker[w] \in [pc : WorkerPcs, task : Nat, stage : Nat, count : Nat, est : Int]
         /\ STAGE_DONE \in Nat /\ Cardinality(Keys) \in Nat
         /\ \A t \in TaskIds : TaskDepth(Expected, t)
         /\ \A t \in 0..NumTasks : stage[t] \in Nat
         /\ \A w \in Workers : HandDepth(Expected, w) /\ StageBound(w)
<1>1. Cardinality(Keys) \in Nat BY KeysAssumption, FS_CardinalityType
<1>2. STAGE_DONE \in Nat BY <1>1, Constants DEF STAGE_DONE
<1>3. DOMAIN stage = 0..NumTasks BY DEF FullInv, CommitInv, StageInv
<1>4. DepthInv(Expected) BY DEF FullInv
<1> QED BY <1>1, <1>2, <1>3, <1>4, DepthParts, Constants DEF FullInv, IInv, Types, StationsInv, TaskIds

\* A task that is not stepped stays where it is.
LEMMA RestTask ==
  ASSUME FullInv, NEW t \in TaskIds, Expected' = Expected, ctxs'[t] = ctxs[t], stage'[t] = stage[t],
         num_fetched' \in Nat, num_fetched' >= num_fetched,
         \A j \in 0..num_pipes : passed'[j] \in Nat /\ (t <= passed'[j] <=> t <= passed[j])
  PROVE  TaskDepth(Expected, t)'
<1>1. /\ t \in Nat /\ num_fetched \in Nat /\ 0 \in 0..num_pipes /\ \A j \in 0..num_pipes : passed[j] \in Nat
      /\ TaskDepth(Expected, t)
  BY DepthTypes
<1>2. PICK E : E = Expected OBVIOUS
<1>3. PICK x : x = Depth(E, t, ctxs[t]) OBVIOUS
<1>4. Depth(Expected, t, ctxs[t])' = x BY <1>2, <1>3 DEF Depth
<1>5. \A j \in 0..num_pipes : t > passed'[j] <=> t > passed[j] BY <1>1
<1>6. t > num_fetched' => t > num_fetched BY <1>1
<1>7. \A i \in 1..num_pipes : i \in 0..num_pipes BY Constants
<1>8. ASSUME t <= passed[0], ctxs[t].st = "ST_RUNNING" PROVE PipeDepth(Expected, t)'
  <2>1. PipeDepth(Expected, t) BY <1>1, <1>8 DEF TaskDepth
  <2>2. /\ \A i \in 0..num_pipes : t <= passed[i] => x >= i
        /\ \A i \in 1..num_pipes : t > passed[i] => x <= i - 1
        /\ t > num_fetched => x <= num_pipes
        /\ stage[t] = 0 \/ x + 1 >= num_pipes + stage[t]
    BY <2>1, <1>2, <1>3 DEF PipeDepth
  <2>3. /\ \A i \in 0..num_pipes : t <= passed'[i] => x >= i
        /\ \A i \in 1..num_pipes : t > passed'[i] => x <= i - 1
        /\ t > num_fetched' => x <= num_pipes
        /\ stage'[t] = 0 \/ x + 1 >= num_pipes + stage'[t]
    BY <2>2, <1>5, <1>6, <1>7
  <2> QED BY <2>3, <1>4 DEF PipeDepth
<1>9. t > passed'[0] => stage'[t] = 0 BY <1>1, <1>5 DEF TaskDepth
<1>10. t <= passed'[0] /\ ctxs'[t].st = "ST_RUNNING" => PipeDepth(Expected, t)' BY <1>1, <1>8
<1> QED BY <1>9, <1>10 DEF TaskDepth

\* A worker nobody steps, whose task nobody steps, keeps its depth.
LEMMA RestWorker ==
  ASSUME FullInv, NEW w \in Workers, Expected' = Expected, worker'[w] = worker[w],
         worker[w].pc \in AtTask =>
            LET t == worker[w].task IN ctxs'[t] = ctxs[t] /\ (t <= passed'[num_pipes] <=> t <= passed[num_pipes])
  PROVE  HandDepth(Expected, w)' /\ StageBound(w)'
<1>1. HandDepth(Expected, w) /\ StageBound(w) BY DepthTypes
<1>2. StageBound(w)' BY <1>1 DEF StageBound
<1>3. ASSUME worker[w].pc \in AtTask PROVE WorkerDepth(Expected, w)'
  <2>1. PICK t : t = worker[w].task OBVIOUS
  <2>2. t = worker'[w].task /\ ctxs'[t] = ctxs[t] /\ (t <= passed'[num_pipes] <=> t <= passed[num_pipes]) BY <1>3, <2>1
  <2>3. PICK E : E = Expected OBVIOUS
  <2>4. PICK x : x = Depth(E, t, ctxs[t]) OBVIOUS
  <2>5. Depth(Expected', t, ctxs'[t]) = x BY <2>2, <2>3, <2>4
  <2>6. IF t <= passed[num_pipes] THEN ctxs[t].st = "ST_RUNNING" => x + 1 = num_pipes + worker[w].stage
        ELSE worker[w].stage = 1
    BY <1>1, <1>3, <2>1, <2>3, <2>4 DEF HandDepth, WorkerDepth
  <2>7. IF t <= passed'[num_pipes] THEN ctxs'[t].st = "ST_RUNNING" => x + 1 = num_pipes + worker'[w].stage
        ELSE worker'[w].stage = 1
    BY <2>2, <2>6
  <2> QED BY <2>2, <2>5, <2>7 DEF WorkerDepth
<1>4. worker'[w].pc \in AtTask => WorkerDepth(Expected, w)' BY <1>3
<1> QED BY <1>2, <1>4 DEF HandDepth

\* DepthParts, after a step.
LEMMA DepthPartsNext ==
  ASSUME \A t \in TaskIds : TaskDepth(Expected, t)', \A t \in 0..NumTasks : stage'[t] \in Nat,
         \A w \in Workers : HandDepth(Expected, w)' /\ StageBound(w)'
  PROVE  DepthInv(Expected)'
BY DEF DepthInv, TaskDepth, HandDepth, StageBound
\* Station i takes task t to depth i.
TakenTo(i, t) ==
  /\ i \in 0..num_pipes /\ t \in TaskIds /\ t = passed[i] + 1 /\ (i # 0 => t <= passed[i-1])
  /\ passed' = [passed EXCEPT ![i] = @ + 1] /\ Expected' = Expected /\ Touches(t)
  /\ \A u \in 0..NumTasks : u # t => stage'[u] = stage[u]
  /\ stage'[t] \in Nat /\ UNCHANGED <<num_fetched, worker>>
  /\ ctxs'[t].st = "ST_RUNNING" =>
       Depth(Expected, t, ctxs'[t]) = i /\ (stage'[t] = 0 \/ i + 1 >= num_pipes + stage'[t])

\* A task that station i has taken is at depth i at least.
LEMMA StationDepth == ASSUME FullInv, NEW i, NEW t, TakenTo(i, t) PROVE DepthInv(Expected)'
<1>1. /\ i \in 0..num_pipes /\ t \in TaskIds /\ t = passed[i] + 1 /\ (i # 0 => t <= passed[i-1])
      /\ passed' = [passed EXCEPT ![i] = @ + 1] /\ Expected' = Expected
      /\ \A u \in 0..NumTasks : u # t => ctxs'[u] = ctxs[u] /\ stage'[u] = stage[u]
      /\ stage'[t] \in Nat /\ UNCHANGED <<num_fetched, worker>>
  BY DEF TakenTo, Touches
<1>2. /\ num_fetched \in Nat /\ num_pipes \in Nat /\ NumTasks \in Nat
      /\ \A j \in 0..num_pipes : passed[j] \in Nat /\ passed[num_pipes] <= passed[j] /\ passed[j] <= passed[0]
      /\ \A j, k \in 0..num_pipes : j <= k => passed[k] <= passed[j]
      /\ \A u \in TaskIds : u \in Nat /\ u \in 0..NumTasks
      /\ 0 \in 0..num_pipes /\ num_pipes \in 0..num_pipes
  BY DepthTypes
<1>3. /\ passed'[i] = t /\ \A j \in 0..num_pipes : j # i => passed'[j] = passed[j]
      /\ \A j \in 0..num_pipes : passed'[j] \in Nat
  BY <1>1, <1>2 DEF FullInv, IInv, Types
<1>4. \A u \in TaskIds : u # t => \A j \in 0..num_pipes : u <= passed'[j] <=> u <= passed[j]
  <2> SUFFICES ASSUME NEW u \in TaskIds, u # t, NEW j \in 0..num_pipes PROVE u <= passed'[j] <=> u <= passed[j] OBVIOUS
  <2>1. CASE j # i BY <1>3, <2>1
  <2>2. CASE j = i BY <1>1, <1>2, <1>3, <2>2
  <2> QED BY <2>1, <2>2
<1>5. ASSUME NEW u \in TaskIds, u # t PROVE TaskDepth(Expected, u)'
  BY <1>1, <1>2, <1>3, <1>4, <1>5, RestTask
<1>6. TaskDepth(Expected, t)'
  <2>1. PICK x : x = Depth(Expected, t, ctxs'[t]) OBVIOUS
  <2>2. Depth(Expected', t, ctxs'[t]) = x BY <1>1, <2>1
  <2>3. t <= passed'[0]
    <3>1. CASE i = 0 BY <1>2, <1>3, <3>1
    <3>2. CASE i # 0
      <4>1. i - 1 \in 0..num_pipes BY <1>1, <1>2, <3>2
      <4> QED BY <1>1, <1>2, <1>3, <3>2, <4>1
    <3> QED BY <3>1, <3>2
  <2>4. ASSUME ctxs'[t].st = "ST_RUNNING" PROVE PipeDepth(Expected, t)'
    <3>1. x = i /\ (stage'[t] = 0 \/ i + 1 >= num_pipes + stage'[t]) BY <2>1, <2>4 DEF TakenTo
    <3>2. \A j \in 0..num_pipes : t <= passed'[j] => x >= j
      <4> SUFFICES ASSUME NEW j \in 0..num_pipes, j > i PROVE ~(t <= passed'[j])
        BY <1>1, <1>2, <3>1
      <4>1. passed[j] <= passed[i] BY <1>1, <1>2
      <4> QED BY <1>1, <1>2, <1>3, <4>1
    <3>3. \A j \in 1..num_pipes : t > passed'[j] => x <= j - 1
      <4> SUFFICES ASSUME NEW j \in 1..num_pipes, j <= i PROVE ~(t > passed'[j])
        BY <1>1, <1>2, <3>1
      <4>0. j \in 0..num_pipes BY <1>2
      <4>1. CASE j = i BY <1>2, <1>3, <4>1
      <4>2. CASE j # i
        <5>1. i # 0 /\ i - 1 \in 0..num_pipes /\ j <= i - 1 BY <1>1, <1>2, <4>2
        <5>2. passed[i-1] <= passed[j] /\ t <= passed[i-1] BY <1>1, <1>2, <4>0, <5>1
        <5>3. passed[j] \in Nat /\ passed[i-1] \in Nat /\ t \in Nat BY <1>1, <1>2, <4>0, <5>1
        <5> QED BY <1>3, <4>0, <4>2, <5>2, <5>3
      <4> QED BY <4>1, <4>2
    <3>4. x <= num_pipes BY <1>1, <1>2, <3>1
    <3> QED BY <2>2, <3>1, <3>2, <3>3, <3>4 DEF PipeDepth
  <2>5. ~(t > passed'[0]) BY <1>1, <1>2, <1>3, <2>3
  <2> QED BY <2>4, <2>5 DEF TaskDepth
<1>7. \A u \in 0..NumTasks : stage'[u] \in Nat BY <1>1, DepthTypes
<1>8. ASSUME NEW w \in Workers PROVE HandDepth(Expected, w)' /\ StageBound(w)'
  <2>1. CASE worker[w].pc \in AtTask /\ worker[w].task = t
    <3>1. HandDepth(Expected, w) /\ StageBound(w) BY DepthTypes
    <3>2. t > passed[num_pipes]
      <4>1. passed[num_pipes] <= passed[i] BY <1>1, <1>2
      <4> QED BY <1>1, <1>2, <4>1
    <3>3. worker[w].stage = 1 BY <1>1, <1>2, <2>1, <3>1, <3>2 DEF HandDepth, WorkerDepth
    <3>4. t <= passed'[num_pipes] => num_pipes = i BY <1>1, <1>2, <1>3, <3>2
    <3>5. PICK x : x = Depth(Expected, t, ctxs'[t]) OBVIOUS
    <3>6. Depth(Expected', t, ctxs'[t]) = x BY <1>1, <3>5
    <3>7. t <= passed'[num_pipes] /\ ctxs'[t].st = "ST_RUNNING" => x + 1 = num_pipes + 1
      BY <3>4, <3>5 DEF TakenTo
    <3>8. WorkerDepth(Expected, w)' BY <1>1, <2>1, <3>3, <3>6, <3>7 DEF WorkerDepth
    <3> QED BY <1>1, <3>1, <3>8 DEF HandDepth, StageBound
  <2>2. CASE ~(worker[w].pc \in AtTask /\ worker[w].task = t)
    <3>1. worker[w].pc \in AtTask => worker[w].task \in TaskIds
      BY DEF FullInv, IInv, FetchedInv, TaskIds
    <3>2. worker[w].pc \in AtTask =>
            LET u == worker[w].task IN ctxs'[u] = ctxs[u] /\ (u <= passed'[num_pipes] <=> u <= passed[num_pipes])
      BY <1>1, <1>2, <1>4, <2>2, <3>1
    <3> QED BY <1>1, <3>2, RestWorker
  <2> QED BY <2>1, <2>2
<1>9. \A u \in TaskIds : TaskDepth(Expected, u)' BY <1>5, <1>6
<1> QED BY <1>7, <1>8, <1>9, DepthPartsNext
-----------------------------------------------------------------------------
\* The master keeps the depths: it issues a task at the root.
LEMMA MasterDepth == ASSUME FullInv, Master PROVE DepthInv(Expected)'
<1>1. PICK t : t = passed[0] + 1 OBVIOUS
<1>2. t \in TaskIds /\ AtRoot(Expected, t, ctxs'[t]) BY <1>1, MasterTree
<1>3. PICK r : StepTo(t, r)
  <2>1. CASE txs[t].op = "OP_NONE" BY <1>1, <2>1 DEF Master
  <2>2. CASE txs[t].op # "OP_NONE" BY <1>1, <2>2 DEF Master
  <2> QED BY <2>1, <2>2
<1>4. passed' = [passed EXCEPT ![0] = @ + 1] /\ UNCHANGED <<txs, num_fetched, worker>> BY DEF Master, Conveyor!Push
<1>5. 0 \in 0..num_pipes /\ DOMAIN stage = 0..NumTasks /\ t \in 0..NumTasks /\ STAGE_DONE \in Nat /\ passed[0] \in Nat
      /\ \A u \in 0..NumTasks : stage[u] \in Nat
  BY <1>2, DepthTypes
<1>6. stage[t] = 0
  <2>1. TaskDepth(Expected, t) /\ t > passed[0] BY <1>1, <1>2, <1>5, DepthTypes
  <2> QED BY <2>1 DEF TaskDepth
<1>7. Touches(t) BY <1>3, StepTouches DEF FullInv, IInv
<1>8. ctxs'[t] = r.c BY <1>3, <1>5, DepthTypes DEF StepTo
<1>9. /\ \A u \in 0..NumTasks : u # t => stage'[u] = stage[u]
      /\ stage'[t] \in Nat /\ (ctxs'[t].st = "ST_RUNNING" => stage'[t] = 0)
  BY <1>3, <1>5, <1>6, <1>8 DEF StepTo
<1>10. ctxs'[t].st = "ST_RUNNING" => Depth(Expected, t, ctxs'[t]) = 0
  <2>1. Cardinality({}) = 0 BY FS_EmptySet
  <2> QED BY <1>2, <2>1 DEF AtRoot, Depth
<1>11. Expected' = Expected BY <1>4, ExpectedStays
<1>12. TakenTo(0, t) BY <1>1, <1>2, <1>4, <1>5, <1>7, <1>9, <1>10, <1>11 DEF TakenTo
<1> QED BY <1>12, StationDepth

\* So does a pipe: the task it takes was at the depth of the pipe before.
LEMMA PipeDepthStep == ASSUME FullInv, NEW i \in 1..num_pipes, PipeStep(i) PROVE DepthInv(Expected)'
<1>1. PICK t : t = passed[i] + 1 OBVIOUS
<1>2. t \in TaskIds /\ AtPipe(i, t) /\ t <= passed[0] /\ Goes(t) BY <1>1, PipeTree
<1>3. passed' = [passed EXCEPT ![i] = @ + 1] /\ UNCHANGED <<txs, num_fetched, worker>> BY DEF PipeStep, Conveyor!Pass
<1>4. /\ i \in 0..num_pipes /\ DOMAIN stage = 0..NumTasks /\ t \in 0..NumTasks /\ STAGE_DONE \in Nat /\ passed[i] \in Nat
      /\ t \in Nat /\ i \in Nat /\ i - 1 \in 0..num_pipes /\ num_pipes \in Nat
      /\ \A u \in 0..NumTasks : stage[u] \in Nat
  BY <1>2, DepthTypes
<1>5. UNCHANGED treeVars \/ \E r : StepTo(t, r) BY <1>1 DEF PipeStep
<1>6. Touches(t)
  <2>1. CASE UNCHANGED treeVars BY <2>1 DEF treeVars, Touches
  <2> QED BY <1>5, <2>1, StepTouches DEF FullInv, IInv
<1>7. \A u \in 0..NumTasks : u # t => stage'[u] = stage[u]
  <2>1. CASE UNCHANGED treeVars BY <2>1 DEF treeVars
  <2> QED BY <1>4, <1>5, <2>1 DEF StepTo
<1>8. stage'[t] \in Nat /\ (ctxs'[t].st = "ST_RUNNING" => stage'[t] = stage[t])
  <2>1. CASE UNCHANGED treeVars BY <1>4, <2>1 DEF treeVars
  <2>2. CASE \E r : StepTo(t, r)
    <3>1. PICK r : StepTo(t, r) BY <2>2
    <3>2. ctxs'[t] = r.c BY <1>4, <3>1, DepthTypes DEF StepTo
    <3> QED BY <1>4, <3>1, <3>2 DEF StepTo
  <2> QED BY <1>5, <2>1, <2>2
<1>9. ASSUME ctxs'[t].st = "ST_RUNNING"
      PROVE  Depth(Expected, t, ctxs'[t]) = i /\ (stage'[t] = 0 \/ i + 1 >= num_pipes + stage'[t])
  <2>1. ctxs[t].st = "ST_RUNNING" /\ Deeper(Expected, t, ctxs[t], ctxs'[t]) BY <1>2, <1>9 DEF Goes
  <2>2. Depth(Expected, t, ctxs'[t]) = Depth(Expected, t, ctxs[t]) + 1 /\ Key(ctxs[t].t_cur) \in Keys
    BY <1>9, <2>1, DepthDeeper
  <2>3. Depth(Expected, t, ctxs[t]) \in Nat BY <2>2, DepthBounds
  <2>4. PipeDepth(Expected, t) BY <1>2, <2>1, DepthTypes DEF TaskDepth
  <2>5. t <= passed[i-1] /\ t > passed[i] BY <1>1, <1>2, <1>4 DEF AtPipe
  <2>6. Depth(Expected, t, ctxs[t]) >= i - 1 /\ Depth(Expected, t, ctxs[t]) <= i - 1 BY <1>4, <2>4, <2>5 DEF PipeDepth
  <2>7. Depth(Expected, t, ctxs[t]) = i - 1 BY <1>4, <2>3, <2>6
  <2>8. stage[t] = 0 \/ Depth(Expected, t, ctxs[t]) + 1 >= num_pipes + stage[t] BY <2>4 DEF PipeDepth
  <2>9. stage[t] = 0 \/ i + 1 >= num_pipes + stage[t] BY <1>4, <2>7, <2>8
  <2>10. Depth(Expected, t, ctxs'[t]) = i BY <1>4, <2>2, <2>7
  <2> QED BY <1>8, <1>9, <2>9, <2>10
<1>10. Expected' = Expected BY <1>3, ExpectedStays
<1>11. t <= passed[i-1] BY <1>2 DEF AtPipe
<1>12. TakenTo(i, t) BY <1>1, <1>2, <1>3, <1>4, <1>6, <1>7, <1>8, <1>9, <1>10, <1>11 DEF TakenTo
<1> QED BY <1>12, StationDepth
-----------------------------------------------------------------------------
\* Worker w makes the next move of its task t.
MovesOn(w, t) ==
  /\ t \in TaskIds /\ t <= passed[num_pipes] /\ t <= num_fetched /\ worker[w].pc \in AtTask /\ worker[w].task = t
  /\ Expected' = Expected /\ Touches(t) /\ \A u \in 0..NumTasks : u # t => stage'[u] = stage[u]
  /\ \A v \in Workers : v # w => worker'[v] = worker[v]
  /\ stage'[t] \in Nat /\ UNCHANGED <<num_fetched, passed>>
  /\ worker'[w].stage \in Nat /\ worker'[w].stage <= Cardinality(Keys) + 1
  /\ worker'[w].pc \in AtTask => worker'[w].task = t
  /\ ctxs'[t].st = "ST_RUNNING" =>
       /\ Depth(Expected, t, ctxs'[t]) \in Nat
       /\ Depth(Expected, t, ctxs'[t]) >= num_pipes
       /\ Depth(Expected, t, ctxs'[t]) + 1 = num_pipes + worker'[w].stage
       /\ stage'[t] = 0 \/ Depth(Expected, t, ctxs'[t]) + 1 >= num_pipes + stage'[t]

\* So does a worker that moves on to another task.
LEMMA MoveDepth == ASSUME FullInv, NEW w \in Workers, NEW t, MovesOn(w, t) PROVE DepthInv(Expected)'
<1>1. /\ t \in TaskIds /\ t <= passed[num_pipes] /\ t <= num_fetched /\ worker[w].pc \in AtTask /\ worker[w].task = t
      /\ Expected' = Expected /\ \A u \in 0..NumTasks : u # t => ctxs'[u] = ctxs[u] /\ stage'[u] = stage[u]
      /\ \A v \in Workers : v # w => worker'[v] = worker[v]
      /\ stage'[t] \in Nat /\ UNCHANGED <<num_fetched, passed>>
      /\ worker'[w].stage \in Nat /\ worker'[w].stage <= Cardinality(Keys) + 1
      /\ (worker'[w].pc \in AtTask => worker'[w].task = t)
  BY DEF MovesOn, Touches
<1>2. /\ num_fetched \in Nat /\ num_pipes \in Nat /\ NumTasks \in Nat
      /\ \A j \in 0..num_pipes : passed[j] \in Nat /\ passed[num_pipes] <= passed[j] /\ passed[j] <= passed[0]
      /\ \A u \in TaskIds : u \in Nat /\ u \in 0..NumTasks
      /\ 0 \in 0..num_pipes /\ num_pipes \in 0..num_pipes
  BY DepthTypes
<1>3. ASSUME NEW u \in TaskIds, u # t PROVE TaskDepth(Expected, u)' BY <1>1, <1>2, <1>3, RestTask
<1>4. \A j \in 0..num_pipes : t <= passed[j] BY <1>1, <1>2
<1>5. TaskDepth(Expected, t)'
  <2>1. PICK x : x = Depth(Expected, t, ctxs'[t]) OBVIOUS
  <2>2. Depth(Expected', t, ctxs'[t]) = x BY <1>1, <2>1
  <2>3. ASSUME ctxs'[t].st = "ST_RUNNING" PROVE PipeDepth(Expected, t)'
    <3>1. x \in Nat /\ x >= num_pipes /\ (stage'[t] = 0 \/ x + 1 >= num_pipes + stage'[t]) BY <2>1, <2>3 DEF MovesOn
    <3>2. \A j \in 0..num_pipes : t <= passed'[j] => x >= j BY <1>2, <3>1
    <3>3. \A j \in 1..num_pipes : ~(t > passed'[j]) BY <1>1, <1>2, <1>4
    <3>4. ~(t > num_fetched') BY <1>1, <1>2
    <3> QED BY <2>2, <3>1, <3>2, <3>3, <3>4 DEF PipeDepth
  <2>4. ~(t > passed'[0]) BY <1>1, <1>2, <1>4
  <2> QED BY <2>3, <2>4 DEF TaskDepth
<1>6. \A u \in 0..NumTasks : stage'[u] \in Nat BY <1>1, DepthTypes
<1>7. ASSUME NEW v \in Workers PROVE HandDepth(Expected, v)' /\ StageBound(v)'
  <2>1. CASE v = w
    <3>1. PICK x : x = Depth(Expected, t, ctxs'[t]) OBVIOUS
    <3>2. Depth(Expected', t, ctxs'[t]) = x BY <1>1, <3>1
    <3>3. ctxs'[t].st = "ST_RUNNING" => x + 1 = num_pipes + worker'[w].stage BY <3>1 DEF MovesOn
    <3>4. worker'[w].task = t => WorkerDepth(Expected, w)' BY <1>1, <3>2, <3>3 DEF WorkerDepth
    <3> QED BY <1>1, <2>1, <3>4 DEF HandDepth, StageBound
  <2>2. CASE v # w
    <3>1. worker[v].pc \in AtTask => worker[v].task \in TaskIds /\ worker[v].task # t
      BY <1>1, <2>2 DEF FullInv, IInv, FetchedInv, TaskIds
    <3>2. worker[v].pc \in AtTask =>
            LET u == worker[v].task IN ctxs'[u] = ctxs[u] /\ (u <= passed'[num_pipes] <=> u <= passed[num_pipes])
      BY <1>1, <1>2, <3>1
    <3> QED BY <1>1, <2>2, <3>2, RestWorker
  <2> QED BY <2>1, <2>2
<1>8. \A u \in TaskIds : TaskDepth(Expected, u)' BY <1>3, <1>5
<1> QED BY <1>6, <1>7, <1>8, DepthPartsNext
\* A running task has a node open.
RunsNowAt(t) == Key(ctxs[t].t_cur) \in Keys

\* A running task has a key on its path.
LEMMA RunsAt == ASSUME FullInv, NEW t \in TaskIds, t <= passed[0], ctxs[t].st = "ST_RUNNING" PROVE RunsNowAt(t)
<1>1. Runs(Expected, num_committed, heap, ctxs, passed[0], t) BY RunsNow
<1>2. PICK lo, hi : TaskAt(Expected, num_committed, heap, t, ctxs[t], lo, hi) BY <1>1 DEF Runs, TreeInv, TasksInv
<1> QED BY <1>2 DEF TaskAt, Place, Key, RunsNowAt
-----------------------------------------------------------------------------
\* So does a worker that loads a task: stage has what the pipes have done.
LEMMA LoadDepth == ASSUME FullInv, NEW w \in Workers, Load(w) PROVE DepthInv(Expected)'
<1>1. PICK t : t = worker[w].task OBVIOUS
<1>2. PICK s : s = worker[w].stage OBVIOUS
<1>3. /\ worker[w].pc \in AtTask /\ t <= num_submitted
      /\ UNCHANGED <<txs, num_committed, num_fetched, passed, num_submitted>>
  BY <1>1 DEF Load, AtTask
<1>4. t \in TaskIds /\ t <= passed[num_pipes] /\ t <= passed[0] /\ t <= num_fetched BY <1>1, <1>3, WorkerTask
<1>5. \/ ctxs'[t].st = "ST_DONE" /\ worker' = [worker EXCEPT ![w] = AfterUpdate(w, t)]
         /\ (UNCHANGED treeVars \/ StepTo(t, execute_to_complete_(heap, t, ctxs[t])))
      \/ ctxs' = ctxs /\ stage' = [stage EXCEPT ![t] = s] /\ worker' = [worker EXCEPT ![w].pc = "step"]
         /\ ctxs[t].st = "ST_RUNNING"
  BY <1>1, <1>2, LoadTree
<1>6. /\ worker[w] \in [pc : WorkerPcs, task : Nat, stage : Nat, count : Nat, est : Int] /\ DOMAIN worker = Workers
      /\ s \in Nat /\ s <= Cardinality(Keys) + 1 /\ t \in 0..NumTasks /\ DOMAIN stage = 0..NumTasks /\ t \in Nat
      /\ \A u \in 0..NumTasks : stage[u] \in Nat
      /\ STAGE_DONE \in Nat /\ num_pipes \in Nat /\ num_pipes \in 0..num_pipes /\ Types
  BY <1>2, <1>4, DepthTypes DEF StageBound, FullInv, IInv, Types
<1>7. Expected' = Expected BY <1>3, ExpectedStays
<1>8. CASE ctxs'[t].st = "ST_DONE" /\ worker' = [worker EXCEPT ![w] = AfterUpdate(w, t)]
           /\ (UNCHANGED treeVars \/ StepTo(t, execute_to_complete_(heap, t, ctxs[t])))
  <2>1. Touches(t)
    <3>1. CASE UNCHANGED treeVars BY <3>1 DEF treeVars, Touches
    <3> QED BY <1>6, <1>8, <3>1, StepTouches
  <2>2. stage' = stage \/ stage' = [stage EXCEPT ![t] = STAGE_DONE]
    BY <1>8 DEF treeVars, StepTo
  <2>3. stage'[t] \in Nat /\ \A u \in 0..NumTasks : u # t => stage'[u] = stage[u] BY <1>6, <2>2
  <2>4. AfterUpdate(w, t).pc \notin AtTask /\ AfterUpdate(w, t).stage = s
    <3>1. AfterUpdate(w, t).pc \notin AtTask BY <1>6, AfterUpdateIs
    <3>2. AfterUpdate(w, t).stage = worker[w].stage BY <1>6 DEF AfterUpdate
    <3> QED BY <1>2, <3>1, <3>2
  <2>5. worker'[w] = AfterUpdate(w, t) /\ \A v \in Workers : v # w => worker'[v] = worker[v] BY <1>6, <1>8
  <2>6. ctxs'[t].st # "ST_RUNNING" BY <1>8
  <2>7. MovesOn(w, t) BY <1>1, <1>3, <1>4, <1>6, <1>7, <2>1, <2>3, <2>4, <2>5, <2>6 DEF MovesOn
  <2> QED BY <2>7, MoveDepth
<1>9. CASE ctxs' = ctxs /\ stage' = [stage EXCEPT ![t] = s] /\ worker' = [worker EXCEPT ![w].pc = "step"]
           /\ ctxs[t].st = "ST_RUNNING"
  <2>1. Touches(t) BY <1>9 DEF Touches
  <2>2. stage'[t] = s /\ \A u \in 0..NumTasks : u # t => stage'[u] = stage[u] BY <1>6, <1>9
  <2>3. /\ worker'[w].pc = "step" /\ worker'[w].task = t /\ worker'[w].stage = s
        /\ \A v \in Workers : v # w => worker'[v] = worker[v]
    BY <1>1, <1>2, <1>6, <1>9
  <2>4. PICK x : x = Depth(Expected, t, ctxs[t]) OBVIOUS
  <2>5. x + 1 = num_pipes + s
    <3>1. HandDepth(Expected, w) BY DepthTypes
    <3> QED BY <1>1, <1>2, <1>3, <1>4, <1>9, <2>4, <3>1 DEF HandDepth, WorkerDepth
  <2>6. x \in Nat /\ x >= num_pipes
    <3>1. RunsNowAt(t) BY <1>4, <1>9, RunsAt
    <3>2. TaskDepth(Expected, t) BY <1>4, DepthTypes
    <3> QED BY <1>4, <1>6, <1>9, <2>4, <3>1, <3>2, DepthBounds DEF TaskDepth, PipeDepth, RunsNowAt
  <2>7. Depth(Expected, t, ctxs'[t]) = x BY <1>9, <2>4
  <2>8. MovesOn(w, t) BY <1>1, <1>3, <1>4, <1>6, <1>7, <2>1, <2>2, <2>3, <2>5, <2>6, <2>7 DEF MovesOn
  <2> QED BY <2>8, MoveDepth
<1> QED BY <1>5, <1>8, <1>9

\* So does a worker that steps its task: stage counts the level it has left.
LEMMA StepDepth == ASSUME FullInv, NEW w \in Workers, Step(w) PROVE DepthInv(Expected)'
<1>1. PICK t : t = worker[w].task OBVIOUS
<1>2. PICK s : s = worker[w].stage OBVIOUS
<1>3. /\ worker[w].pc \in AtTask /\ t <= num_submitted /\ ctxs[t].st = "ST_RUNNING"
      /\ Deeper(Expected, t, ctxs[t], ctxs'[t])
  BY <1>1, StepTree
<1>4. t \in TaskIds /\ t <= passed[num_pipes] /\ t <= passed[0] /\ t <= num_fetched BY <1>1, <1>3, WorkerTask
<1>5. PICK r : StepTo(t, r) BY <1>1 DEF Step
<1>6. /\ worker[w] \in [pc : WorkerPcs, task : Nat, stage : Nat, count : Nat, est : Int] /\ DOMAIN worker = Workers
      /\ s \in Nat /\ s <= Cardinality(Keys) + 1 /\ t \in 0..NumTasks /\ DOMAIN stage = 0..NumTasks /\ t \in Nat
      /\ \A u \in 0..NumTasks : stage[u] \in Nat
      /\ STAGE_DONE \in Nat /\ num_pipes \in Nat /\ num_pipes \in 0..num_pipes /\ Types
      /\ Cardinality(Keys) \in Nat /\ DOMAIN ctxs = 0..NumTasks
  BY <1>2, <1>4, DepthTypes DEF StageBound, FullInv, IInv, Types
<1>7. Expected' = Expected /\ UNCHANGED <<num_fetched, passed>> BY ExpectedStays DEF Step
<1>8. ctxs'[t] = r.c BY <1>5, <1>6 DEF StepTo
<1>9. Touches(t) BY <1>5, <1>6, StepTouches
<1>10. stage' = IF r.c.st = "ST_DONE" THEN [stage EXCEPT ![t] = STAGE_DONE] ELSE stage BY <1>5 DEF StepTo
<1>11. stage'[t] \in Nat /\ \A u \in 0..NumTasks : u # t => stage'[u] = stage[u] BY <1>6, <1>10
<1>12. worker' = [worker EXCEPT ![w] = IF ctxs'[t].st = "ST_DONE" THEN AfterUpdate(w, t)
                                       ELSE [worker[w] EXCEPT !.pc = "load", !.stage = s + 1]]
  <2>1. CASE ctxs'[t].st = "ST_DONE" BY <1>1, <1>2, <2>1 DEF Step
  <2>2. CASE ctxs'[t].st # "ST_DONE" BY <1>1, <1>2, <2>2 DEF Step
  <2> QED BY <2>1, <2>2
<1>13. \A v \in Workers : v # w => worker'[v] = worker[v] BY <1>6, <1>12
<1>14. CASE ctxs'[t].st = "ST_DONE"
  <2>1. AfterUpdate(w, t).pc \notin AtTask /\ AfterUpdate(w, t).stage = s
    <3>1. AfterUpdate(w, t).pc \notin AtTask BY <1>6, AfterUpdateIs
    <3>2. AfterUpdate(w, t).stage = worker[w].stage BY <1>6 DEF AfterUpdate
    <3> QED BY <1>2, <3>1, <3>2
  <2>2. worker'[w] = AfterUpdate(w, t) BY <1>6, <1>12, <1>14
  <2>3. MovesOn(w, t) BY <1>1, <1>3, <1>4, <1>6, <1>7, <1>9, <1>11, <1>13, <1>14, <2>1, <2>2 DEF MovesOn
  <2> QED BY <2>3, MoveDepth
<1>15. CASE ctxs'[t].st # "ST_DONE"
  <2>1. /\ worker'[w].pc = "load" /\ worker'[w].task = t /\ worker'[w].stage = s + 1
    BY <1>1, <1>6, <1>12, <1>15
  <2>2. stage'[t] = stage[t] BY <1>8, <1>10, <1>15
  <2>3. ctxs'[t].st = "ST_RUNNING"
    <3>1. TreeNow' BY StepTree
    <3> QED BY <1>6, <1>15, <3>1 DEF TreeNow, TreeInv, ContextsInv
  <2>4. PICK x : x = Depth(Expected, t, ctxs[t]) OBVIOUS
  <2>5. Depth(Expected, t, ctxs'[t]) = x + 1 /\ Key(ctxs[t].t_cur) \in Keys /\ Key(ctxs'[t].t_cur) \in Keys
    BY <1>3, <2>3, <2>4, DepthDeeper
  <2>6. x \in Nat /\ x + 1 < Cardinality(Keys) BY <2>4, <2>5, DepthBounds
  <2>7. x + 1 = num_pipes + s
    <3>1. HandDepth(Expected, w) BY DepthTypes
    <3> QED BY <1>1, <1>2, <1>3, <1>4, <2>4, <3>1 DEF HandDepth, WorkerDepth
  <2>8. x >= num_pipes /\ (stage[t] = 0 \/ x + 1 >= num_pipes + stage[t])
    <3>1. TaskDepth(Expected, t) BY <1>4, DepthTypes
    <3> QED BY <1>3, <1>4, <1>6, <2>4, <3>1 DEF TaskDepth, PipeDepth
  <2>9. PICK y : y = x + 1 OBVIOUS
  <2>10. /\ Depth(Expected, t, ctxs'[t]) = y /\ y \in Nat /\ y >= num_pipes
         /\ y + 1 = num_pipes + (s + 1) /\ s + 1 \in Nat /\ s + 1 <= Cardinality(Keys) + 1
         /\ (stage'[t] = 0 \/ y + 1 >= num_pipes + stage'[t])
    BY <1>6, <2>2, <2>5, <2>6, <2>7, <2>8, <2>9
  <2>11. MovesOn(w, t) BY <1>1, <1>3, <1>4, <1>6, <1>7, <1>9, <1>11, <1>13, <2>1, <2>10 DEF MovesOn
  <2> QED BY <2>11, MoveDepth
<1> QED BY <1>14, <1>15
-----------------------------------------------------------------------------
\* A step that moves no task.
LEMMA RestDepth ==
  ASSUME FullInv, UNCHANGED <<txs, ctxs, stage, passed>>, num_fetched' \in Nat, num_fetched' >= num_fetched,
         \A w \in Workers : worker'[w] # worker[w] => HandDepth(Expected, w)' /\ StageBound(w)'
  PROVE  DepthInv(Expected)'
<1>1. Expected' = Expected BY ExpectedStays
<1>2. ASSUME NEW t \in TaskIds PROVE TaskDepth(Expected, t)' BY <1>1, RestTask, DepthTypes
<1>3. \A t \in 0..NumTasks : stage'[t] \in Nat BY DepthTypes
<1>4. ASSUME NEW w \in Workers PROVE HandDepth(Expected, w)' /\ StageBound(w)' BY <1>1, RestWorker
<1> QED BY <1>2, <1>3, <1>4, DepthPartsNext

\* So does a worker that fetches a task.
LEMMA FetchDepth == ASSUME FullInv, NEW w \in Workers, Fetch(w) PROVE DepthInv(Expected)'
<1>1. PICK t : t = num_fetched + 1 OBVIOUS
<1>2. /\ num_fetched \in Nat /\ t \in Nat /\ NumTasks \in Nat /\ num_pipes \in Nat /\ num_pipes \in 0..num_pipes
      /\ passed[num_pipes] \in Nat /\ passed[0] \in Nat /\ passed[num_pipes] <= passed[0] /\ Cardinality(Keys) \in Nat
      /\ worker[w] \in [pc : WorkerPcs, task : Nat, stage : Nat, count : Nat, est : Int] /\ DOMAIN worker = Workers /\ Types
  BY <1>1, DepthTypes DEF FullInv, IInv, Types
<1>3. /\ num_fetched' = t /\ UNCHANGED <<txs, ctxs, stage, passed>>
      /\ worker' = [worker EXCEPT ![w] = IF t > NumTasks THEN AfterUpdate(w, t)
                                         ELSE [worker[w] EXCEPT !.pc = "load", !.task = t, !.stage = 1]]
  BY <1>1 DEF Fetch, treeVars
<1>4. Expected' = Expected BY <1>3, ExpectedStays
<1>5. HandDepth(Expected, w)' /\ StageBound(w)'
  <2>1. CASE t > NumTasks
    <3>1. worker'[w] = AfterUpdate(w, t) BY <1>2, <1>3, <2>1
    <3>2. AfterUpdate(w, t).pc \notin AtTask BY <1>2, AfterUpdateIs
    <3>3. AfterUpdate(w, t).stage = worker[w].stage BY <1>2 DEF AfterUpdate
    <3>4. StageBound(w) BY DepthTypes
    <3> QED BY <3>1, <3>2, <3>3, <3>4 DEF HandDepth, StageBound
  <2>2. CASE ~(t > NumTasks)
    <3>1. worker'[w].pc = "load" /\ worker'[w].task = t /\ worker'[w].stage = 1 BY <1>2, <1>3, <2>2
    <3>2. t \in TaskIds /\ t > num_fetched BY <1>1, <1>2, <2>2 DEF TaskIds
    <3>3. PICK x : x = Depth(Expected, t, ctxs[t]) OBVIOUS
    <3>4. Depth(Expected', t, ctxs'[t]) = x BY <1>3, <1>4, <3>3
    <3>5. ASSUME t <= passed[num_pipes], ctxs[t].st = "ST_RUNNING" PROVE x + 1 = num_pipes + 1
      <4>1. t <= passed[0] BY <1>2, <3>5
      <4>2. RunsNowAt(t) BY <3>2, <3>5, <4>1, RunsAt
      <4>3. x \in Nat BY <3>3, <4>2, DepthBounds DEF RunsNowAt
      <4>4. PipeDepth(Expected, t) BY <3>2, <3>5, <4>1, DepthTypes DEF TaskDepth
      <4>5. x >= num_pipes /\ x <= num_pipes BY <1>2, <3>2, <3>3, <3>5, <4>4 DEF PipeDepth
      <4> QED BY <1>2, <4>3, <4>5
    <3>6. WorkerDepth(Expected, w)' BY <1>3, <3>1, <3>4, <3>5 DEF WorkerDepth
    <3> QED BY <1>2, <3>1, <3>6 DEF HandDepth, StageBound
  <2> QED BY <2>1, <2>2
<1>6. \A v \in Workers : v # w => worker'[v] = worker[v] BY <1>2, <1>3
<1>7. num_fetched' \in Nat /\ num_fetched' >= num_fetched BY <1>1, <1>2, <1>3
<1>8. \A v \in Workers : worker'[v] # worker[v] => HandDepth(Expected, v)' /\ StageBound(v)' BY <1>5, <1>6
<1> QED BY <1>3, <1>7, <1>8, RestDepth

\* Every step of the scheduler keeps the depths.
LEMMA DepthNext == ASSUME FullInv, [Next]_vars PROVE DepthInv(Expected)'
<1>0. num_fetched \in Nat /\ DOMAIN worker = Workers
      /\ \A w \in Workers : worker[w] \in [pc : WorkerPcs, task : Nat, stage : Nat, count : Nat, est : Int]
  BY DepthTypes DEF FullInv, IInv, Types
<1>1. CASE Master BY <1>1, MasterDepth
<1>2. ASSUME NEW i \in 1..num_pipes, PipeStep(i) PROVE DepthInv(Expected)' BY <1>2, PipeDepthStep
<1>3. ASSUME NEW w \in Workers, Load(w) PROVE DepthInv(Expected)' BY <1>3, LoadDepth
<1>4. ASSUME NEW w \in Workers, Step(w) PROVE DepthInv(Expected)' BY <1>4, StepDepth
<1>5. ASSUME NEW w \in Workers, Fetch(w) PROVE DepthInv(Expected)' BY <1>5, FetchDepth
<1>6. ASSUME UNCHANGED <<txs, ctxs, stage, passed, num_fetched>>, NEW w \in Workers,
             \A v \in Workers : v # w => worker'[v] = worker[v],
             worker'[w].pc \notin AtTask, worker'[w].stage = worker[w].stage
      PROVE  DepthInv(Expected)'
  <2>1. HandDepth(Expected, w)' BY <1>6 DEF HandDepth
  <2>2. StageBound(w) BY DepthTypes
  <2>3. StageBound(w)' BY <1>6, <2>2 DEF StageBound
  <2>4. \A v \in Workers : worker'[v] # worker[v] => HandDepth(Expected, v)' /\ StageBound(v)' BY <1>6, <2>1, <2>3
  <2> QED BY <1>0, <1>6, <2>4, RestDepth
<1>7. ASSUME NEW w \in Workers, Estimate(w) PROVE DepthInv(Expected)'
  <2>1. worker'[w].pc \notin AtTask /\ worker'[w].stage = worker[w].stage /\ \A v \in Workers : v # w => worker'[v] = worker[v]
    BY <1>0, <1>7 DEF Estimate, AtTask
  <2>2. UNCHANGED <<txs, ctxs, stage, passed, num_fetched>> BY <1>7 DEF Estimate
  <2> QED BY <1>6, <2>1, <2>2
<1>8. ASSUME NEW w \in Workers, PublishBlock(w) PROVE DepthInv(Expected)'
  <2> DEFINE p == IF MoreTasks(worker[w].task) THEN "fetch" ELSE "stop"
  <2>1. worker' = [worker EXCEPT ![w].count = worker[w].count + 1, ![w].est = 0, ![w].pc = p]
    BY <1>8 DEF PublishBlock
  <2>2. p \notin AtTask BY DEF AtTask
  <2> HIDE DEF p
  <2>3. worker'[w].pc \notin AtTask /\ worker'[w].stage = worker[w].stage /\ \A v \in Workers : v # w => worker'[v] = worker[v]
    BY <1>0, <2>1, <2>2
  <2>4. UNCHANGED <<txs, ctxs, stage, passed, num_fetched>> BY <1>8 DEF PublishBlock, treeVars
  <2> QED BY <1>6, <2>3, <2>4
<1>9. ASSUME UNCHANGED <<txs, ctxs, stage, passed, num_fetched, worker>> PROVE DepthInv(Expected)'
  BY <1>0, <1>9, RestDepth
<1>10. CASE Boarder BY <1>9, <1>10 DEF Boarder, treeVars, Conveyor!Board
<1>11. CASE Collector BY <1>9, <1>11 DEF Collector, treeVars
<1>12. CASE UNCHANGED vars \/ Stopped BY <1>9, <1>12 DEF Stopped, vars, treeVars
<1> QED BY <1>1, <1>2, <1>3, <1>4, <1>5, <1>7, <1>8, <1>10, <1>11, <1>12 DEF Next, Worker

\* At the start no task has a depth.
LEMMA DepthNowInit == ASSUME Init PROVE DepthInv(Expected)
<1>1. /\ \A t \in 0..NumTasks : stage[t] = IF t = 0 THEN STAGE_DONE ELSE 0
      /\ \A w \in Workers : worker[w].pc = "fetch" /\ worker[w].stage = 0
  BY DEF Init
<1>2. passed[0] = 0 BY Constants DEF Init, Conveyor!Init, Conveyor!Stations
<1>3. Cardinality(Keys) \in Nat BY KeysAssumption, FS_CardinalityType
<1>4. STAGE_DONE \in Nat BY <1>3, Constants DEF STAGE_DONE
<1>5. \A t \in TaskIds : t \in 0..NumTasks /\ t # 0 /\ ~(t <= 0) BY Constants DEF TaskIds
<1>6. \A t \in TaskIds : TaskDepth(Expected, t) BY <1>1, <1>2, <1>5 DEF TaskDepth
<1>7. \A t \in 0..NumTasks : stage[t] \in Nat BY <1>1, <1>4
<1>8. \A w \in Workers : HandDepth(Expected, w) /\ StageBound(w) BY <1>1, <1>3 DEF HandDepth, StageBound, AtTask
<1> QED BY <1>6, <1>7, <1>8, DepthParts
-----------------------------------------------------------------------------
\* A scheduler that has just been constructed satisfies the full invariant.
LEMMA FullInit == Init => FullInv
BY IInvInit, CommitInit, TreeNowInit, DepthNowInit DEF FullInv

\* Every step of the scheduler keeps the full invariant.
LEMMA FullStep == FullInv /\ [Next]_vars => FullInv'
<1> SUFFICES ASSUME FullInv, [Next]_vars PROVE FullInv' OBVIOUS
<1>1. StagesBelowDone BY StagesBelow DEF FullInv
<1>2. IInv' /\ CommitInv' BY <1>1, IInvStep, CommitStep DEF FullInv
<1>3. TreeNow' /\ DepthInv(Expected)' BY TreeNext, DepthNext
<1> QED BY <1>2, <1>3 DEF FullInv
-----------------------------------------------------------------------------
(* What the invariant says of the properties. *)
LEMMA ReadyReads == FullInv => StepsReadFinishedNodes
<1> SUFFICES ASSUME FullInv, NEW t \in TaskIds, Ready(t), Unfinished(Original(ctxs[t])) PROVE FALSE
  BY Exclusive DEF StepsReadFinishedNodes, FullInv
<1>1. Open(ctxs, Original(ctxs[t])) BY DEF Unfinished, Open
<1>2. CASE \E i \in 1..num_pipes : AtPipe(i, t) BY <1>1, <1>2, PipeReady DEF Ready
<1>3. CASE \E w \in Workers : worker[w].pc = "step" /\ worker[w].task = t /\ DependencyPassed(w)
  BY <1>1, <1>3, WorkerReady
<1> QED BY <1>2, <1>3 DEF Ready

\* The nodes of the versions up to v, once all of these are done.
LEMMA DoneVersion ==
  ASSUME FullInv, NEW v \in 0..passed[0], \A u \in 0..v : ctxs[u].st = "ST_DONE"
  PROVE  /\ Finished(heap, Dom(heap, v), Expected)
         /\ Holds(Dom(heap, v), Expected, ctxs[v].root, Expected[v], Present(Expected[v]))
         /\ \A x \in Dom(heap, v) : Expected[Ver(x)] \in Counts
         /\ Expected[v] \in Counts
<1>1. /\ num_committed \in Nat /\ passed[0] \in Nat /\ passed[0] <= NumTasks /\ v \in Nat /\ v \in Int
      /\ TreeInv(Expected, num_committed, heap, ctxs, passed[0])
      /\ \A u \in 0..NumTasks : Expected[u] \in Counts
      /\ \A u \in 0..passed[0] : Expected[u] \in Counts
      /\ \A u \in 0..num_committed : ctxs[u].st = "ST_DONE" /\ NumTasks \in Nat
  BY StateFacts, Constants
<1>2. PICK n \in Nat : n >= num_committed /\ n >= v /\ (n = num_committed \/ n = v)
  <2>1. CASE num_committed >= v BY <1>1, <2>1
  <2>2. CASE ~(num_committed >= v) BY <1>1, <2>2
  <2> QED BY <2>1, <2>2
<1>3. TreeInv(Expected, n, heap, ctxs, passed[0]) BY <1>1, <1>2, TreeCommit
<1>4. \A u \in TaskIds : u <= n => ctxs[u].st # "ST_RUNNING" BY <1>1, <1>2 DEF TaskIds
<1>5. Finished(heap, Com(heap, n, v), Expected) BY <1>1, <1>3, <1>4, ComFinished
<1>6. DOMAIN heap \subseteq (0..passed[0]) \X Keys BY <1>1 DEF TreeInv, NodesInv
<1>7. \A x \in DOMAIN heap : Ver(x) \in 0..passed[0] BY <1>6 DEF Ver
<1>8. Com(heap, n, v) = Dom(heap, v) BY <1>1, <1>2, <1>7 DEF Com, Dom
<1>9. \A x \in Dom(heap, v) : Expected[Ver(x)] \in Counts BY <1>1, <1>7 DEF Dom
<1>10. Holds(Dom(heap, v), Expected, ctxs[v].root, Expected[v], Present(Expected[v])) BY <1>1 DEF TreeInv, RootsInv
<1> QED BY <1>1, <1>5, <1>8, <1>9, <1>10

\* A version whose task is done, with all before it, is a treap of what it is to hold.
LEMMA DoneContents ==
  ASSUME FullInv, NEW v \in 0..passed[0], \A u \in 0..v : ctxs[u].st = "ST_DONE"
  PROVE  Contents(heap, ctxs[v].root) = Expected[v] /\ IsTreap(heap, ctxs[v].root)
BY DoneVersion, HeldContents, HeldTreap

\* The nodes of committed versions are closed.
LEMMA CommittedNodes == FullInv => CommittedClosed
<1> SUFFICES ASSUME FullInv, NEW t \in DOMAIN heap, Ver(t) <= num_committed, NEW x \in Nodes(heap, t)
             PROVE  Ver(x) <= Ver(t) /\ ~Unfinished(x)
  BY DEF CommittedClosed
<1>1. DOMAIN heap \subseteq Nat \X Keys BY StateFacts DEF TreeInv, NodesInv
<1>2. PICK v \in Nat : v = Ver(t) BY <1>1, HeapFacts
<1> DEFINE W == Com(heap, num_committed, v)
<1>3. Finished(heap, W, Expected) BY <1>2, StateFacts
<1>4. W \subseteq DOMAIN heap /\ t \in W BY <1>2 DEF Com
<1>5. \A y \in W : heap[y].lch \in W \cup {nullptr} /\ heap[y].rch \in W \cup {nullptr}
  <2> HIDE DEF W
  <2>1. \A y \in W : NodeIs(W, Expected, y, heap[y]) BY <1>3 DEF Finished
  <2> QED BY <2>1 DEF NodeIs, Holds
<1>6. HeapOrdered(heap) BY <1>3 DEF Finished
<1>7. x \in W
  <2> HIDE DEF W
  <2>1. Nodes(heap, t) \subseteq W BY <1>4, <1>5, <1>6, NodesWithin
  <2> QED BY <2>1
<1>8. Ver(x) <= v /\ Ver(x) <= num_committed /\ x \in DOMAIN heap BY <1>7 DEF Com
<1>9. ~Open(ctxs, x) BY <1>8, StateFacts
<1> QED BY <1>2, <1>8, <1>9 DEF Unfinished, Open

\* The full invariant says what committed versions hold.
LEMMA CommittedAre == FullInv => CommittedTreaps
<1> SUFFICES ASSUME FullInv PROVE CommittedTreaps OBVIOUS
<1>1. StagesBelowDone BY StagesBelow DEF FullInv
<1>2. CommittedDone BY CommitImplies DEF FullInv
<1>3. num_committed \in Nat /\ passed[0] \in Nat /\ num_committed <= passed[0]
      /\ \A u \in 0..num_committed : ctxs[u].st = "ST_DONE"
  BY StateFacts
<1>4. ASSUME NEW v \in 0..num_committed PROVE IsTreap(heap, ctxs[v].root)
  <2>1. v \in 0..passed[0] /\ \A u \in 0..v : ctxs[u].st = "ST_DONE" BY <1>3
  <2> QED BY <2>1, DoneContents
<1> QED BY <1>1, <1>2, <1>4, CommittedNodes DEF CommittedTreaps

\* A step never copies a node whose children are still to be set: the pipes wait for
\* the token of the task before, the workers for its stage (execute_one_step_ reads
\* t_past->lch and rch without a lock).
THEOREM StepsReadFinished == Spec => []StepsReadFinishedNodes
BY FullInit, FullStep, ReadyReads, PTL DEF Spec

\* Every committed version is issued and done, a treap in key and priority order, and
\* reaches only finished nodes no newer than itself, whatever the interleaving of the
\* master, the pipes, the workers and the collector.
THEOREM CommittedAreTreaps == Spec => []CommittedTreaps
BY FullInit, FullStep, CommittedAre, PTL DEF Spec

\* A stage counter never reaches STAGE_DONE while its task runs, since a stage is
\* a level of the tree and a treap is no deeper than it has keys.
THEOREM StagesBelowMark == Spec => []StagesBelowDone
<1>1. FullInv => StagesBelowDone BY StagesBelow DEF FullInv
<1> QED BY <1>1, FullInit, FullStep, PTL DEF Spec

\* A version is committed only when its task has been issued and is done.
THEOREM CommitsDone == Spec => []CommittedDone
<1>1. FullInv => CommittedDone BY CommitImplies DEF FullInv
<1> QED BY <1>1, FullInit, FullStep, PTL DEF Spec
-----------------------------------------------------------------------------
(* The scheduler implements the versioned map. *)
log == SubSeq(txs, 1, passed[0])
versions == [v \in 1..num_committed+1 |-> Contents(heap, ctxs[v-1].root)]

\* The prefixes of the transactions.
LEMMA LogIs ==
  ASSUME txs \in Workloads, NEW p \in 0..NumTasks
  PROVE  /\ Len(SubSeq(txs, 1, p)) = p /\ \A i \in 1..p : SubSeq(txs, 1, p)[i] = txs[i]
         /\ p < NumTasks => SubSeq(txs, 1, p + 1) = Append(SubSeq(txs, 1, p), txs[p + 1])
         /\ SubSeq(txs, 1, 0) = <<>>
         /\ \A v \in 0..p : M!Replay(SubSeq(txs, 1, p), v) = Expected[v]
<1>1. txs \in [1..NumTasks -> Tasks] /\ NumTasks \in Nat BY WorkloadsAssumption, NumTasksAssumption
<1>2. txs \in Seq(Tasks) /\ Len(txs) = NumTasks BY <1>1
<1>3. p \in Nat /\ p <= NumTasks BY <1>1
<1>4. PICK l : l = SubSeq(txs, 1, p) OBVIOUS
<1>5. l \in Seq(Tasks) /\ Len(l) = p /\ \A i \in 1..p : l[i] = txs[i] BY <1>2, <1>3, <1>4
<1>6. p < NumTasks => SubSeq(txs, 1, p + 1) = Append(l, txs[p + 1])
  <2> SUFFICES ASSUME p < NumTasks PROVE SubSeq(txs, 1, p + 1) = Append(l, txs[p + 1]) OBVIOUS
  <2>1. PICK m : m = SubSeq(txs, 1, p + 1) OBVIOUS
  <2>2. m \in Seq(Tasks) /\ Len(m) = p + 1 /\ \A i \in 1..p+1 : m[i] = txs[i] BY <1>2, <1>3, <2>1
  <2>3. PICK k : k = Append(l, txs[p + 1]) OBVIOUS
  <2>4. txs[p + 1] \in Tasks BY <1>1, <1>3
  <2>5. k \in Seq(Tasks) /\ Len(k) = p + 1 /\ \A i \in 1..p+1 : k[i] = IF i <= p THEN l[i] ELSE txs[p + 1]
    BY <1>5, <1>3, <2>3, <2>4
  <2>6. \A i \in 1..p+1 : m[i] = k[i] BY <1>3, <1>5, <2>2, <2>5
  <2>7. m = k BY <2>2, <2>5, <2>6
  <2> QED BY <2>1, <2>3, <2>7
<1>7. SubSeq(txs, 1, 0) = <<>> BY <1>2
<1>8. /\ M!Replay(l, 0) = Contents0
      /\ \A n \in 1..p : M!Replay(l, n) = M!Apply(M!Replay(l, n-1), l[n])
  BY <1>3, <1>5, ReplayReturns
<1>9. /\ M!Replay(txs, 0) = Contents0
      /\ \A n \in 1..NumTasks : M!Replay(txs, n) = M!Apply(M!Replay(txs, n-1), txs[n])
  BY <1>1, <1>2, ReplayReturns
<1>10. \A v \in Nat : v \in {u \in Nat : u <= p => M!Replay(l, u) = M!Replay(txs, u)}
  <2> DEFINE T == {u \in Nat : u <= p => M!Replay(l, u) = M!Replay(txs, u)}
  <2>1. 0 \in T BY <1>8, <1>9
  <2>2. ASSUME NEW u \in Nat, u \in T PROVE u + 1 \in T
    <3> SUFFICES ASSUME u + 1 <= p PROVE M!Replay(l, u + 1) = M!Replay(txs, u + 1) OBVIOUS
    <3>1. u + 1 \in 1..p /\ u + 1 \in 1..NumTasks /\ u + 1 - 1 = u /\ u <= p BY <1>1, <1>3
    <3>2. M!Replay(l, u) = M!Replay(txs, u) /\ l[u + 1] = txs[u + 1] BY <1>5, <2>2, <3>1
    <3> QED BY <1>8, <1>9, <3>1, <3>2
  <2> HIDE DEF T
  <2>3. \A v \in Nat : v \in T BY <2>1, <2>2, SetInduction
  <2> QED BY <2>3 DEF T
<1>11. \A v \in 0..p : M!Replay(l, v) = Expected[v]
  <2> SUFFICES ASSUME NEW v \in 0..p PROVE M!Replay(l, v) = Expected[v] OBVIOUS
  <2>1. v \in Nat /\ v <= p /\ v \in 0..NumTasks BY <1>1, <1>3
  <2>2. M!Replay(l, v) = M!Replay(txs, v) BY <1>10, <2>1
  <2>3. Expected[v] = M!Replay(txs, v) BY <2>1 DEF Expected
  <2> QED BY <2>2, <2>3
<1> QED BY <1>4, <1>5, <1>6, <1>7, <1>11

\* What the committed versions hold.
LEMMA VersionsAre ==
  FullInv => versions = [v \in 1..num_committed+1 |-> Expected[v-1]]
<1> SUFFICES ASSUME FullInv PROVE versions = [v \in 1..num_committed+1 |-> Expected[v-1]] OBVIOUS
<1>1. num_committed \in Nat /\ passed[0] \in Nat /\ num_committed <= passed[0]
      /\ \A u \in 0..num_committed : ctxs[u].st = "ST_DONE"
  BY StateFacts
<1>2. ASSUME NEW v \in 1..num_committed+1 PROVE Contents(heap, ctxs[v-1].root) = Expected[v-1]
  <2>1. PICK w : w = v - 1 OBVIOUS
  <2>2. w \in 0..passed[0] /\ \A u \in 0..w : ctxs[u].st = "ST_DONE" BY <1>1, <2>1
  <2> QED BY <2>1, <2>2, DoneContents
<1> QED BY <1>2 DEF versions

\* Which step issues a transaction, and which one commits.
LEMMA Progress ==
  ASSUME FullInv, [Next]_vars
  PROVE  /\ txs' = txs /\ txs \in Workloads
         /\ \/ passed'[0] = passed[0] /\ num_committed' = num_committed
            \/ passed'[0] = passed[0] + 1 /\ passed[0] < NumTasks /\ num_committed' = num_committed
            \/ passed'[0] = passed[0] /\ num_committed' > num_committed
<1>1. num_committed \in Nat /\ passed[0] \in Nat /\ txs \in Workloads BY StateFacts DEF FullInv, TreeNow
<1>2. Types /\ 0 \in 0..num_pipes BY Constants DEF FullInv, IInv
<1>3. CASE Master
  <2>1. passed[0] < NumTasks /\ passed' = [passed EXCEPT ![0] = @ + 1] BY <1>3 DEF Master, Conveyor!Push
  <2>2. passed'[0] = passed[0] + 1 BY <1>2, <2>1 DEF Types
  <2> QED BY <1>1, <1>3, <2>1, <2>2 DEF Master
<1>4. ASSUME NEW i \in 1..num_pipes, PipeStep(i) PROVE passed'[0] = passed[0] /\ num_committed' = num_committed /\ txs' = txs
  <2>1. i # 0 /\ passed' = [passed EXCEPT ![i] = @ + 1] BY <1>4, Constants DEF PipeStep, Conveyor!Pass
  <2>2. passed'[0] = passed[0] BY <1>2, <2>1 DEF Types
  <2> QED BY <1>4, <2>2 DEF PipeStep
<1>5. CASE Boarder BY <1>1, <1>5 DEF Boarder, Conveyor!Board
<1>6. ASSUME NEW w \in Workers, Worker(w) PROVE passed'[0] = passed[0] /\ num_committed' = num_committed /\ txs' = txs
  BY <1>6 DEF Worker, Fetch, Load, Step, Estimate, PublishBlock
<1>7. CASE Collector
  <2>1. num_committed' > num_committed BY <1>1, <1>7, Constants DEF Collector
  <2> QED BY <1>1, <1>7, <2>1 DEF Collector
<1>8. CASE UNCHANGED vars \/ Stopped BY <1>1, <1>8 DEF Stopped, vars
<1> QED BY <1>1, <1>3, <1>4, <1>5, <1>6, <1>7, <1>8 DEF Next

\* The initial version is the initial map.
LEMMA MapInit == Init => M!Init
<1> SUFFICES ASSUME Init PROVE M!Init OBVIOUS
<1>1. FullInv /\ passed[0] = 0 /\ num_committed = 0 /\ txs \in Workloads
  BY FullInit, Constants DEF Init, Conveyor!Init, Conveyor!Stations
<1>2. log = <<>> BY <1>1, LogIs, Constants DEF log
<1>3. versions = <<Contents0>>
  <2>1. versions = [v \in 1..1 |-> Expected[v-1]] BY <1>1, VersionsAre
  <2>2. Expected[0] = Contents0 BY <1>1, ExpectedIs
  <2>3. versions = [v \in 1..1 |-> Contents0] BY <2>1, <2>2
  <2> QED BY <2>3
<1> QED BY <1>2, <1>3 DEF M!Init, log, versions

\* A step of the scheduler is a step of the versioned map or changes nothing of it.
LEMMA MapStep == FullInv /\ [Next]_vars => [M!Next]_(M!vars)
<1> SUFFICES ASSUME FullInv, [Next]_vars PROVE [M!Next]_(M!vars) OBVIOUS
<1>1. FullInv' /\ Expected' = Expected BY FullStep, Progress, ExpectedStays
<1>2. PICK E : E = Expected OBVIOUS
<1>3. versions = [v \in 1..num_committed+1 |-> E[v-1]] BY <1>2, VersionsAre
<1>4. versions' = [v \in 1..num_committed'+1 |-> E[v-1]]
  <2>1. (FullInv => versions = [v \in 1..num_committed+1 |-> Expected[v-1]])' BY VersionsAre, PTL
  <2> QED BY <1>1, <1>2, <2>1
<1>5. /\ num_committed \in Nat /\ passed[0] \in Nat /\ passed[0] <= NumTasks /\ num_committed <= passed[0]
      /\ passed[0] \in 0..NumTasks
  BY StateFacts, Constants
<1>6. num_committed' \in Nat /\ num_committed' <= passed'[0]
  <2>1. (FullInv => num_committed \in Nat /\ num_committed <= passed[0])' BY StateFacts, PTL
  <2> QED BY <1>1, <2>1
<1>7. /\ txs' = txs /\ txs \in Workloads
      /\ \/ passed'[0] = passed[0] /\ num_committed' = num_committed
         \/ passed'[0] = passed[0] + 1 /\ passed[0] < NumTasks /\ num_committed' = num_committed
         \/ passed'[0] = passed[0] /\ num_committed' > num_committed
  BY Progress
<1>8. CASE passed'[0] = passed[0] /\ num_committed' = num_committed
  <2>1. log' = log /\ versions' = versions BY <1>3, <1>4, <1>7, <1>8 DEF log
  <2> QED BY <2>1 DEF M!vars, log, versions
<1>9. CASE passed'[0] = passed[0] + 1 /\ passed[0] < NumTasks /\ num_committed' = num_committed
  <2>1. versions' = versions BY <1>3, <1>4, <1>9
  <2>2. log' = Append(log, txs[passed[0] + 1]) /\ Len(log) = passed[0] BY <1>5, <1>7, <1>9, LogIs DEF log
  <2>3. txs[passed[0] + 1] \in M!Tasks
    <3>1. passed[0] + 1 \in TaskIds BY <1>5, <1>9, Constants DEF TaskIds
    <3>2. txs[passed[0] + 1] \in Tasks BY <1>7, <3>1, TasksAre
    <3> QED BY <3>2 DEF Tasks, M!Tasks
  <2>4. M!Issue BY <1>9, <2>1, <2>2, <2>3 DEF M!Issue, log, versions
  <2> QED BY <2>4 DEF M!Next
<1>10. CASE passed'[0] = passed[0] /\ num_committed' > num_committed
  <2>1. log' = log /\ Len(log) = passed[0] BY <1>5, <1>7, <1>10, LogIs DEF log
  <2>2. PICK n : n = num_committed' OBVIOUS
  <2>3. PICK m : m = num_committed + 1 OBVIOUS
  <2>4. n \in Nat /\ m \in Nat /\ m <= n /\ n <= passed[0] /\ n \in 1..Len(log) BY <1>5, <1>6, <1>10, <2>1, <2>2, <2>3
  <2>5. PICK S, T : S = versions /\ T = [i \in 1..n+1-m |-> M!Replay(log, m + i - 1)] OBVIOUS
  <2>6. S = [v \in 1..m |-> E[v-1]] /\ versions' = [v \in 1..n+1 |-> E[v-1]] BY <1>3, <1>4, <2>2, <2>3, <2>5
  <2>7. T = [i \in 1..n+1-m |-> E[m + i - 1]]
    <3>1. ASSUME NEW i \in 1..n+1-m PROVE M!Replay(log, m + i - 1) = E[m + i - 1]
      <4>1. m + i - 1 \in 0..passed[0] BY <1>5, <2>4
      <4> QED BY <1>2, <1>5, <1>7, <4>1, LogIs DEF log
    <3> QED BY <2>5, <3>1
  <2>8. Len(S) = m /\ versions' = S \o T BY <2>4, <2>6, <2>7
  <2>9. M!Commit(n) BY <2>1, <2>4, <2>5, <2>8 DEF M!Commit, log, versions
  <2> QED BY <2>4, <2>9 DEF M!Next, log
<1> QED BY <1>7, <1>8, <1>9, <1>10

\* The scheduler implements the versioned map: updates take effect in the order they
\* are issued, versions are committed in that order and never change afterwards.
THEOREM SchedulerRefines == Spec => ImplementsVersionedMap
BY FullInit, FullStep, MapInit, MapStep, PTL DEF Spec, M!Spec, ImplementsVersionedMap
-----------------------------------------------------------------------------
(* The snapshots of one worker.  It works on the tasks in their order, so   *)
(* that every task up to Completed is done, and publishes the block it has  *)
(* come to the end of.                                                      *)
Completed == IF worker[1].pc \in AtTask THEN worker[1].task - 1 ELSE worker[1].task
Full(count) == count * BlockSize
Reached(count, t) == Full(count) <= t \/ NumTasks <= t

BlocksInv ==
  LET pc == worker[1].pc
      t  == worker[1].task
      count == worker[1].count
  IN /\ num_estimated = [w \in Workers |-> worker[w].count]
     /\ num_fetched = t /\ t <= NumTasks + 1
     /\ \A u \in TaskIds : u <= Completed => ctxs[u].st = "ST_DONE"
     /\ Reached(count, Completed)
     /\ pc = "fetch" => t <= NumTasks /\ t < Full(count + 1) /\ (t = NumTasks => Full(count) >= NumTasks)
     /\ pc \in AtTask => t <= Full(count + 1)
     /\ pc = "estimate" =>
          /\ Reached(count + 1, t)
          /\ IF t > NumTasks THEN Full(count) >= NumTasks ELSE t <= Full(count + 1)
     /\ pc = "stop" => Full(count) > NumTasks

\* The blocks are as large as they should be.
LEMMA FullBlocks ==
  ASSUME num_workers = 1, NEW n \in Nat
  PROVE  /\ Full(n) \in Nat /\ Full(n + 1) = Full(n) + BlockSize /\ Full(n + 1) \in Nat
         /\ block_start(1, n) = Full(n) + 1
         /\ block_end(1, n) = IF Full(n + 1) <= NumTasks THEN Full(n + 1) ELSE NumTasks
         /\ \A t \in Int : t >= block_end(1, n) <=> Reached(n + 1, t)
<1>1. BlockSize \in Nat /\ NumTasks \in Nat BY BlockSizeAssumption, NumTasksAssumption
<1>2. Full(n) \in Nat /\ Full(n + 1) = Full(n) + BlockSize BY <1>1 DEF Full
<1>3. block_start(1, n) = Full(n) + 1
  <2>1. 1 - 1 + n * num_workers = n OBVIOUS
  <2> QED BY <2>1 DEF block_start, Full
<1>4. block_end(1, n) = Min({Full(n + 1), NumTasks})
  <2>1. Full(n) + 1 + BlockSize - 1 = Full(n + 1) BY <1>1, <1>2
  <2> QED BY <1>3, <2>1 DEF block_end
<1>5. ASSUME NEW a \in Nat, NEW b \in Nat PROVE Min({a, b}) = IF a <= b THEN a ELSE b BY DEF Min
<1>6. block_end(1, n) = IF Full(n + 1) <= NumTasks THEN Full(n + 1) ELSE NumTasks BY <1>1, <1>2, <1>4, <1>5
<1> QED BY <1>1, <1>2, <1>3, <1>6 DEF Reached

\* A version lies in the blocks before the one that begins behind it.
LEMMA InBlocks ==
  ASSUME NEW v \in Nat, NEW n \in Nat
  PROVE  n > v \div BlockSize <=> v < Full(n)
<1>1. BlockSize \in Nat /\ BlockSize > 0 BY BlockSizeAssumption
<1> DEFINE q == v \div BlockSize
<1>2. q \in Nat /\ q * BlockSize <= v /\ v < q * BlockSize + BlockSize BY <1>1, Z3
<1> HIDE DEF q
<1>3. CASE n > q
  <2>1. PICK m \in Nat : n = q + 1 + m
    <3>1. n - (q + 1) \in Nat BY <1>2, <1>3
    <3> QED BY <1>2, <3>1
  <2>2. n * BlockSize = q * BlockSize + BlockSize + m * BlockSize BY <1>1, <1>2, <2>1
  <2>3. m * BlockSize \in Nat /\ q * BlockSize \in Nat BY <1>1, <1>2
  <2> QED BY <1>1, <1>2, <1>3, <2>2, <2>3 DEF Full
<1>4. CASE ~(n > q)
  <2>1. PICK m \in Nat : q = n + m
    <3>1. q - n \in Nat BY <1>2, <1>4
    <3> QED BY <1>2, <3>1
  <2>2. q * BlockSize = n * BlockSize + m * BlockSize BY <1>1, <2>1
  <2>3. m * BlockSize \in Nat /\ n * BlockSize \in Nat BY <1>1
  <2> QED BY <1>1, <1>2, <1>4, <2>2, <2>3 DEF Full
<1> QED BY <1>3, <1>4 DEF q

\* The one worker, and what its steps leave of it.
LEMMA OneWorker ==
  ASSUME num_workers = 1, IInv
  PROVE  /\ Workers = {1} /\ worker[1] \in [pc : WorkerPcs, task : Nat, stage : Nat, count : Nat, est : Int]
         /\ NumTasks \in Nat /\ TaskIds \subseteq Int
         /\ \A r : [worker EXCEPT ![1] = r][1] = r
BY Constants DEF IInv, Types, Workers, TaskIds

\* A worker that has not started has done nothing.
LEMMA BlocksInit == ASSUME num_workers = 1, Init PROVE BlocksInv
<1>1. Workers = {1} /\ TaskIds \subseteq Int BY Constants DEF Workers, TaskIds
<1>2. worker[1].pc = "fetch" /\ worker[1].task = 0 /\ worker[1].count = 0 /\ num_fetched = 0 BY <1>1 DEF Init
<1>3. num_estimated = [w \in Workers |-> worker[w].count] BY <1>1 DEF Init
<1>4. BlockSize \in Nat \ {0} /\ NumTasks \in Nat BY BlockSizeAssumption, NumTasksAssumption
<1>5. Full(0) = 0 /\ Full(0 + 1) = BlockSize BY <1>4 DEF Full
<1>6. Completed = 0 BY <1>2 DEF Completed, AtTask
<1>7. \A u \in TaskIds : ~(u <= 0) BY <1>1 DEF TaskIds
<1> QED BY <1>2, <1>3, <1>4, <1>5, <1>6, <1>7 DEF BlocksInv, Reached, AtTask

\* What is done stays done.
LEMMA StaysDone ==
  ASSUME IInv, KeepsDone, NEW t, \A u \in TaskIds : u <= t => ctxs[u].st = "ST_DONE"
  PROVE  \A u \in TaskIds : u <= t => ctxs'[u].st = "ST_DONE"
<1>1. TaskIds \subseteq 0..NumTasks BY Constants DEF TaskIds
<1> QED BY <1>1 DEF KeepsDone

\* The worker has completed task t, or has learnt that there is no task t.
BlockDone(t) ==
  LET count == worker[1].count
  IN /\ t \in Nat /\ t <= NumTasks + 1 /\ num_fetched' = t /\ num_estimated' = num_estimated
     /\ worker' = [worker EXCEPT ![1] = AfterUpdate(1, t)]
     /\ \A u \in TaskIds : u <= t => ctxs'[u].st = "ST_DONE"
     /\ Reached(count, t)
     /\ IF t > NumTasks THEN Full(count) >= NumTasks ELSE t <= Full(count + 1)

\* AfterUpdate turns to the block when its end is reached, else to the next task.
LEMMA AfterBlocks == ASSUME num_workers = 1, IInv, BlocksInv, NEW t, BlockDone(t) PROVE BlocksInv'
<1>1. /\ Workers = {1} /\ worker[1] \in [pc : WorkerPcs, task : Nat, stage : Nat, count : Nat, est : Int]
      /\ NumTasks \in Nat /\ \A r : [worker EXCEPT ![1] = r][1] = r
  BY OneWorker
<1> DEFINE count == worker[1].count
<1>10. count \in Nat /\ t \in Nat /\ t \in Int BY <1>1 DEF BlockDone
<1>11. Full(count) \in Nat /\ Full(count + 1) \in Nat /\ (t >= block_end(1, count) <=> Reached(count + 1, t))
  <2> HIDE DEF count
  <2>1. \A u \in Int : u >= block_end(1, count) <=> Reached(count + 1, u) BY <1>10, FullBlocks
  <2>2. Full(count) \in Nat /\ Full(count + 1) \in Nat BY <1>10, FullBlocks
  <2> QED BY <1>10, <2>1, <2>2
<1>2. /\ t \in Nat /\ t <= NumTasks + 1 /\ num_fetched' = t /\ num_estimated' = num_estimated
      /\ \A u \in TaskIds : u <= t => ctxs'[u].st = "ST_DONE"
      /\ Reached(count, t)
      /\ IF t > NumTasks THEN Full(count) >= NumTasks ELSE t <= Full(count + 1)
      /\ worker'[1] = AfterUpdate(1, t)
  BY <1>1 DEF BlockDone
<1>3. PICK p : p = IF BlockReached(1, t) THEN "estimate" ELSE "fetch" OBVIOUS
<1>4. worker'[1].pc = p /\ worker'[1].task = t /\ worker'[1].count = count /\ (p = "estimate" <=> Reached(count + 1, t))
  BY <1>1, <1>2, <1>3, <1>11 DEF AfterUpdate, BlockReached
<1>5. Completed' = t BY <1>3, <1>4 DEF Completed, AtTask
<1>6. num_estimated' = [w \in Workers |-> worker'[w].count] BY <1>1, <1>2, <1>4 DEF BlocksInv
<1>7. p = "fetch" => ~Reached(count + 1, t) BY <1>4
<1>8. p = "fetch" => t <= NumTasks /\ t < Full(count + 1) /\ t # NumTasks BY <1>1, <1>2, <1>7, <1>11 DEF Reached
<1> HIDE DEF count
<1>9. p \in {"estimate", "fetch"} BY <1>3
<1> QED BY <1>2, <1>4, <1>5, <1>6, <1>8, <1>9, <1>11 DEF BlocksInv, AtTask, Reached

\* The worker does not move on.
LEMMA RestBlocks ==
  ASSUME num_workers = 1, IInv, BlocksInv, KeepsDone, num_estimated' = num_estimated, num_fetched' = num_fetched,
         worker'[1].task = worker[1].task, worker'[1].count = worker[1].count,
         worker'[1].pc = worker[1].pc \/ (worker[1].pc \in AtTask /\ worker'[1].pc \in AtTask)
  PROVE  BlocksInv'
<1>1. Workers = {1} BY OneWorker
<1>2. Completed' = Completed BY DEF Completed
<1>3. \A u \in TaskIds : u <= Completed => ctxs'[u].st = "ST_DONE" BY StaysDone DEF BlocksInv
<1>4. num_estimated' = [w \in Workers |-> worker'[w].count] BY <1>1 DEF BlocksInv
<1>5. worker'[1].pc \in AtTask <=> worker[1].pc \in AtTask OBVIOUS
<1>6. worker'[1].pc \notin AtTask => worker'[1].pc = worker[1].pc OBVIOUS
<1>7. \A p \in {"fetch", "estimate", "stop"} : p \notin AtTask BY DEF AtTask
<1> QED BY <1>2, <1>3, <1>4, <1>5, <1>6, <1>7 DEF BlocksInv, Reached

\* Fetching: the next task is the one after those that are done.
LEMMA BlocksFetch == ASSUME num_workers = 1, IInv, BlocksInv, KeepsDone, Fetch(1) PROVE BlocksInv'
<1>1. /\ Workers = {1} /\ worker[1] \in [pc : WorkerPcs, task : Nat, stage : Nat, count : Nat, est : Int]
      /\ NumTasks \in Nat /\ TaskIds \subseteq Int /\ \A r : [worker EXCEPT ![1] = r][1] = r
  BY OneWorker
<1> DEFINE u == worker[1].task  t == num_fetched + 1  count == worker[1].count
<1>2. /\ worker[1].pc = "fetch" /\ num_fetched' = t /\ num_estimated' = num_estimated /\ UNCHANGED ctxs
      /\ t > NumTasks => worker' = [worker EXCEPT ![1] = AfterUpdate(1, t)]
      /\ ~(t > NumTasks) => worker'[1] = [worker[1] EXCEPT !.pc = "load", !.task = t, !.stage = 1]
  BY <1>1 DEF Fetch, treeVars
<1>3. Completed = u BY <1>2 DEF Completed, AtTask
<1>4. /\ t = u + 1 /\ u \in Nat /\ u <= NumTasks /\ u < Full(count + 1) /\ (u = NumTasks => Full(count) >= NumTasks)
      /\ Reached(count, u) /\ \A x \in TaskIds : x <= u => ctxs[x].st = "ST_DONE"
      /\ num_estimated = [w \in Workers |-> worker[w].count] /\ count \in Nat
  BY <1>1, <1>2, <1>3 DEF BlocksInv
<1>5. Full(count) \in Nat /\ Full(count + 1) \in Nat
  <2> HIDE DEF count
  <2> QED BY <1>4, FullBlocks
<1>6. \A x \in TaskIds : x <= u => ctxs'[x].st = "ST_DONE" BY <1>4, StaysDone
<1>7. CASE t > NumTasks
  <2>1. \A x \in TaskIds : x <= t => x <= u BY <1>1, <1>4, <1>7 DEF TaskIds
  <2>2. Reached(count, t) /\ Full(count) >= NumTasks BY <1>1, <1>4, <1>5, <1>7 DEF Reached
  <2>3. BlockDone(t) BY <1>1, <1>2, <1>4, <1>6, <1>7, <2>1, <2>2 DEF BlockDone
  <2> QED BY <2>3, AfterBlocks
<1>8. CASE ~(t > NumTasks)
  <2>1. /\ worker'[1].pc = "load" /\ worker'[1].task = t /\ worker'[1].count = count
    BY <1>1, <1>2, <1>8
  <2>2. Completed' = u BY <1>4, <2>1 DEF Completed, AtTask
  <2>3. num_estimated' = [w \in Workers |-> worker'[w].count] BY <1>1, <1>2, <1>4, <2>1
  <2>4. t <= NumTasks /\ t <= NumTasks + 1 /\ t <= Full(count + 1) BY <1>1, <1>4, <1>5, <1>8
  <2> HIDE DEF count, u, t
  <2> QED BY <1>2, <1>4, <1>6, <2>1, <2>2, <2>3, <2>4 DEF BlocksInv, AtTask, Reached
<1> QED BY <1>7, <1>8

\* The worker has done its task.
LEMMA TaskBlocks ==
  ASSUME num_workers = 1, IInv, BlocksInv, KeepsDone, worker[1].pc \in AtTask, NEW t, t = worker[1].task,
         ctxs'[t].st = "ST_DONE", worker' = [worker EXCEPT ![1] = AfterUpdate(1, t)],
         UNCHANGED <<num_fetched, num_estimated>>
  PROVE  BlocksInv'
<1>1. /\ Workers = {1} /\ worker[1] \in [pc : WorkerPcs, task : Nat, stage : Nat, count : Nat, est : Int]
      /\ NumTasks \in Nat /\ TaskIds \subseteq Int
  BY OneWorker
<1>2. t \in 1..NumTasks /\ t \in Nat /\ t <= NumTasks BY <1>1 DEF IInv, FetchedInv
<1>3. Completed = t - 1 BY DEF Completed
<1>4. \A x \in TaskIds : x <= t - 1 => ctxs'[x].st = "ST_DONE"
  <2>1. \A x \in TaskIds : x <= Completed => ctxs'[x].st = "ST_DONE" BY StaysDone DEF BlocksInv
  <2> QED BY <1>3, <2>1
<1>5. \A x \in TaskIds : x <= t => ctxs'[x].st = "ST_DONE"
  <2> SUFFICES ASSUME NEW x \in TaskIds, x <= t PROVE ctxs'[x].st = "ST_DONE" OBVIOUS
  <2>1. x = t \/ x <= t - 1 BY <1>1, <1>2
  <2> QED BY <1>4, <2>1
<1> DEFINE count == worker[1].count
<1>6. Full(count) \in Nat
  <2>1. count \in Nat BY <1>1
  <2> HIDE DEF count
  <2> QED BY <2>1, FullBlocks
<1>7. Reached(count, t - 1) /\ t <= Full(count + 1) /\ num_fetched = t BY <1>3 DEF BlocksInv
<1>8. Reached(count, t) BY <1>1, <1>2, <1>6, <1>7 DEF Reached
<1>9. BlockDone(t) BY <1>1, <1>2, <1>5, <1>7, <1>8 DEF BlockDone
<1> QED BY <1>9, AfterBlocks

\* Publishing: the next block begins where the worker stands.
LEMMA BlocksPublish == ASSUME num_workers = 1, IInv, BlocksInv, KeepsDone, PublishBlock(1) PROVE BlocksInv'
<1>1. /\ Workers = {1} /\ worker[1] \in [pc : WorkerPcs, task : Nat, stage : Nat, count : Nat, est : Int]
      /\ NumTasks \in Nat /\ TaskIds \subseteq Int
  BY OneWorker
<1> DEFINE t == worker[1].task  count == worker[1].count  p == IF t <= NumTasks THEN "fetch" ELSE "stop"
<1>2. worker[1].pc = "estimate" /\ UNCHANGED <<ctxs, num_fetched>> BY DEF PublishBlock, treeVars
<1>3. /\ worker'[1].pc = p /\ worker'[1].task = t /\ worker'[1].count = count + 1
      /\ num_estimated' = [num_estimated EXCEPT ![1] = count + 1]
  <2>1. worker \in [Workers -> [pc : WorkerPcs, task : Nat, stage : Nat, count : Nat, est : Int]] BY DEF IInv, Types
  <2>2. worker' = [worker EXCEPT ![1].count = count + 1, ![1].est = 0, ![1].pc = p] BY DEF PublishBlock, MoreTasks
  <2> HIDE DEF p, count
  <2>3. worker'[1].pc = p /\ worker'[1].count = count + 1 /\ worker'[1].task = worker[1].task BY <1>1, <2>1, <2>2
  <2> QED BY <2>3 DEF PublishBlock, count
<1>4. Completed = t BY <1>2 DEF Completed, AtTask
<1>5. p \in {"fetch", "stop"} /\ (p = "fetch" <=> t <= NumTasks) OBVIOUS
<1>6. Completed' = t BY <1>3, <1>5 DEF Completed, AtTask
<1>7. /\ num_fetched = t /\ t <= NumTasks + 1 /\ Reached(count + 1, t)
      /\ IF t > NumTasks THEN Full(count) >= NumTasks ELSE t <= Full(count + 1)
      /\ \A u \in TaskIds : u <= t => ctxs[u].st = "ST_DONE"
      /\ num_estimated = [w \in Workers |-> worker[w].count] /\ count \in Nat /\ t \in Nat
  BY <1>1, <1>2, <1>4 DEF BlocksInv
<1>8. num_estimated' = [w \in Workers |-> worker'[w].count] BY <1>1, <1>3, <1>7
<1>9. PICK n \in Nat : n = count + 1 BY <1>7
<1>10. /\ Full(count) \in Nat /\ Full(n) \in Nat /\ Full(n + 1) \in Nat
       /\ Full(n) = Full(count) + BlockSize /\ Full(n + 1) = Full(n) + BlockSize /\ BlockSize \in Nat \ {0}
  <2> HIDE DEF count
  <2> QED BY <1>7, <1>9, FullBlocks, BlockSizeAssumption
<1>11. t <= NumTasks => t < Full(n + 1) /\ (t = NumTasks => Full(n) >= NumTasks) BY <1>1, <1>7, <1>9, <1>10
<1>12. ~(t <= NumTasks) => Full(n) > NumTasks BY <1>1, <1>7, <1>9, <1>10
<1>13. \A u \in TaskIds : u <= t => ctxs'[u].st = "ST_DONE" BY <1>2, <1>7
<1> HIDE DEF t, count, p
<1> QED BY <1>2, <1>3, <1>5, <1>6, <1>7, <1>8, <1>9, <1>11, <1>12, <1>13 DEF BlocksInv, AtTask, Reached

\* Every step keeps the blocks of the one worker.
LEMMA BlocksStep == ASSUME num_workers = 1, FullInv, BlocksInv, [Next]_vars PROVE BlocksInv'
<1>1. IInv /\ KeepsDone BY DoneKept DEF FullInv
<1>2. /\ Workers = {1} /\ worker \in [Workers -> [pc : WorkerPcs, task : Nat, stage : Nat, count : Nat, est : Int]]
  BY <1>1, OneWorker DEF IInv, Types
<1>3. ASSUME UNCHANGED <<worker, num_fetched, num_estimated>> PROVE BlocksInv' BY <1>1, <1>3, RestBlocks
<1>4. CASE Master BY <1>3, <1>4 DEF Master
<1>5. ASSUME NEW i \in 1..num_pipes, PipeStep(i) PROVE BlocksInv' BY <1>3, <1>5 DEF PipeStep
<1>6. CASE Boarder BY <1>3, <1>6 DEF Boarder
<1>7. CASE Fetch(1) BY <1>1, <1>7, BlocksFetch
<1>8. CASE Load(1)
  <2> DEFINE t == worker[1].task
  <2>1. worker[1].pc \in AtTask /\ UNCHANGED <<num_fetched, num_estimated>> BY <1>8 DEF Load, AtTask
  <2>2. CASE ctxs'[t].st = "ST_DONE" /\ worker' = [worker EXCEPT ![1] = AfterUpdate(1, t)]
    BY <1>1, <2>1, <2>2, TaskBlocks
  <2>3. CASE worker' = [worker EXCEPT ![1].pc = "step"]
    <3>1. worker'[1].pc = "step" /\ worker'[1].task = worker[1].task /\ worker'[1].count = worker[1].count BY <1>2, <2>3
    <3>2. worker'[1].pc \in AtTask BY <3>1 DEF AtTask
    <3> QED BY <1>1, <2>1, <3>1, <3>2, RestBlocks
  <2> QED BY <1>2, <1>8, <2>2, <2>3, LoadTree
<1>9. CASE Step(1)
  <2> DEFINE t == worker[1].task
  <2>1. worker[1].pc \in AtTask /\ UNCHANGED <<num_fetched, num_estimated>> BY <1>9 DEF Step, AtTask
  <2>2. CASE ctxs'[t].st = "ST_DONE"
    <3>1. worker' = [worker EXCEPT ![1] = AfterUpdate(1, t)] BY <1>9, <2>2 DEF Step
    <3> QED BY <1>1, <2>1, <2>2, <3>1, TaskBlocks
  <2>3. CASE ctxs'[t].st # "ST_DONE"
    <3>1. worker' = [worker EXCEPT ![1] = [worker[1] EXCEPT !.pc = "load", !.stage = worker[1].stage + 1]]
      BY <1>9, <2>3 DEF Step
    <3>2. worker'[1].pc = "load" /\ worker'[1].task = worker[1].task /\ worker'[1].count = worker[1].count BY <1>2, <3>1
    <3>3. worker'[1].pc \in AtTask BY <3>2 DEF AtTask
    <3> QED BY <1>1, <2>1, <3>2, <3>3, RestBlocks
  <2> QED BY <2>2, <2>3
<1>10. CASE Estimate(1)
  <2>1. worker' = [worker EXCEPT ![1].est = worker[1].est - 1] /\ UNCHANGED <<num_fetched, num_estimated>>
    BY <1>10 DEF Estimate
  <2>2. worker'[1].pc = worker[1].pc /\ worker'[1].task = worker[1].task /\ worker'[1].count = worker[1].count
    BY <1>2, <2>1
  <2> QED BY <1>1, <2>1, <2>2, RestBlocks
<1>11. CASE PublishBlock(1) BY <1>1, <1>11, BlocksPublish
<1>12. CASE Collector BY <1>3, <1>12 DEF Collector
<1>13. CASE UNCHANGED vars \/ Stopped BY <1>3, <1>13 DEF Stopped, vars
<1>14. ASSUME NEW w \in Workers, Worker(w) PROVE BlocksInv'
  <2>1. Worker(1) BY <1>2, <1>14
  <2> QED BY <1>7, <1>8, <1>9, <1>10, <1>11, <2>1 DEF Worker
<1> QED BY <1>4, <1>5, <1>6, <1>12, <1>13, <1>14 DEF Next
-----------------------------------------------------------------------------
\* A version that get_snapshot hands out is done, with all before it.
LEMMA ReadyDone ==
  ASSUME num_workers = 1, FullInv, BlocksInv, NEW v \in 0..NumTasks, SnapshotReady(v)
  PROVE  v \in 0..passed[0] /\ v <= Completed /\ v < Full(worker[1].count) /\ \A u \in 0..v : ctxs[u].st = "ST_DONE"
<1>1. /\ Workers = {1} /\ worker[1] \in [pc : WorkerPcs, task : Nat, stage : Nat, count : Nat, est : Int]
      /\ NumTasks \in Nat /\ TaskIds \subseteq Int /\ v \in Nat /\ v <= NumTasks
  BY OneWorker DEF FullInv
<1>2. BlockSize \in Nat \ {0} /\ v \div BlockSize \in Int BY <1>1, BlockSizeAssumption
<1> DEFINE q == v \div BlockSize  count == worker[1].count
<1>3. v <= passed[0] /\ num_estimated[(q % num_workers) + 1] > q \div num_workers BY DEF SnapshotReady
<1> HIDE DEF q
<1>4. (q % 1) + 1 = 1 /\ q \div 1 = q BY <1>2 DEF q
<1>5. count > q BY <1>1, <1>3, <1>4 DEF BlocksInv
<1>6. count \in Nat BY <1>1
<1>7. v < Full(count) /\ Full(count) \in Nat
  <2> HIDE DEF count
  <2> QED BY <1>1, <1>5, <1>6, InBlocks, FullBlocks DEF q
<1>8. Completed \in Int BY <1>1 DEF Completed
<1>9. v <= Completed BY <1>1, <1>7, <1>8 DEF BlocksInv, Reached
<1>10. passed[0] \in Nat /\ ctxs[0].st = "ST_DONE" BY StateFacts
<1>11. \A u \in 0..v : u # 0 => u \in TaskIds /\ u <= Completed BY <1>1, <1>8, <1>9 DEF TaskIds
<1> QED BY <1>1, <1>3, <1>7, <1>9, <1>10, <1>11 DEF BlocksInv

\* With one worker, a snapshot that get_snapshot hands out holds just what the first
\* v transactions made: the worker publishes a block when it has done all its tasks.
THEOREM OneWorkerComplete == ASSUME num_workers = 1 PROVE Spec => []SnapshotComplete
<1>1. FullInv /\ BlocksInv => SnapshotComplete
  <2> SUFFICES ASSUME FullInv, BlocksInv, NEW v \in 0..NumTasks, SnapshotReady(v)
               PROVE  Contents(heap, ctxs[v].root) = M!Replay(txs, v)
    BY DEF SnapshotComplete
  <2>1. Contents(heap, ctxs[v].root) = Expected[v] BY ReadyDone, DoneContents
  <2> QED BY <2>1 DEF Expected
<1>2. Init => FullInv /\ BlocksInv BY FullInit, BlocksInit
<1>3. FullInv /\ BlocksInv /\ [Next]_vars => FullInv' /\ BlocksInv' BY FullStep, BlocksStep
<1> QED BY <1>1, <1>2, <1>3, PTL DEF Spec

\* With one worker, get_snapshot returns for every version once process() has: the
\* worker publishes every block, the last one when it finds no task.
THEOREM OneWorkerAvailable == ASSUME num_workers = 1 PROVE Spec => []SnapshotsAvailable
<1>1. FullInv /\ BlocksInv => SnapshotsAvailable
  <2> SUFFICES ASSUME FullInv, BlocksInv, Joined, NEW v \in 0..NumTasks PROVE SnapshotReady(v)
    BY DEF SnapshotsAvailable
  <2>1. /\ Workers = {1} /\ worker[1] \in [pc : WorkerPcs, task : Nat, stage : Nat, count : Nat, est : Int]
        /\ NumTasks \in Nat /\ v \in Nat /\ v <= NumTasks
    BY OneWorker DEF FullInv
  <2> DEFINE q == v \div BlockSize  count == worker[1].count
  <2>2. 0 \in 0..num_pipes BY Constants
  <2>3. worker[1].pc = "stop" /\ v <= passed[0] BY <2>1, <2>2 DEF Joined
  <2>4. count \in Nat /\ num_estimated[1] = count /\ Full(count) > NumTasks BY <2>1, <2>3 DEF BlocksInv
  <2>5. count > q
    <3> HIDE DEF count
    <3>1. Full(count) \in Nat BY <2>4, FullBlocks
    <3>2. v < Full(count) BY <2>1, <2>4, <3>1
    <3> QED BY <2>1, <2>4, <3>2, InBlocks
  <2>6. q \in Int BY <2>1, BlockSizeAssumption
  <2> HIDE DEF q
  <2>7. (q % 1) + 1 = 1 /\ q \div 1 = q BY <2>6
  <2> QED BY <2>3, <2>4, <2>5, <2>7 DEF SnapshotReady, q
<1>2. Init => FullInv /\ BlocksInv BY FullInit, BlocksInit
<1>3. FullInv /\ BlocksInv /\ [Next]_vars => FullInv' /\ BlocksInv' BY FullStep, BlocksStep
<1> QED BY <1>1, <1>2, <1>3, PTL DEF Spec

-----------------------------------------------------------------------------
(* The sums of one worker.  It stores the sums of the versions of a block  *)
(* when their tasks are done, so that a stored sum is never stale, and     *)
(* publishes the block when all its roots have theirs.                     *)
SumsInv ==
  \A x \in DOMAIN heap :
     /\ heap[x].aug \in Nat /\ SumRight(heap, Expected, x)
     /\ heap[x].aug # aug_uninitialized => ctxs[Ver(x)].st = "ST_DONE"

SummedInv ==
  LET pc == worker[1].pc
      count == worker[1].count
      est == worker[1].est
  IN /\ pc = "estimate" => est <= Full(count + 1) /\ est <= NumTasks
     /\ \A v \in 0..NumTasks :
          v <= Full(count) \/ (pc = "estimate" /\ est < v /\ v <= Full(count + 1)) => HasSum(heap, ctxs[v].root)

\* A step leaves no sum in the heap h2 that is not in h.
KeepsSums(h, h2) == \A x \in DOMAIN h2 : h2[x].aug = aug_uninitialized \/ (x \in DOMAIN h /\ h2[x].aug = h[x].aug)

\* A new node has no sum.
LEMMA AllocSums == ASSUME NEW h, NEW g, KeepsSums(h, g), NEW new PROVE KeepsSums(h, Alloc(g, new))
<1> SUFFICES ASSUME NEW x \in DOMAIN Alloc(g, new)
             PROVE  Alloc(g, new)[x].aug = aug_uninitialized \/ (x \in DOMAIN h /\ Alloc(g, new)[x].aug = h[x].aug)
  BY DEF KeepsSums
<1>1. CASE \E n \in new : n.at = x
  <2>1. PICK n : Alloc(g, new)[x] = [val |-> n.val, aug |-> aug_uninitialized, lch |-> n.lch, rch |-> n.rch]
    BY <1>1 DEF Alloc
  <2> QED BY <2>1
<1>2. CASE ~ \E n \in new : n.at = x
  <2>1. x \in DOMAIN g /\ Alloc(g, new)[x] = g[x] BY <1>2 DEF Alloc
  <2> QED BY <2>1 DEF KeepsSums
<1> QED BY <1>1, <1>2

\* Neither does setting children store a sum.
LEMMA LinkSums ==
  ASSUME NEW h, \A x \in DOMAIN h : IsNode(h[x]), NEW f \in {"lch", "rch"}, NEW e \in {"lch", "rch"}, NEW t, NEW a, NEW b
  PROVE  KeepsSums(h, [h EXCEPT ![t][f] = a, ![t][e] = b])
<1> SUFFICES ASSUME NEW g, g = [h EXCEPT ![t][f] = a, ![t][e] = b], NEW x \in DOMAIN g
             PROVE  x \in DOMAIN h /\ g[x].aug = h[x].aug
  BY DEF KeepsSums
<1>1. x \in DOMAIN h OBVIOUS
<1>2. PICK n : n = h[x] OBVIOUS
<1>3. n = [val |-> n.val, aug |-> n.aug, lch |-> n.lch, rch |-> n.rch] BY <1>1, <1>2 DEF IsNode
<1>4. CASE x # t BY <1>1, <1>4
<1>5. CASE x = t
  <2>1. g[x] = [[n EXCEPT ![f] = a] EXCEPT ![e] = b] BY <1>1, <1>2, <1>5
  <2>2. [[n EXCEPT ![f] = a] EXCEPT ![e] = b].aug = n.aug BY <1>3
  <2> QED BY <1>1, <1>2, <2>1, <2>2
<1> QED BY <1>4, <1>5

\* Nor do the steps of a task.
LEMMA StepSums ==
  ASSUME NEW h, \A x \in DOMAIN h : IsNode(h[x]), NEW t, NEW c
  PROVE  /\ KeepsSums(h, execute_one_step_(h, t, c).heap)
         /\ KeepsSums(h, execute_to_complete_(h, t, c).heap)
         /\ \A new : KeepsSums(h, Alloc(h, new))
<1>1. ASSUME NEW ref, NEW new PROVE KeepsSums(h, Alloc(SetChildren(h, c, ref), new))
  <2>1. PICK g : g = SetChildren(h, c, ref) OBVIOUS
  <2>2. PICK a : \E f, e \in {"lch", "rch"} : g = [h EXCEPT ![c.t_cur][f] = a, ![c.t_cur][e] = ref]
    <3>1. PICK o : o = Original(c) OBVIOUS
    <3>2. PICK f \in {"lch", "rch"}, e \in {"lch", "rch"} : f = Kept(c) /\ e = Down(c) BY DEF Kept, Down
    <3>3. g = [h EXCEPT ![c.t_cur][f] = h[o][f], ![c.t_cur][e] = ref] BY <2>1, <3>1, <3>2 DEF SetChildren
    <3> QED BY <3>3
  <2>3. PICK f \in {"lch", "rch"}, e \in {"lch", "rch"} : g = [h EXCEPT ![c.t_cur][f] = a, ![c.t_cur][e] = ref] BY <2>2
  <2>4. PICK t2 : t2 = c.t_cur OBVIOUS
  <2>5. KeepsSums(h, [h EXCEPT ![t2][f] = a, ![t2][e] = ref]) BY LinkSums
  <2>6. KeepsSums(h, g) BY <2>3, <2>4, <2>5
  <2> QED BY <2>1, <2>6, AllocSums
<1>2. KeepsSums(h, execute_one_step_(h, t, c).heap)
  <2>1. CASE c.fn = "FN_SETREF"
    <3>1. PICK o : o = c.t_past OBVIOUS
    <3>2. execute_one_step_(h, t, c).heap = [h EXCEPT ![c.t_cur]["lch"] = h[o].lch, ![c.t_cur]["rch"] = h[o].rch]
      BY <2>1, <3>1 DEF execute_one_step_
    <3>3. PICK g : g = [h EXCEPT ![c.t_cur]["lch"] = h[o].lch, ![c.t_cur]["rch"] = h[o].rch] OBVIOUS
    <3>4. KeepsSums(h, g) BY <3>3, LinkSums
    <3> QED BY <3>2, <3>3, <3>4
  <2>2. CASE c.fn # "FN_SETREF"
    <3>1. PICK y : y = IF c.fn = "FN_SEARCH" THEN update_(h, t, Descend(h, c)) ELSE concat_(h, t, Descend(h, c)) OBVIOUS
    <3>2. execute_one_step_(h, t, c).heap = Alloc(SetChildren(h, c, y.ref), y.new) BY <2>2, <3>1 DEF execute_one_step_
    <3> QED BY <1>1, <3>2
  <2> QED BY <2>1, <2>2
<1>3. KeepsSums(h, execute_to_complete_(h, t, c).heap)
  <2>1. CASE c.fn = "FN_SETREF" BY <1>2, <2>1 DEF execute_to_complete_
  <2>2. CASE c.fn # "FN_SETREF"
    <3>1. PICK d : d = Descend(h, c) OBVIOUS
    <3>2. PICK y : y = IF c.fn = "FN_CONCAT" THEN process_concat(h, t, d.t_l, d.t_r)
                       ELSE IF c.op = "OP_INSERT" THEN search_insert(h, t, d.t_past, c.key)
                       ELSE search_delete(h, t, d.t_past, c.key)
      OBVIOUS
    <3>3. execute_to_complete_(h, t, c).heap = Alloc(SetChildren(h, c, y.ref), y.new)
      BY <2>2, <3>1, <3>2 DEF execute_to_complete_
    <3> QED BY <1>1, <3>3
  <2> QED BY <2>1, <2>2
<1>4. \A new : KeepsSums(h, Alloc(h, new))
  <2>1. KeepsSums(h, h) BY DEF KeepsSums
  <2> QED BY <2>1, AllocSums
<1> QED BY <1>2, <1>3, <1>4

\* A step leaves the nodes of versions that are done alone, and stores no sum.
Quiet ==
  /\ DOMAIN heap \subseteq DOMAIN heap' /\ KeepsSums(heap, heap')
  /\ \A x \in DOMAIN heap : ctxs[Ver(x)].st = "ST_DONE" => heap'[x] = heap[x]

\* Every step but an estimate does.
LEMMA QuietStep == ASSUME FullInv, [Next]_vars, \A w \in Workers : ~Estimate(w) PROVE Quiet
<1>1. \A x \in DOMAIN heap : IsNode(heap[x]) BY StateFacts DEF TreeInv, NodesInv, GoodNode
<1>2. ASSUME heap' = heap PROVE Quiet BY <1>2 DEF Quiet, KeepsSums
<1>3. ASSUME NEW t, Spares(t), KeepsSums(heap, heap') PROVE Quiet
  <2>1. CASE heap' = heap BY <1>2, <2>1
  <2>2. CASE ctxs[t].st # "ST_DONE" /\ Own(heap, heap', t) BY <1>3, <2>2 DEF Quiet, Own
  <2> QED BY <1>3, <2>1, <2>2 DEF Spares
<1>4. CASE Master
  <2> DEFINE t == passed[0] + 1
  <2>1. Spares(t) BY <1>4, MasterTree
  <2>2. PICK new : heap' = heap \/ heap' = Alloc(heap, new) BY <1>4 DEF Master, StepTo
  <2> QED BY <1>1, <1>2, <1>3, <2>1, <2>2, StepSums
<1>5. ASSUME NEW i \in 1..num_pipes, PipeStep(i) PROVE Quiet
  <2>1. PICK t : t = passed[i] + 1 OBVIOUS
  <2>2. Spares(t) BY <1>5, <2>1, PipeTree
  <2>3. heap' = heap \/ heap' = execute_one_step_(heap, t, ctxs[t]).heap BY <1>5, <2>1 DEF PipeStep, StepTo, treeVars
  <2> QED BY <1>1, <1>2, <1>3, <2>2, <2>3, StepSums
<1>6. ASSUME NEW w \in Workers, Load(w) PROVE Quiet
  <2>1. PICK t : t = worker[w].task OBVIOUS
  <2>2. Spares(t) BY <1>6, <2>1, LoadTree
  <2>3. heap' = heap \/ heap' = execute_to_complete_(heap, t, ctxs[t]).heap BY <1>6, <2>1 DEF Load, StepTo, treeVars
  <2> QED BY <1>1, <1>2, <1>3, <2>2, <2>3, StepSums
<1>7. ASSUME NEW w \in Workers, Step(w) PROVE Quiet
  <2>1. PICK t : t = worker[w].task OBVIOUS
  <2>2. Spares(t) BY <1>7, <2>1, StepTree
  <2>3. heap' = execute_one_step_(heap, t, ctxs[t]).heap BY <1>7, <2>1 DEF Step, StepTo
  <2> QED BY <1>1, <1>3, <2>2, <2>3, StepSums
<1>8. ASSUME NEW w \in Workers, Fetch(w) \/ PublishBlock(w) PROVE Quiet BY <1>2, <1>8 DEF Fetch, PublishBlock, treeVars
<1>9. CASE Boarder \/ Collector BY <1>2, <1>9 DEF Boarder, Collector, treeVars
<1>10. CASE UNCHANGED vars \/ Stopped BY <1>2, <1>10 DEF Stopped, vars, treeVars
<1> QED BY <1>4, <1>5, <1>6, <1>7, <1>8, <1>9, <1>10 DEF Next, Worker

\* Sums of the versions that are done stay, and so do the right ones.
LEMMA QuietSums ==
  ASSUME FullInv, SumsInv, Quiet, KeepsDone, UNCHANGED txs
  PROVE  SumsInv' /\ \A p : HasSum(heap, p) => HasSum(heap', p)
<1>1. Expected' = Expected BY ExpectedStays
<1>2. ASSUME NEW x \in DOMAIN heap, heap[x].aug # aug_uninitialized
      PROVE  x \in DOMAIN heap' /\ heap'[x] = heap[x] /\ ctxs[Ver(x)].st = "ST_DONE"
  BY <1>2 DEF SumsInv, Quiet
<1>3. ASSUME NEW p, HasSum(heap, p) PROVE HasSum(heap', p) BY <1>2, <1>3 DEF HasSum
<1>4. ASSUME NEW x \in DOMAIN heap'
      PROVE  /\ heap'[x].aug \in Nat /\ SumRight(heap', Expected, x)
             /\ heap'[x].aug # aug_uninitialized => ctxs'[Ver(x)].st = "ST_DONE"
  <2>1. CASE heap'[x].aug = aug_uninitialized BY <2>1 DEF SumRight, aug_uninitialized
  <2>2. CASE heap'[x].aug # aug_uninitialized
    <3>1. x \in DOMAIN heap /\ heap'[x].aug = heap[x].aug BY <2>2 DEF Quiet, KeepsSums
    <3>2. heap'[x] = heap[x] /\ ctxs[Ver(x)].st = "ST_DONE" BY <1>2, <2>2, <3>1
    <3>3. Ver(x) \in 0..NumTasks
      <4>1. DOMAIN heap \subseteq (0..passed[0]) \X Keys /\ passed[0] <= NumTasks /\ passed[0] \in Nat
        BY StateFacts DEF TreeInv, NodesInv
      <4> QED BY <3>1, <4>1, Constants DEF Ver
    <3>4. ctxs'[Ver(x)].st = "ST_DONE" BY <3>2, <3>3 DEF KeepsDone
    <3>5. heap[x].aug \in Nat /\ SumRight(heap, Expected, x) BY <3>1 DEF SumsInv
    <3>6. SumRight(heap', Expected, x) BY <1>3, <2>2, <3>2, <3>5 DEF SumRight
    <3> QED BY <3>2, <3>4, <3>5, <3>6
  <2> QED BY <2>1, <2>2
<1>5. SumsInv' BY <1>1, <1>4 DEF SumsInv
<1> QED BY <1>3, <1>5

\* The versions whose roots have their sums, and the one that is next, are done.
LEMMA SummedDone ==
  ASSUME num_workers = 1, FullInv, BlocksInv, SummedInv, NEW v \in 0..NumTasks,
         v <= Full(worker[1].count) \/ (worker[1].pc = "estimate" /\ v <= Full(worker[1].count + 1))
  PROVE  v <= passed[0] /\ \A u \in 0..v : ctxs[u].st = "ST_DONE"
<1>1. /\ worker[1] \in [pc : WorkerPcs, task : Nat, stage : Nat, count : Nat, est : Int]
      /\ NumTasks \in Nat /\ TaskIds \subseteq Int /\ v \in Nat /\ v <= NumTasks
  BY OneWorker DEF FullInv
<1> DEFINE count == worker[1].count
<1>2. count \in Nat BY <1>1
<1>3. Full(count) \in Nat /\ Full(count + 1) \in Nat
  <2> HIDE DEF count
  <2> QED BY <1>2, FullBlocks
<1>4. Completed \in Int BY <1>1 DEF Completed
<1>5. v <= Completed
  <2>1. CASE v <= Full(count) BY <1>1, <1>3, <1>4, <2>1 DEF BlocksInv, Reached
  <2>2. CASE worker[1].pc = "estimate" /\ v <= Full(count + 1)
    <3>1. Completed = worker[1].task BY <2>2 DEF Completed, AtTask
    <3>2. Reached(count + 1, Completed) BY <2>2, <3>1 DEF BlocksInv
    <3> QED BY <1>1, <1>3, <1>4, <2>2, <3>2 DEF Reached
  <2> QED BY <2>1, <2>2
<1>6. passed[0] \in Nat /\ ctxs[0].st = "ST_DONE" /\ TreeInv(Expected, num_committed, heap, ctxs, passed[0]) BY StateFacts
<1>7. \A u \in 0..v : u # 0 => u \in TaskIds /\ u <= Completed BY <1>1, <1>4, <1>5 DEF TaskIds
<1>8. \A u \in 0..v : ctxs[u].st = "ST_DONE" BY <1>6, <1>7 DEF BlocksInv
<1>9. v <= passed[0]
  <2> SUFFICES ASSUME v > passed[0] PROVE FALSE BY <1>1, <1>6
  <2>1. v \in TaskIds BY <1>1, <1>6 DEF TaskIds
  <2>2. ctxs[v] = Context BY <1>6, <2>1 DEF TreeInv, ContextsInv
  <2> QED BY <1>1, <1>8, <2>2 DEF Context
<1> QED BY <1>8, <1>9

\* The sums of a version that is done, with all before it.
LEMMA SummableVersion ==
  ASSUME FullInv, SumsInv, NEW v \in 0..passed[0], \A u \in 0..v : ctxs[u].st = "ST_DONE"
  PROVE  /\ Summable(heap, Dom(heap, v), Expected) /\ ctxs[v].root \in Dom(heap, v) \cup {nullptr}
         /\ Holds(Dom(heap, v), Expected, ctxs[v].root, Expected[v], Present(Expected[v])) /\ Expected[v] \in Counts
<1>1. /\ Finished(heap, Dom(heap, v), Expected) /\ \A x \in Dom(heap, v) : Expected[Ver(x)] \in Counts
      /\ Holds(Dom(heap, v), Expected, ctxs[v].root, Expected[v], Present(Expected[v])) /\ Expected[v] \in Counts
  BY DoneVersion
<1>2. Valued(heap)
  <2> SUFFICES ASSUME NEW x \in DOMAIN heap PROVE IsNode(heap[x]) /\ heap[x].val \in Nat /\ heap[x].aug \in Nat
    BY DEF Valued
  <2>1. IsNode(heap[x]) /\ heap[x].val = Expected[Ver(x)][Key(x)] /\ x \in (0..passed[0]) \X Keys
    BY StateFacts DEF TreeInv, NodesInv, GoodNode
  <2>2. Ver(x) \in 0..passed[0] /\ Key(x) \in Keys BY <2>1 DEF Ver, Key
  <2>3. Expected[Ver(x)] \in Counts BY <2>2, StateFacts
  <2>4. heap[x].val \in Nat BY <2>1, <2>2, <2>3 DEF Counts
  <2> QED BY <2>1, <2>4 DEF SumsInv
<1>3. \A x \in Dom(heap, v) : SumRight(heap, Expected, x) BY DEF SumsInv, Dom
<1>4. Summable(heap, Dom(heap, v), Expected) BY <1>1, <1>2, <1>3 DEF Summable
<1>5. ctxs[v].root \in Dom(heap, v) \cup {nullptr} BY <1>1 DEF Holds
<1> QED BY <1>1, <1>4, <1>5

\* Estimating a version that is done stores right sums, and that of its root.
LEMMA EstimateSums ==
  ASSUME FullInv, SumsInv, NEW v \in 0..passed[0], \A u \in 0..v : ctxs[u].st = "ST_DONE",
         heap' = augment(heap, ctxs[v].root), UNCHANGED <<txs, ctxs>>
  PROVE  SumsInv' /\ HasSum(heap', ctxs[v].root) /\ \A p : HasSum(heap, p) => HasSum(heap', p)
<1> DEFINE D == Dom(heap, v)
<1>1. Expected' = Expected BY ExpectedStays
<1>2. Summable(heap, D, Expected) /\ ctxs[v].root \in D \cup {nullptr} BY SummableVersion
<1>3. PICK g : g = heap' OBVIOUS
<1>4. /\ DOMAIN g = DOMAIN heap /\ HasSum(g, ctxs[v].root)
      /\ \A x \in DOMAIN heap : /\ x \notin D \/ heap[x].aug # aug_uninitialized => g[x] = heap[x]
                                /\ g[x] = [heap[x] EXCEPT !.aug = g[x].aug] /\ g[x].aug \in Nat
      /\ \A x \in D : SumRight(g, Expected, x)
  <2> HIDE DEF D
  <2> QED BY <1>2, <1>3, AugmentSpec
<1>5. \A p : HasSum(heap, p) => HasSum(g, p) BY <1>4 DEF HasSum
<1>6. ASSUME NEW x \in DOMAIN g
      PROVE  g[x].aug \in Nat /\ SumRight(g, Expected, x) /\ (g[x].aug # aug_uninitialized => ctxs[Ver(x)].st = "ST_DONE")
  <2>1. CASE x \in D
    <3>1. Ver(x) \in 0..v
      <4>1. DOMAIN heap \subseteq (0..passed[0]) \X Keys BY StateFacts DEF TreeInv, NodesInv
      <4>2. Ver(x) \in 0..passed[0] /\ Ver(x) <= v BY <2>1, <4>1 DEF Ver, Dom
      <4> QED BY <4>2
    <3> QED BY <1>4, <1>6, <2>1, <3>1
  <2>2. CASE x \notin D
    <3>1. g[x] = heap[x] /\ x \in DOMAIN heap BY <1>4, <1>6, <2>2
    <3>2. SumRight(heap, Expected, x) /\ (heap[x].aug # aug_uninitialized => ctxs[Ver(x)].st = "ST_DONE") BY <3>1 DEF SumsInv
    <3>3. SumRight(g, Expected, x) BY <1>5, <3>1, <3>2 DEF SumRight
    <3> QED BY <1>4, <1>6, <3>1, <3>2, <3>3
  <2> QED BY <2>1, <2>2
<1>7. \A x \in DOMAIN heap' : /\ heap'[x].aug \in Nat /\ SumRight(heap', Expected', x)
                              /\ heap'[x].aug # aug_uninitialized => ctxs'[Ver(x)].st = "ST_DONE"
  BY <1>1, <1>3, <1>6
<1>8. SumsInv' BY <1>7 DEF SumsInv
<1> QED BY <1>3, <1>4, <1>5, <1>8

\* build_parallel has stored the sums of version 0.
LEMMA SumsInit == ASSUME num_workers = 1, Init PROVE SumsInv /\ SummedInv
<1> DEFINE b == build_parallel(Contents0)
<1>1. heap = b.new /\ txs \in Workloads /\ worker[1].pc = "fetch" /\ worker[1].count = 0
  BY DEF Init, Workers
<1>2. Expected[0] = Contents0 /\ Expected[0] \in Counts BY <1>1, ExpectedIs, Constants
<1>3. 0 \in 0..NumTasks /\ ctxs[0] = Done([Context EXCEPT !.root = b.ref]) BY NumTasksAssumption DEF Init
<1>4. ctxs[0].st = "ST_DONE" /\ ctxs[0].root = b.ref BY <1>3 DEF Done, Context
<1> DEFINE h == b.new  D == DOMAIN h  c == Expected[0]
<1>5. /\ D = {<<0, k>> : k \in Present(c)} /\ Holds(D, Expected, b.ref, c, Present(c))
      /\ \A x \in D : NodeIs(D, Expected, x, h[x]) /\ IsNode(h[x]) /\ h[x].aug = SumOf(c, SubKeys(c, Key(x)))
  <2>1. PICK cs : cs = Expected OBVIOUS
  <2>2. cs[0] = c /\ c \in Counts /\ b = build_parallel(c) BY <1>2, <2>1
  <2> HIDE DEF c
  <2> QED BY <2>1, <2>2, BuildSpec
<1>6. \A x \in D : Ver(x) = 0 /\ Key(x) \in Keys BY <1>5 DEF Present, Ver, Key
<1>7. nullptr \notin D BY <1>5, NullAssumption DEF Present
<1> HIDE DEF h, D
<1>8. ASSUME NEW x \in D PROVE h[x].aug = SumBelow(Expected, x) /\ h[x].aug \in Nat /\ h[x].aug # aug_uninitialized
  <2>1. SumBelow(Expected, x) \in Nat /\ SumBelow(Expected, x) > 0
    <3>1. \A y \in D : Expected[Ver(y)] \in Counts BY <1>2, <1>6
    <3>2. PICK n : n = h[x] OBVIOUS
    <3>3. NodeIs(D, Expected, x, n) /\ Key(x) \in Keys BY <1>5, <1>6, <1>8, <3>2
    <3> QED BY <1>7, <1>8, <3>1, <3>3, NodeSum
  <2>2. SumBelow(Expected, x) = SumOf(c, SubKeys(c, Key(x))) BY <1>6, <1>7, <1>8 DEF SumBelow
  <2>3. h[x].aug = SumBelow(Expected, x) BY <1>5, <1>8, <2>2
  <2> QED BY <2>1, <2>3 DEF aug_uninitialized
<1>9. \A p : p \in D \cup {nullptr} => HasSum(h, p) BY <1>8 DEF HasSum, D
<1>10. ASSUME NEW x \in D PROVE HasSum(h, h[x].lch) /\ HasSum(h, h[x].rch)
  <2>1. h[x].lch \in D \cup {nullptr} /\ h[x].rch \in D \cup {nullptr} BY <1>5, <1>10 DEF NodeIs, Holds
  <2> QED BY <1>9, <2>1
<1>11. h = heap BY <1>1 DEF h
<1>12. SumsInv
  <2> SUFFICES ASSUME NEW x \in DOMAIN heap
               PROVE  /\ heap[x].aug \in Nat /\ SumRight(heap, Expected, x)
                      /\ heap[x].aug # aug_uninitialized => ctxs[Ver(x)].st = "ST_DONE"
    BY DEF SumsInv
  <2>1. x \in D /\ Ver(x) = 0 BY <1>6, <1>11 DEF D
  <2> QED BY <1>4, <1>8, <1>10, <1>11, <2>1 DEF SumRight
<1>13. HasSum(heap, ctxs[0].root)
  <2>1. b.ref \in D \cup {nullptr} BY <1>5 DEF Holds
  <2> QED BY <1>4, <1>9, <1>11, <2>1
<1>14. Full(0) = 0 BY BlockSizeAssumption DEF Full
<1>15. \A v \in 0..NumTasks : v <= 0 => v = 0 BY NumTasksAssumption
<1>16. SummedInv BY <1>1, <1>13, <1>14, <1>15 DEF SummedInv
<1> QED BY <1>12, <1>16

\* What a step that is no estimate and publishes nothing leaves of the worker.
LEMMA SummedStays ==
  ASSUME num_workers = 1, FullInv, BlocksInv, SummedInv, KeepsDone, \A p : HasSum(heap, p) => HasSum(heap', p),
         worker'[1].count = worker[1].count,
         \/ worker'[1].pc = worker[1].pc /\ worker'[1].est = worker[1].est
         \/ worker'[1].pc = "estimate" => worker'[1].est = block_end(1, worker[1].count)
  PROVE  SummedInv'
<1>1. /\ worker[1] \in [pc : WorkerPcs, task : Nat, stage : Nat, count : Nat, est : Int] /\ NumTasks \in Nat
  BY OneWorker DEF FullInv
<1>2. PICK n \in Nat : n = worker[1].count BY <1>1
<1>3. /\ Full(n) \in Nat /\ Full(n + 1) \in Nat
      /\ block_end(1, n) = IF Full(n + 1) <= NumTasks THEN Full(n + 1) ELSE NumTasks
  BY <1>2, FullBlocks
<1>4. ASSUME NEW v \in 0..NumTasks, v <= Full(n) \/ (worker[1].pc = "estimate" /\ worker[1].est < v /\ v <= Full(n + 1))
      PROVE  HasSum(heap', ctxs'[v].root)
  <2>1. HasSum(heap, ctxs[v].root) BY <1>2, <1>4 DEF SummedInv
  <2>2. ctxs[v].st = "ST_DONE"
    <3>1. \A u \in 0..v : ctxs[u].st = "ST_DONE" BY <1>2, <1>4, SummedDone
    <3> QED BY <3>1
  <2>3. ctxs'[v] = ctxs[v] BY <2>2 DEF KeepsDone
  <2> QED BY <2>1, <2>3
<1>5. CASE worker'[1].pc = worker[1].pc /\ worker'[1].est = worker[1].est
  BY <1>2, <1>4, <1>5 DEF SummedInv
<1>6. CASE worker'[1].pc = "estimate" => worker'[1].est = block_end(1, n)
  <2>1. worker'[1].pc = "estimate" => worker'[1].est <= Full(n + 1) /\ worker'[1].est <= NumTasks BY <1>1, <1>3, <1>6
  <2>2. \A v \in 0..NumTasks : worker'[1].pc = "estimate" => ~(worker'[1].est < v /\ v <= Full(n + 1)) BY <1>1, <1>3, <1>6
  <2> QED BY <1>2, <1>4, <2>1, <2>2 DEF SummedInv
<1> QED BY <1>2, <1>5, <1>6

\* An estimate stores the sum of the next version of the block.
LEMMA SummedEstimate ==
  ASSUME num_workers = 1, FullInv, BlocksInv, SumsInv, SummedInv, KeepsDone, Estimate(1)
  PROVE  SumsInv' /\ SummedInv'
<1>1. /\ worker \in [Workers -> [pc : WorkerPcs, task : Nat, stage : Nat, count : Nat, est : Int]] /\ 1 \in Workers
      /\ NumTasks \in Nat
  BY OneWorker DEF FullInv, IInv, Types
<1>2. PICK n \in Nat : n = worker[1].count BY <1>1
<1>3. PICK e \in Int : e = worker[1].est BY <1>1
<1>4. /\ Full(n) \in Nat /\ Full(n + 1) \in Nat /\ block_start(1, n) = Full(n) + 1 BY <1>2, FullBlocks
<1>5. /\ worker[1].pc = "estimate" /\ e > Full(n) /\ heap' = augment(heap, ctxs[e].root) /\ UNCHANGED <<txs, ctxs>>
      /\ worker'[1].pc = "estimate" /\ worker'[1].count = n /\ worker'[1].est = e - 1
  BY <1>1, <1>2, <1>3, <1>4 DEF Estimate
<1>6. e \in 0..NumTasks /\ e <= Full(n + 1) BY <1>1, <1>2, <1>3, <1>4, <1>5 DEF SummedInv
<1>7. e <= passed[0] /\ \A u \in 0..e : ctxs[u].st = "ST_DONE" BY <1>2, <1>5, <1>6, SummedDone
<1>8. e \in 0..passed[0] BY <1>6, <1>7, StateFacts
<1>9. SumsInv' /\ HasSum(heap', ctxs[e].root) /\ \A p : HasSum(heap, p) => HasSum(heap', p)
  BY <1>5, <1>7, <1>8, EstimateSums
<1>10. ASSUME NEW v \in 0..NumTasks, v <= Full(n) \/ (e - 1 < v /\ v <= Full(n + 1)) PROVE HasSum(heap', ctxs'[v].root)
  <2>1. v = e \/ v <= Full(n) \/ (e < v /\ v <= Full(n + 1)) BY <1>10
  <2>2. v = e \/ HasSum(heap, ctxs[v].root) BY <1>2, <1>3, <1>5, <2>1 DEF SummedInv
  <2> QED BY <1>5, <1>9, <2>2
<1>11. e - 1 <= Full(n + 1) /\ e - 1 <= NumTasks BY <1>1, <1>4, <1>6
<1> QED BY <1>5, <1>9, <1>10, <1>11 DEF SummedInv

\* A block is published when all its versions have their sums.
LEMMA SummedPublish ==
  ASSUME num_workers = 1, FullInv, BlocksInv, SummedInv, PublishBlock(1) PROVE SummedInv'
<1>1. /\ worker \in [Workers -> [pc : WorkerPcs, task : Nat, stage : Nat, count : Nat, est : Int]] /\ 1 \in Workers
      /\ NumTasks \in Nat
  BY OneWorker DEF FullInv, IInv, Types
<1>2. PICK n \in Nat : n = worker[1].count BY <1>1
<1>3. /\ Full(n) \in Nat /\ Full(n + 1) \in Nat /\ block_start(1, n) = Full(n) + 1 BY <1>2, FullBlocks
<1>4. worker[1].pc = "estimate" /\ worker[1].est <= Full(n) /\ UNCHANGED <<heap, ctxs>>
  BY <1>1, <1>2, <1>3 DEF PublishBlock, treeVars
<1>5. worker'[1].pc # "estimate" /\ worker'[1].count = n + 1
  <2> DEFINE p == IF MoreTasks(worker[1].task) THEN "fetch" ELSE "stop"
  <2>1. worker' = [worker EXCEPT ![1].count = n + 1, ![1].est = 0, ![1].pc = p] BY <1>2 DEF PublishBlock
  <2>2. p # "estimate" OBVIOUS
  <2> HIDE DEF p
  <2>3. worker'[1].pc = p /\ worker'[1].count = n + 1 BY <1>1, <2>1
  <2> QED BY <2>2, <2>3
<1>6. ASSUME NEW v \in 0..NumTasks, v <= Full(n + 1) PROVE HasSum(heap', ctxs'[v].root)
  <2>1. v <= Full(n) \/ worker[1].est < v BY <1>1, <1>3, <1>4
  <2>2. HasSum(heap, ctxs[v].root) BY <1>2, <1>4, <1>6, <2>1 DEF SummedInv
  <2> QED BY <1>4, <2>2
<1> QED BY <1>5, <1>6 DEF SummedInv

\* Every step keeps the sums.
LEMMA SumsStep ==
  ASSUME num_workers = 1, FullInv, BlocksInv, SumsInv, SummedInv, [Next]_vars PROVE SumsInv' /\ SummedInv'
<1>1. IInv /\ KeepsDone BY DoneKept DEF FullInv
<1>2. /\ Workers = {1} /\ worker \in [Workers -> [pc : WorkerPcs, task : Nat, stage : Nat, count : Nat, est : Int]]
  BY <1>1, OneWorker DEF IInv, Types
<1>3. CASE Estimate(1) BY <1>1, <1>3, SummedEstimate
<1>4. CASE ~Estimate(1)
  <2>1. Quiet BY <1>2, <1>4, QuietStep
  <2>2. UNCHANGED txs
    BY <1>2, <1>4 DEF Next, Master, PipeStep, Boarder, Worker, Fetch, Load, Step, PublishBlock, Collector, Stopped, vars
  <2>3. SumsInv' /\ \A p : HasSum(heap, p) => HasSum(heap', p) BY <1>1, <2>1, <2>2, QuietSums
  <2> SUFFICES SummedInv' BY <2>3
  <2>4. ASSUME worker' = worker PROVE SummedInv' BY <1>1, <2>3, <2>4, SummedStays
  <2>5. ASSUME NEW t, worker' = [worker EXCEPT ![1] = AfterUpdate(1, t)] PROVE SummedInv'
    <3>1. worker'[1] = AfterUpdate(1, t) BY <1>2, <2>5
    <3>2. PICK e : e = block_end(1, worker[1].count) OBVIOUS
    <3>3. /\ AfterUpdate(1, t).count = worker[1].count
          /\ AfterUpdate(1, t).pc = "estimate" => AfterUpdate(1, t).est = e
      BY <1>2, <3>2 DEF AfterUpdate
    <3> QED BY <1>1, <2>3, <3>1, <3>2, <3>3, SummedStays
  <2>6. ASSUME worker'[1].count = worker[1].count, worker'[1].pc \in AtTask PROVE SummedInv'
    <3>1. worker'[1].pc # "estimate" BY <2>6 DEF AtTask
    <3> QED BY <1>1, <2>3, <2>6, <3>1, SummedStays
  <2>7. CASE Master \/ (\E i \in 1..num_pipes : PipeStep(i)) \/ Boarder \/ Collector \/ Stopped \/ UNCHANGED vars
    BY <2>4, <2>7 DEF Master, PipeStep, Boarder, Collector, Stopped, vars
  <2>8. CASE Fetch(1)
    <3>1. CASE num_fetched + 1 > NumTasks
      <4>1. worker' = [worker EXCEPT ![1] = AfterUpdate(1, num_fetched + 1)] BY <2>8, <3>1 DEF Fetch
      <4> QED BY <2>5, <4>1
    <3>2. CASE ~(num_fetched + 1 > NumTasks)
      <4>1. PICK t : t = num_fetched + 1 OBVIOUS
      <4>2. worker' = [worker EXCEPT ![1] = [worker[1] EXCEPT !.pc = "load", !.task = t, !.stage = 1]]
        BY <2>8, <3>2, <4>1 DEF Fetch
      <4>3. worker'[1].count = worker[1].count /\ worker'[1].pc = "load" BY <1>2, <4>2
      <4> QED BY <2>6, <4>3 DEF AtTask
    <3> QED BY <3>1, <3>2
  <2>9. CASE Load(1)
    <3>1. PICK t : t = worker[1].task OBVIOUS
    <3>2. worker' = [worker EXCEPT ![1] = AfterUpdate(1, t)] \/ worker' = [worker EXCEPT ![1].pc = "step"]
      BY <2>9, <3>1 DEF Load
    <3>3. ASSUME worker' = [worker EXCEPT ![1].pc = "step"] PROVE SummedInv'
      <4>1. worker'[1].count = worker[1].count /\ worker'[1].pc = "step" BY <1>2, <3>3
      <4> QED BY <2>6, <4>1 DEF AtTask
    <3> QED BY <2>5, <3>2, <3>3
  <2>10. CASE Step(1)
    <3>1. CASE ctxs'[worker[1].task].st = "ST_DONE"
      <4>1. worker' = [worker EXCEPT ![1] = AfterUpdate(1, worker[1].task)] BY <2>10, <3>1 DEF Step
      <4> QED BY <2>5, <4>1
    <3>2. CASE ctxs'[worker[1].task].st # "ST_DONE"
      <4>1. worker' = [worker EXCEPT ![1] = [worker[1] EXCEPT !.pc = "load", !.stage = worker[1].stage + 1]]
        BY <2>10, <3>2 DEF Step
      <4>2. worker'[1].count = worker[1].count /\ worker'[1].pc = "load" BY <1>2, <4>1
      <4> QED BY <2>6, <4>2 DEF AtTask
    <3> QED BY <3>1, <3>2
  <2>11. CASE PublishBlock(1) BY <2>11, SummedPublish
  <2>12. Next \/ UNCHANGED vars OBVIOUS
  <2>13. ASSUME NEW w \in Workers, Worker(w) PROVE SummedInv'
    <3>1. Worker(1) BY <1>2, <2>13
    <3> QED BY <1>4, <2>8, <2>9, <2>10, <2>11, <3>1 DEF Worker
  <2>14. SummedInv' BY <2>7, <2>12, <2>13 DEF Next
  <2> QED BY <2>14
<1> QED BY <1>3, <1>4

\* With one worker, a range query on a snapshot that get_snapshot hands out returns the
\* sum over what the first v transactions made: every sum that range_estimate trusts is
\* there, and was stored when nothing below it was still to change.
THEOREM OneWorkerAnswers == ASSUME num_workers = 1 PROVE Spec => []SnapshotAnswers
<1>1. FullInv /\ BlocksInv /\ SumsInv /\ SummedInv => SnapshotAnswers
  <2> SUFFICES ASSUME FullInv, BlocksInv, SumsInv, SummedInv, NEW v \in 0..NumTasks, SnapshotReady(v),
                      NEW l \in Keys, NEW r \in Keys
               PROVE  range_estimate(heap, ctxs[v].root, l, r) = SumOf(M!Replay(txs, v), {k \in Keys : l <= k /\ k <= r})
    BY DEF SnapshotAnswers
  <2>1. v \in 0..passed[0] /\ v < Full(worker[1].count) /\ \A u \in 0..v : ctxs[u].st = "ST_DONE" BY ReadyDone
  <2>2. /\ Summable(heap, Dom(heap, v), Expected)
        /\ Holds(Dom(heap, v), Expected, ctxs[v].root, Expected[v], Present(Expected[v])) /\ Expected[v] \in Counts
    BY <2>1, SummableVersion
  <2>3. HasSum(heap, ctxs[v].root)
    <3>1. PICK n \in Nat : n = worker[1].count BY OneWorker DEF FullInv
    <3>2. Full(n) \in Nat BY <3>1, FullBlocks
    <3>3. v \in Nat BY NumTasksAssumption
    <3>4. v <= Full(n) BY <2>1, <3>1, <3>2, <3>3
    <3> QED BY <3>1, <3>4 DEF SummedInv
  <2>4. l \in Nat /\ r \in Nat BY KeysAssumption
  <2>5. range_estimate(heap, ctxs[v].root, l, r) = SumOf(Expected[v], {k \in Keys : l <= k /\ k <= r})
    BY <2>2, <2>3, <2>4, EstimateSpec
  <2> QED BY <2>5 DEF Expected
<1>2. Init => FullInv /\ BlocksInv /\ SumsInv /\ SummedInv BY FullInit, BlocksInit, SumsInit
<1>3. FullInv /\ BlocksInv /\ SumsInv /\ SummedInv /\ [Next]_vars => FullInv' /\ BlocksInv' /\ SumsInv' /\ SummedInv'
  BY FullStep, BlocksStep, SumsStep
<1> QED BY <1>1, <1>2, <1>3, PTL DEF Spec
=============================================================================
