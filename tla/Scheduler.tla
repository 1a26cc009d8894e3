----------------------------- MODULE Scheduler ------------------------------
(***************************************************************************)
(* The concurrent treap (lib/treap/scheduler.hpp).  Task t makes version t *)
(* out of version t-1 while version t-1 is still being made: the master    *)
(* does the step of every task at the root, pipe i the step at depth i,    *)
(* and a worker the rest, one depth at a time behind the task it depends   *)
(* on.  A collector publishes the versions whose tasks are all done, and   *)
(* each worker computes the sums of its own blocks of versions.            *)
(*                                                                         *)
(* A step of a task is one action.  What it writes besides its context are *)
(* the children of the task's own node t_cur, which no other task reads    *)
(* before the step has been handed over, and a wait in the middle of a     *)
(* step is for counters that only grow, so waiting first is the same.      *)
(* augment, which reads without waiting, is one action for each version.   *)
(***************************************************************************)
EXTENDS Treap, Sequences

CONSTANTS NumThreads, \* num_threads
          NumTasks,   \* num_tasks_
          BlockSize,  \* block_size_
          Contents0,  \* the elements t0 was built from, as counts of the keys
          Workloads   \* the sequences of transactions a workload file may hold

ASSUME NumThreadsAssumption == NumThreads \in Nat \ {0}
ASSUME NumTasksAssumption == NumTasks \in Nat
ASSUME BlockSizeAssumption == BlockSize \in Nat \ {0}
ASSUME Contents0Assumption == Contents0 \in [Keys -> Nat]

Tasks == [op : {"OP_NONE"}, key : {0}] \cup [op : {"OP_INSERT", "OP_DELETE"}, key : Keys]
ASSUME WorkloadsAssumption == Workloads \subseteq [1..NumTasks -> Tasks]

\* decide_num_pipes_: ceil(2 * log2(n)) is the least k with n*n <= 2^k.
num_pipes ==
  IF NumThreads < 16 THEN NumThreads \div 2
  ELSE CHOOSE k \in 0..NumThreads :
         NumThreads * NumThreads <= 2^k /\ \A j \in 0..k-1 : 2^j < NumThreads * NumThreads
\* n*n <= 2^n from 16 on.
ASSUME NumPipesAssumption == num_pipes \in Nat
\* decide_num_workers_
num_workers == IF NumThreads > num_pipes THEN NumThreads - num_pipes ELSE 1
Workers == 1..num_workers
TaskIds == 1..NumTasks

STAGE_DONE == NumTasks + 2 * Cardinality(Keys) + 2  \* above every stage

VARIABLES txs,           \* txs[t]: the transaction of task t (main.cpp)
          heap,          \* the nodes
          ctxs,          \* ctxs_[0..num_tasks_] without their stages
          stage,         \* stage[t]: ctxs_[t].stage
          passed,        \* passed[i]: tasks the master (0) or pipe i is through with
          num_submitted, \* num_submitted_
          num_fetched,   \* num_fetched_
          num_committed, \* num_committed_
          worker,        \* worker[w]: the locals of worker thread w
          num_estimated  \* num_estimated_[w]

treeVars == <<heap, ctxs, stage>>
vars == <<txs, treeVars, passed, num_submitted, num_fetched, num_committed, worker, num_estimated>>

\* The ordered hand-over of tasks, which Pipeline's token counters implement.
Conveyor == INSTANCE Conveyor WITH NumPipes <- num_pipes
-----------------------------------------------------------------------------
(* One task.  These operators compute what a step makes of the heap h and   *)
(* the context c of task ver.                                               *)

Context == [st |-> "ST_RUNNING", op |-> "OP_NONE", key |-> 0, fn |-> "FN_SEARCH",
            dir |-> "DIR_NONE", t_cur |-> nullptr, t_past |-> nullptr,
            t_l |-> nullptr, t_r |-> nullptr, root |-> nullptr]

Done(c) == [c EXCEPT !.st = "ST_DONE"]

\* concat_ and update_ return what *tp becomes, the nodes made and the context.
Yield(ref, new, c) == [ref |-> ref, new |-> new, c |-> c]

concat_(h, ver, c) ==
  IF c.t_l = nullptr THEN Yield(c.t_r, {}, Done(c))
  ELSE IF c.t_r = nullptr THEN Yield(c.t_l, {}, Done(c))
  ELSE IF Above(c.t_l, c.t_r)
    THEN Yield(<<ver, Key(c.t_l)>>, {make_weak_copy(h, ver, c.t_l)}, [c EXCEPT !.dir = "DIR_RIGHT"])
    ELSE Yield(<<ver, Key(c.t_r)>>, {make_weak_copy(h, ver, c.t_r)}, [c EXCEPT !.dir = "DIR_LEFT"])

\* The counter of the key changes, or its node goes when the counter was 1.
update_found_(h, ver, c) ==
  LET t == c.t_past
      WithVal(val) == Yield(<<ver, c.key>>, {Copy(ver, t, val, nullptr, nullptr)},
                            [c EXCEPT !.fn = "FN_SETREF"])
  IN IF c.op = "OP_INSERT" THEN WithVal(h[t].val + 1)
     ELSE IF ~LastOccurrence(h, t) THEN WithVal(h[t].val - 1)
     ELSE concat_(h, ver, [c EXCEPT !.t_l = h[t].lch, !.t_r = h[t].rch, !.fn = "FN_CONCAT"])

update_(h, ver, c) ==
  LET t == c.t_past
  IN IF t = nullptr
       THEN IF c.op = "OP_INSERT"
            THEN Yield(<<ver, c.key>>, {make_node(ver, c.key, nullptr, nullptr)}, Done(c))
            ELSE Yield(nullptr, {}, Done(c))
     ELSE IF Pry(t) > Hash[c.key]
       THEN Yield(<<ver, Key(t)>>, {make_weak_copy(h, ver, t)},
                  [c EXCEPT !.dir = IF c.key < Key(t) THEN "DIR_LEFT" ELSE "DIR_RIGHT"])
     ELSE IF Key(t) = c.key THEN update_found_(h, ver, c)
     ELSE IF c.op = "OP_INSERT"
       THEN LET d == process_deploy(h, ver, t, c.key) IN Yield(d.ref, d.new, Done(c))
     ELSE Yield(t, {}, Done(c))

\* Mutant: no wait before restructuring.
NeverNeedsCommitted(h, c) == FALSE

\* update_ restructures the subtree of t_past: it waits for t_past's version.
NeedsCommitted(h, c) ==
  /\ c.t_past # nullptr
  /\ Pry(c.t_past) <= Hash[c.key]
  /\ IF Key(c.t_past) = c.key THEN c.op = "OP_DELETE" /\ LastOccurrence(h, c.t_past)
                              ELSE c.op = "OP_INSERT"

\* The child field the task descends into, and the one it has finished with.
Down(c) == IF c.dir = "DIR_LEFT" THEN "lch" ELSE "rch"
Kept(c) == IF c.dir = "DIR_LEFT" THEN "rch" ELSE "lch"
\* The tree a concatenation descends into.
Source(c) == IF c.dir = "DIR_LEFT" THEN "t_r" ELSE "t_l"

\* The node of the past tree that t_cur is the copy of.
Original(c) == IF c.fn = "FN_CONCAT" THEN c[Source(c)] ELSE c.t_past

\* The context once the task has moved down in its past tree.
Descend(h, c) ==
  CASE c.fn = "FN_SEARCH" -> [c EXCEPT !.t_past = h[c.t_past][Down(c)]]
    [] c.fn = "FN_CONCAT" -> [c EXCEPT ![Source(c)] = h[c[Source(c)]][Down(c)]]
    [] c.fn = "FN_SETREF" -> c

\* t_cur gets the child of its original it keeps, and ref as the other one.
SetChildren(h, c, ref) ==
  LET old == Original(c)
  IN [h EXCEPT ![c.t_cur][Kept(c)] = h[old][Kept(c)], ![c.t_cur][Down(c)] = ref]

execute_one_step_(h, ver, c) ==
  IF c.fn = "FN_SETREF"
  THEN [heap |-> [h EXCEPT ![c.t_cur].lch = h[c.t_past].lch, ![c.t_cur].rch = h[c.t_past].rch],
        c |-> Done(c)]
  ELSE LET d == Descend(h, c)
           y == IF c.fn = "FN_SEARCH" THEN update_(h, ver, d) ELSE concat_(h, ver, d)
       IN [heap |-> Alloc(SetChildren(h, c, y.ref), y.new),
           c |-> [y.c EXCEPT !.t_cur = y.ref]]

execute_to_complete_(h, ver, c) ==
  IF c.fn = "FN_SETREF" THEN execute_one_step_(h, ver, c)
  ELSE LET d == Descend(h, c)
           y == IF c.fn = "FN_CONCAT" THEN process_concat(h, ver, d.t_l, d.t_r)
                ELSE IF c.op = "OP_INSERT" THEN search_insert(h, ver, d.t_past, c.key)
                ELSE search_delete(h, ver, d.t_past, c.key)
       IN [heap |-> Alloc(SetChildren(h, c, y.ref), y.new), c |-> Done(d)]
-----------------------------------------------------------------------------
(* The worker's blocks of versions: every num_workers-th one. *)
block_start(w, count) == (w - 1 + count * num_workers) * BlockSize + 1
block_end(w, count) == Min({block_start(w, count) + BlockSize - 1, NumTasks})

Init ==
  LET t0 == build_parallel(Contents0)
  IN /\ txs \in Workloads
     /\ heap = t0.new
     /\ ctxs = [t \in 0..NumTasks |-> IF t = 0 THEN Done([Context EXCEPT !.root = t0.ref]) ELSE Context]
     /\ stage = [t \in 0..NumTasks |-> IF t = 0 THEN STAGE_DONE ELSE 0]
     /\ Conveyor!Init
     /\ num_fetched = 0
     /\ num_committed = 0
     /\ worker = [w \in Workers |-> [pc |-> "fetch", task |-> 0, stage |-> 0, count |-> 0, est |-> 0]]
     /\ num_estimated = [w \in Workers |-> 0]

\* Task t has run a step that left the heap and context in result; done()
\* publishes STAGE_DONE.
StepTo(t, result) ==
  /\ heap' = result.heap
  /\ ctxs' = [ctxs EXCEPT ![t] = result.c]
  /\ stage' = IF result.c.st = "ST_DONE" THEN [stage EXCEPT ![t] = STAGE_DONE] ELSE stage

\* A step of c that update_ would hold up can not be taken yet.
MayUpdate(c) == NeedsCommitted(heap, c) => num_committed >= Ver(c.t_past)
MayStep(c) == c.fn = "FN_SEARCH" => MayUpdate(Descend(heap, c))

(* insert_elem, delete_elem and nop: the master issues the next task after  *)
(* its step at the root (init_context_).                                    *)
Master ==
  LET t == passed[0] + 1
      task == txs[t]
      c == [Context EXCEPT !.op = task.op, !.key = task.key, !.t_past = ctxs[t-1].root]
      y == update_(heap, t, c)
  IN /\ Conveyor!Push
     /\ IF task.op = "OP_NONE"
        THEN StepTo(t, [heap |-> heap, c |-> Done([Context EXCEPT !.root = ctxs[t-1].root])])
        ELSE /\ MayUpdate(c)
             /\ StepTo(t, [heap |-> Alloc(heap, y.new), c |-> [y.c EXCEPT !.root = y.ref, !.t_cur = y.ref]])
     /\ UNCHANGED <<txs, num_fetched, num_committed, worker, num_estimated>>

(* pipe_thread_: pipe i does the step at depth i of its next task. *)
PipeStep(i) ==
  LET t == passed[i] + 1
  IN /\ Conveyor!Pass(i)
     /\ IF ctxs[t].st = "ST_DONE" THEN UNCHANGED treeVars
        ELSE /\ MayStep(ctxs[t])
             /\ StepTo(t, execute_one_step_(heap, t, ctxs[t]))
     /\ UNCHANGED <<txs, num_fetched, num_committed, worker, num_estimated>>

(* boarder_thread_ *)
Boarder ==
  /\ Conveyor!Board
  /\ UNCHANGED <<txs, treeVars, num_fetched, num_committed, worker, num_estimated>>

\* Task t has reached the end of the worker's current block.
BlockReached(w, t) == t >= block_end(w, worker[w].count)

\* Where worker w goes after work_update_ on task t.
AfterUpdate(w, t) ==
  IF BlockReached(w, t)
  THEN [worker[w] EXCEPT !.pc = "estimate", !.task = t, !.est = block_end(w, worker[w].count)]
  ELSE [worker[w] EXCEPT !.pc = "fetch", !.task = t]

\* Mutant: a worker that finds no task leaves without a last estimate.
FetchAndLeave(w) ==
  LET t == num_fetched + 1
  IN /\ worker[w].pc = "fetch"
     /\ num_fetched' = t
     /\ worker' = [worker EXCEPT ![w] = IF t > NumTasks THEN [@ EXCEPT !.pc = "stop"]
                                        ELSE [@ EXCEPT !.pc = "load", !.task = t, !.stage = 1]]
     /\ UNCHANGED <<txs, treeVars, passed, num_submitted, num_committed, num_estimated>>

(* worker_thread_: the head of work_update_. *)
Fetch(w) ==
  LET t == num_fetched + 1
  IN /\ worker[w].pc = "fetch"
     /\ num_fetched' = t
     /\ worker' = [worker EXCEPT ![w] = IF t > NumTasks THEN AfterUpdate(w, t)
                                        ELSE [@ EXCEPT !.pc = "load", !.task = t, !.stage = 1]]
     /\ UNCHANGED <<txs, treeVars, passed, num_submitted, num_committed, num_estimated>>

(* One round of the loop over stages: publish the stage, then either        *)
(* finish, because everything the task depends on is committed, or go on    *)
(* step by step.                                                            *)
Load(w) ==
  LET t == worker[w].task
      s == worker[w].stage
      c == ctxs[t]
  IN /\ worker[w].pc = "load"
     /\ t <= num_submitted
     /\ IF c.st = "ST_DONE"
        THEN /\ worker' = [worker EXCEPT ![w] = AfterUpdate(w, t)]
             /\ UNCHANGED treeVars
        ELSE IF num_committed >= Ver(c.t_past)
        THEN /\ StepTo(t, execute_to_complete_(heap, t, c))
             /\ worker' = [worker EXCEPT ![w] = AfterUpdate(w, t)]
        ELSE /\ stage' = [stage EXCEPT ![t] = s]
             /\ worker' = [worker EXCEPT ![w].pc = "step"]
             /\ UNCHANGED <<heap, ctxs>>
     /\ UNCHANGED <<txs, passed, num_submitted, num_fetched, num_committed, num_estimated>>

\* Mutant: the dependency has reached this stage.
DependencyReached(w) == stage[Ver(ctxs[worker[w].task].t_past)] >= worker[w].stage

\* The task that made t_past is at a later stage than this one.
DependencyPassed(w) == stage[Ver(ctxs[worker[w].task].t_past)] > worker[w].stage

(* The task's dependency has left this stage: one step. *)
Step(w) ==
  LET t == worker[w].task
      c == ctxs[t]
  IN /\ worker[w].pc = "step"
     /\ DependencyPassed(w)
     /\ MayStep(c)
     /\ StepTo(t, execute_one_step_(heap, t, c))
     /\ worker' = [worker EXCEPT ![w] = IF ctxs'[t].st = "ST_DONE" THEN AfterUpdate(w, t)
                                        ELSE [@ EXCEPT !.pc = "load", !.stage = worker[w].stage + 1]]
     /\ UNCHANGED <<txs, passed, num_submitted, num_fetched, num_committed, num_estimated>>

(* work_estimate_: the versions of the block, the newest first ... *)
Estimate(w) ==
  LET v == worker[w].est
  IN /\ worker[w].pc = "estimate"
     /\ v >= block_start(w, worker[w].count)
     /\ heap' = augment(heap, ctxs[v].root)
     /\ worker' = [worker EXCEPT ![w].est = v - 1]
     /\ UNCHANGED <<txs, ctxs, stage, passed, num_submitted, num_fetched, num_committed, num_estimated>>

\* The condition of worker_thread_'s loop.
MoreTasks(t) == t <= NumTasks

(* ... then the block is published, and the worker turns to its next one. *)
PublishBlock(w) ==
  /\ worker[w].pc = "estimate"
  /\ worker[w].est < block_start(w, worker[w].count)
  /\ worker' = [worker EXCEPT ![w].count = @ + 1, ![w].est = 0,
                              ![w].pc = IF MoreTasks(worker[w].task) THEN "fetch" ELSE "stop"]
  /\ num_estimated' = [num_estimated EXCEPT ![w] = worker[w].count + 1]
  /\ UNCHANGED <<txs, treeVars, passed, num_submitted, num_fetched, num_committed>>

Worker(w) == Fetch(w) \/ Load(w) \/ Step(w) \/ Estimate(w) \/ PublishBlock(w)

CollectorNoStore ==
  /\ num_committed < NumTasks
  /\ stage[num_committed+1] = STAGE_DONE
  /\ UNCHANGED vars

(* collector_thread_: n is where its scan for done tasks stopped. *)
Collector ==
  /\ \E n \in num_committed+1..NumTasks :
        /\ \A t \in num_committed+1..n : stage[t] = STAGE_DONE
        /\ num_committed' = n
  /\ UNCHANGED <<txs, treeVars, passed, num_submitted, num_fetched, worker, num_estimated>>

(* process() has joined every thread. *)
Joined ==
  /\ \A i \in 0..num_pipes : passed[i] = NumTasks
  /\ num_submitted = NumTasks
  /\ num_committed = NumTasks
  /\ \A w \in Workers : worker[w].pc = "stop"
Stopped == Joined /\ UNCHANGED vars

Next ==
  \/ Master
  \/ \E i \in 1..num_pipes : PipeStep(i)
  \/ Boarder
  \/ \E w \in Workers : Worker(w)
  \/ Collector
  \/ Stopped

Spec == Init /\ [][Next]_vars

(* The operating system keeps running every thread, and main issues all of *)
(* its transactions before it calls process().                             *)
FairSpec ==
  /\ Spec
  /\ WF_vars(Master)
  /\ \A i \in 1..num_pipes : WF_vars(PipeStep(i))
  /\ WF_vars(Boarder)
  /\ \A w \in Workers : WF_vars(Worker(w))
  /\ WF_vars(Collector)
-----------------------------------------------------------------------------
\* Mutant: the block before is taken for published.
SnapshotReadyEarly(v) ==
  LET block_id == v \div BlockSize
  IN /\ v <= passed[0]
     /\ num_estimated[(block_id % num_workers) + 1] >= block_id \div num_workers

(* get_snapshot(v) returns in this state: the block it takes v to be in has *)
(* been published by its worker.                                            *)
SnapshotReady(v) ==
  LET block_id == v \div BlockSize
  IN /\ v <= passed[0]
     /\ num_estimated[(block_id % num_workers) + 1] > block_id \div num_workers
-----------------------------------------------------------------------------
Stages == 0..STAGE_DONE

TypeOK ==
  /\ txs \in Workloads
  /\ \A t \in DOMAIN heap :
        /\ t \in (0..NumTasks) \X Keys
        /\ heap[t] \in [val : Nat, aug : Nat, lch : Pointers(heap), rch : Pointers(heap)]
  /\ ctxs \in [0..NumTasks ->
                [st : {"ST_RUNNING", "ST_DONE"},
                 op : {"OP_NONE", "OP_INSERT", "OP_DELETE"},
                 key : Keys \cup {0},
                 fn : {"FN_SEARCH", "FN_SETREF", "FN_CONCAT"},
                 dir : {"DIR_NONE", "DIR_LEFT", "DIR_RIGHT"},
                 t_cur : Pointers(heap), t_past : Pointers(heap),
                 t_l : Pointers(heap), t_r : Pointers(heap), root : Pointers(heap)]]
  /\ stage \in [0..NumTasks -> Stages]
  /\ passed \in [0..num_pipes -> 0..NumTasks]
  /\ num_submitted \in 0..NumTasks
  /\ num_fetched \in 0..NumTasks+num_workers
  /\ num_committed \in 0..NumTasks
  /\ worker \in [Workers -> [pc : {"fetch", "load", "step", "estimate", "stop"},
                             task : 0..NumTasks+num_workers, stage : Stages,
                             count : 0..NumTasks+1, est : 0..NumTasks]]
  /\ num_estimated \in [Workers -> 0..NumTasks+1]

\* A node whose children its task has still to set.
Unfinished(t) == \E u \in TaskIds : ctxs[u].st = "ST_RUNNING" /\ ctxs[u].t_cur = t

\* Task t is the next of pipe i, or in the hands of worker w.
AtPipe(i, t) == passed[i] = t - 1 /\ t <= passed[i-1]
AtWorker(w, t) == worker[w].pc \in {"load", "step"} /\ worker[w].task = t /\ t <= num_submitted

(* A task is in the hands of one thread at a time, although a context has   *)
(* no lock: the pipes, the boarder and the workers only hand it on.         *)
OneThreadPerTask ==
  \A t \in TaskIds :
     /\ \A i, j \in 1..num_pipes : AtPipe(i, t) /\ AtPipe(j, t) => i = j
     /\ \A v, w \in Workers : AtWorker(v, t) /\ AtWorker(w, t) => v = w
     /\ \A i \in 1..num_pipes, w \in Workers : ~(AtPipe(i, t) /\ AtWorker(w, t))

KeepsDone == \A t \in 0..NumTasks : ctxs[t].st = "ST_DONE" => ctxs'[t] = ctxs[t]

(* No thread touches the context of a task once it is done: a version's     *)
(* root is final from then on.                                              *)
DoneIsFinal == [][KeepsDone]_vars

\* Task t's next step can be taken, by the pipe it is at or by its worker.
Ready(t) ==
  /\ ctxs[t].st = "ST_RUNNING"
  /\ \/ \E i \in 1..num_pipes : AtPipe(i, t)
     \/ \E w \in Workers : worker[w].pc = "step" /\ worker[w].task = t /\ DependencyPassed(w)

(* A step has its task to itself, and when it copies the children of a     *)
(* past node it finds them final, even when the past node belongs to a     *)
(* version still being made: a pipe is never ahead of the pipe below it,   *)
(* and a worker is one stage behind.                                       *)
StepsReadFinishedNodes ==
  /\ OneThreadPerTask
  /\ \A t \in TaskIds :
        Ready(t) => Original(ctxs[t]) = nullptr \/ ~Unfinished(Original(ctxs[t]))

(* A node of a committed version only reaches finished nodes that are no   *)
(* newer than itself.  This is what the waits for num_committed_ rely on   *)
(* before split_copy, concatenation and execute_to_complete_ walk a whole  *)
(* subtree without any further check.                                      *)
CommittedClosed ==
  \A t \in DOMAIN heap :
     Ver(t) <= num_committed =>
        \A u \in Nodes(heap, t) : Ver(u) <= Ver(t) /\ ~Unfinished(u)

\* No worker's stage counter reaches the mark of a task that is done.
StagesBelowDone == \A w \in Workers : worker[w].stage < STAGE_DONE

(* A version that is committed has been issued, and its task is done. *)
CommittedDone ==
  /\ num_committed <= passed[0]
  /\ \A v \in 0..num_committed : ctxs[v].st = "ST_DONE"

(* Committed versions are done, closed and treaps: concurrent              *)
(* restructuring at different depths never loses the key order or the      *)
(* priority order.                                                         *)
CommittedTreaps ==
  /\ StagesBelowDone /\ CommittedDone /\ CommittedClosed
  /\ \A v \in 0..num_committed : IsTreap(heap, ctxs[v].root)

M == INSTANCE VersionedMap
       WITH log <- SubSeq(txs, 1, passed[0]),
            versions <- [v \in 1..num_committed+1 |-> Contents(heap, ctxs[v-1].root)]

(* Strict order: committed versions are the results of the transactions in *)
(* the order the master issued them, and never change again.               *)
ImplementsVersionedMap == M!Spec

(* process() returns: no thread waits for ever on a counter or a stage.    *)
Termination == <>Joined

(* A snapshot that get_snapshot hands out is complete: it holds what the   *)
(* first v transactions made.                                              *)
SnapshotComplete ==
  \A v \in 0..NumTasks :
     SnapshotReady(v) => Contents(heap, ctxs[v].root) = M!Replay(txs, v)

(* A range query on a snapshot that get_snapshot hands out returns the sum *)
(* over the contents of its version.                                       *)
SnapshotAnswers ==
  \A v \in 0..NumTasks : SnapshotReady(v) =>
     \A l, r \in Keys : l < r =>
        range_estimate(heap, ctxs[v].root, l, r)
          = SumOf(M!Replay(txs, v), {k \in Keys : l <= k /\ k <= r})

(* A cached sum of a committed version is the sum of the counters of its   *)
(* subtree, or still uninitialized.                                        *)
AugIsSum ==
  \A v \in 0..num_committed : \A t \in Nodes(heap, ctxs[v].root) :
     heap[t].aug # aug_uninitialized => heap[t].aug = SumOf(Contents(heap, t), Keys)

(* After process() get_snapshot returns for every version. *)
SnapshotsAvailable == Joined => \A v \in 0..NumTasks : SnapshotReady(v)
=============================================================================
