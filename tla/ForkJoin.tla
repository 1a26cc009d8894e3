------------------------------ MODULE ForkJoin ------------------------------
(***************************************************************************)
(* The fork-join scheduler of lib/parlay/scheduler.h, which runs every     *)
(* parallel_for and par_do of the treap's bulk load and of the batch       *)
(* backend: pardo, the workers that steal, sleep and are woken up, and     *)
(* shutdown. The deques are those of JobDeque.tla.                         *)
(*                                                                         *)
(* The program it runs is a binary tree of pardo calls, node 1 the root:   *)
(* an inner node forks its left and its right child, a leaf does the work. *)
(* Worker 0 is the thread that built the scheduler. wake_up_counter is     *)
(* only ever compared with an earlier load of itself, so it is kept as     *)
(* changed[w]: has it moved since w loaded it.                             *)
(***************************************************************************)
EXTENDS Integers, Sequences, FiniteSets

CONSTANTS NumThreads,   \* num_threads
          Depth,        \* levels of pardo calls in the program
          Conservative  \* the pardo calls that spin in wait_until instead of stealing

Workers == 0..(NumThreads - 1)
Nodes == 1..(2^(Depth + 1) - 1)
Inner == 1..(2^Depth - 1)

ForkJoinAssumption ==
  NumThreads \in Nat \ {0} /\ Depth \in Nat /\ Conservative \subseteq Inner

Left(n) == 2 * n
Right(n) == 2 * n + 1

VARIABLES deques,   \* deques[w]: the right jobs w has spawned, top first
          bot,      \* bot[w]: the index of the next slot of w's deque
          stack,    \* stack[w]: the calls w is in, innermost last
          done,     \* done[n]: the done flag of the job of node n
          runs,     \* runs[n]: how often node n's function was started
          returned, \* returned[n]: it has come back
          base,     \* base[w]: where w is outside of any call
          waking,   \* waking[w]: w's progress through wake_up_a_worker
          num_awake, changed, blocked,   \* num_awake_workers, wake_up_counter and its waiters
          finished, num_finished         \* finished_flag, num_finished_workers

vars == <<deques, bot, stack, done, runs, returned, base, waking,
          num_awake, changed, blocked, finished, num_finished>>
poolVars == <<num_awake, changed, blocked, finished, num_finished>>

Call(n) == [n |-> n, pc |-> "start", job |-> FALSE]
Job(n) == [n |-> n, pc |-> "start", job |-> TRUE]
Top(w) == stack[w][Len(stack[w])]
Caller(w) == SubSeq(stack[w], 1, Len(stack[w]) - 1)
At(w, pc) == waking[w] = "no" /\ stack[w] # <<>> /\ Top(w).pc = pc
Goto(w, pc) == Append(Caller(w), [Top(w) EXCEPT !.pc = pc])
Enter(w, s) == stack' = [stack EXCEPT ![w] = s]

TypeOK ==
  /\ deques \in [Workers -> Seq(Nodes)] /\ bot \in [Workers -> Nat]
  /\ \A w \in Workers : \A i \in 1..Len(stack[w]) : stack[w][i] \in
        [n : Nodes, pc : {"start", "left", "right", "wait", "hunt"}, job : BOOLEAN]
  /\ done \in [Nodes -> BOOLEAN] /\ returned \in [Nodes -> BOOLEAN]
  /\ runs \in [Nodes -> 0..1]
  /\ base \in [Workers -> {"main", "sub", "load", "wait", "add", "loop", "hunt",
                           "flag", "spam", "join", "exit"}]
  /\ waking \in [Workers -> {"no", "test", "bump", "notify"}]
  /\ num_awake \in 0..NumThreads /\ num_finished \in 0..NumThreads
  /\ changed \in [Workers -> BOOLEAN] /\ blocked \subseteq Workers
  /\ finished \in BOOLEAN

Init ==
  /\ deques = [w \in Workers |-> <<>>] /\ bot = [w \in Workers |-> 0]
  /\ stack = [w \in Workers |-> IF w = 0 THEN <<Call(1)>> ELSE <<>>]
  /\ done = [n \in Nodes |-> FALSE] /\ returned = [n \in Nodes |-> FALSE]
  /\ runs = [n \in Nodes |-> 0]
  /\ base = [w \in Workers |-> IF w = 0 THEN "main" ELSE "sub"]
  /\ waking = [w \in Workers |-> "no"]
  /\ num_awake = NumThreads /\ changed = [w \in Workers |-> FALSE]
  /\ blocked = {} /\ finished = FALSE /\ num_finished = 0
-----------------------------------------------------------------------------
(* pop_bottom on w's own deque: the last job and bot back to 0 when the     *)
(* deque is then empty. *)
PopOwn(w) ==
  LET rest == SubSeq(deques[w], 1, Len(deques[w]) - 1)
  IN  /\ deques' = [deques EXCEPT ![w] = IF @ = <<>> THEN @ ELSE rest]
      /\ bot' = [bot EXCEPT ![w] = IF Len(deques[w]) <= 1 THEN 0 ELSE @ - 1]

(* The function of w's innermost call comes back; operator() of a job then  *)
(* sets its done flag. *)
Return(w) ==
  /\ returned' = [returned EXCEPT ![Top(w).n] = TRUE]
  /\ done' = [done EXCEPT ![Top(w).n] = @ \/ Top(w).job]
  /\ Enter(w, Caller(w))

RunLeaf(w) ==
  /\ At(w, "start") /\ Top(w).n \notin Inner
  /\ runs' = [runs EXCEPT ![Top(w).n] = @ + 1]
  /\ Return(w)
  /\ UNCHANGED <<deques, bot, base, waking, poolVars>>

(* pardo: spawn the right job, wake a worker if it went into slot 0, and    *)
(* call the left function. *)
Fork(w) ==
  LET n == Top(w).n
  IN  /\ At(w, "start") /\ n \in Inner
      /\ runs' = [runs EXCEPT ![n] = @ + 1]
      /\ deques' = [deques EXCEPT ![w] = Append(@, Right(n))]
      /\ bot' = [bot EXCEPT ![w] = @ + 1]
      /\ waking' = [waking EXCEPT ![w] = IF bot[w] = 0 THEN "test" ELSE "no"]
      /\ Enter(w, Append(Goto(w, "left"), Call(Left(n))))
      /\ UNCHANGED <<done, returned, base, poolVars>>

(* pardo after the left function: run the right one if it was not stolen,   *)
(* else wait for the thief. *)
Join(w) ==
  /\ At(w, "left")
  /\ PopOwn(w)
  /\ Enter(w, IF deques[w] = <<>> THEN Goto(w, "wait")
              ELSE Append(Goto(w, "right"), Call(Right(Top(w).n))))
  /\ UNCHANGED <<done, runs, returned, base, waking, poolVars>>

JoinInline(w) ==
  /\ At(w, "right")
  /\ Return(w)
  /\ UNCHANGED <<deques, bot, runs, base, waking, poolVars>>

(* wait_until: leave when the right job is done; otherwise look at the own  *)
(* deque and then for something to steal, or spin if conservative. *)
JoinTest(w) ==
  /\ At(w, "wait")
  /\ IF done[Right(Top(w).n)]
     THEN Return(w) /\ UNCHANGED <<deques, bot>>
     ELSE /\ Top(w).n \notin Conservative
          /\ PopOwn(w)
          /\ Enter(w, IF deques[w] = <<>> THEN Goto(w, "hunt")
                      ELSE Append(stack[w], Job(deques[w][Len(deques[w])])))
          /\ UNCHANGED <<done, returned>>
  /\ UNCHANGED <<runs, base, waking, poolVars>>

(* try_steal: the oldest job of another deque, or nothing. A thief that     *)
(* thinks it leaves jobs behind, or lost its CAS and saw some, wakes a      *)
(* worker. pop_top loads bot before its CAS, and the owner may push and pop *)
(* in between, so a thief that succeeds may be wrong either way. *)
Steal(w, v) ==
  /\ deques[v] # <<>>
  /\ deques' = [deques EXCEPT ![v] = Tail(@)]
  /\ Enter(w, Append(IF stack[w] = <<>> THEN <<>> ELSE Goto(w, "wait"), Job(Head(deques[v]))))
  /\ \E empty \in BOOLEAN :
        waking' = [waking EXCEPT ![w] = IF empty THEN "no" ELSE "test"]

Miss(w, v) ==
  /\ Enter(w, IF stack[w] = <<>> THEN <<>> ELSE Goto(w, "wait"))
  /\ \E sawJobs \in {deques[v] # <<>>, FALSE} :
        waking' = [waking EXCEPT ![w] = IF sawJobs THEN "test" ELSE "no"]
  /\ UNCHANGED deques

JoinHunt(w) ==
  /\ At(w, "hunt")
  /\ \E v \in Workers \ {w} : Steal(w, v) \/ Miss(w, v)
  /\ UNCHANGED <<bot, done, runs, returned, base, poolVars>>
-----------------------------------------------------------------------------
(* wake_up_a_worker, and wake_up_all_workers when called by shutdown: test  *)
(* the number awake, bump the counter, notify. *)
WakeTest(w) ==
  /\ waking[w] = "test"
  /\ waking' = [waking EXCEPT ![w] = IF num_awake < NumThreads THEN "bump" ELSE "no"]
  /\ UNCHANGED <<deques, bot, stack, done, runs, returned, base, poolVars>>

WakeBump(w) ==
  /\ waking[w] = "bump"
  /\ waking' = [waking EXCEPT ![w] = "notify"]
  /\ changed' = [v \in Workers |-> TRUE]
  /\ UNCHANGED <<deques, bot, stack, done, runs, returned, base, num_awake, blocked,
                 finished, num_finished>>

WakeNotify(w) ==
  /\ waking[w] = "notify"
  /\ waking' = [waking EXCEPT ![w] = "no"]
  /\ blocked' \in IF base[w] = "spam" \/ blocked = {} THEN {{}}
                  ELSE {blocked \ {v} : v \in blocked}
  /\ UNCHANGED <<deques, bot, stack, done, runs, returned, base, num_awake, changed,
                 finished, num_finished>>

(* A worker outside of any job. *)
Outside(w, pc) == waking[w] = "no" /\ stack[w] = <<>> /\ base[w] = pc
Step(w, pc) == base' = [base EXCEPT ![w] = pc]

WaitSub(w) ==
  /\ Outside(w, "sub") /\ Step(w, "load")
  /\ num_awake' = num_awake - 1
  /\ UNCHANGED <<deques, bot, stack, done, runs, returned, waking, changed, blocked,
                 finished, num_finished>>

WaitLoad(w) ==
  /\ Outside(w, "load") /\ Step(w, "wait")
  /\ changed' = [changed EXCEPT ![w] = FALSE]
  /\ UNCHANGED <<deques, bot, stack, done, runs, returned, waking, num_awake, blocked,
                 finished, num_finished>>

(* atomic_wait blocks unless the counter has moved; a worker that was       *)
(* notified looks again. *)
WaitBlock(w) ==
  /\ Outside(w, "wait") /\ w \notin blocked
  /\ IF changed[w] THEN Step(w, "add") /\ UNCHANGED blocked
     ELSE blocked' = blocked \cup {w} /\ UNCHANGED base
  /\ UNCHANGED <<deques, bot, stack, done, runs, returned, waking, num_awake, changed,
                 finished, num_finished>>

WaitAdd(w) ==
  /\ Outside(w, "add") /\ Step(w, "loop")
  /\ num_awake' = num_awake + 1
  /\ UNCHANGED <<deques, bot, stack, done, runs, returned, waking, changed, blocked,
                 finished, num_finished>>

(* worker(): leave when finished, else get_job. *)
WorkerLoop(w) ==
  /\ Outside(w, "loop")
  /\ Step(w, IF finished THEN "exit" ELSE "hunt")
  /\ num_finished' = IF finished THEN num_finished + 1 ELSE num_finished
  /\ UNCHANGED <<deques, bot, stack, done, runs, returned, waking, num_awake, changed,
                 blocked, finished>>

WorkerHunt(w) ==
  /\ Outside(w, "hunt")
  /\ Step(w, "loop")
  /\ \E v \in Workers \ {w} : Steal(w, v) \/ Miss(w, v)
  /\ UNCHANGED <<bot, done, runs, returned, poolVars>>

(* steal_job gave up after STEAL_TIMEOUT: back to sleep. *)
WorkerTimeout(w) ==
  /\ Outside(w, "hunt") /\ ~finished
  /\ Step(w, "sub")
  /\ UNCHANGED <<deques, bot, stack, done, runs, returned, waking, poolVars>>

(* ~scheduler: set the flag, wake everybody until all workers have left,    *)
(* join them. *)
ShutdownFlag ==
  /\ Outside(0, "main") /\ Step(0, "flag")
  /\ finished' = TRUE
  /\ UNCHANGED <<deques, bot, stack, done, runs, returned, waking, num_awake, changed,
                 blocked, num_finished>>

ShutdownSpamBug ==
  /\ Outside(0, "flag") \/ Outside(0, "spam")
  /\ Step(0, IF base[0] = "spam" THEN "join" ELSE "spam")
  /\ waking' = [waking EXCEPT ![0] = IF base[0] = "spam" THEN "no" ELSE "test"]
  /\ UNCHANGED <<deques, bot, stack, done, runs, returned, poolVars>>
ShutdownSpam ==
  /\ Outside(0, "flag") \/ Outside(0, "spam")
  /\ IF num_finished < NumThreads - 1
     THEN Step(0, "spam") /\ waking' = [waking EXCEPT ![0] = "test"]
     ELSE Step(0, "join") /\ UNCHANGED waking
  /\ UNCHANGED <<deques, bot, stack, done, runs, returned, poolVars>>

ShutdownJoin ==
  /\ Outside(0, "join") /\ Step(0, "exit")
  /\ \A w \in Workers \ {0} : base[w] = "exit"
  /\ UNCHANGED <<deques, bot, stack, done, runs, returned, waking, poolVars>>

WorkerStep(w) ==
  \/ RunLeaf(w) \/ Fork(w) \/ Join(w) \/ JoinInline(w) \/ JoinTest(w) \/ JoinHunt(w)
  \/ WakeTest(w) \/ WakeBump(w) \/ WakeNotify(w)
  \/ WaitSub(w) \/ WaitLoad(w) \/ WaitBlock(w) \/ WaitAdd(w)
  \/ WorkerLoop(w) \/ WorkerHunt(w) \/ WorkerTimeout(w)
Shutdown == ShutdownFlag \/ ShutdownSpam \/ ShutdownJoin

Next == (\E w \in Workers : WorkerStep(w)) \/ Shutdown

Spec == Init /\ [][Next]_vars

(* Every thread that can run keeps running; which deque a thief tries, and  *)
(* whether its time is up, stays open. *)
FairSpec == Spec /\ WF_vars(Shutdown) /\ \A w \in Workers : WF_vars(WorkerStep(w))
-----------------------------------------------------------------------------
Frames(w) == {stack[w][i] : i \in 1..Len(stack[w])}
JobsOf(w) == {deques[w][i] : i \in 1..Len(deques[w])}
Open(n) == \E w \in Workers : \E f \in Frames(w) : f.n = n

(* The assertion of pardo (scheduler.h:345): what get_own_job returns at a  *)
(* join is the right job of that very pardo, whatever was stolen meanwhile. *)
OwnJobIsRightJob ==
  \A w \in Workers :
    stack[w] # <<>> /\ Top(w).pc = "left" /\ deques[w] # <<>>
      => deques[w][Len(deques[w])] = Right(Top(w).n)

(* A job lives on the stack of the pardo that spawned it, so as long as it  *)
(* is queued or running that pardo must not have come back. *)
JobOutlivedByPardo ==
  \A w \in Workers : \A j \in JobsOf(w) \cup {f.n : f \in {g \in Frames(w) : g.job}} :
    Open(j \div 2)

(* pardo comes back only after both of its functions have, and every        *)
(* function runs once: none is lost between a thief and the owner. *)
JoinedAfterBoth ==
  \A n \in Inner : returned[n] => /\ returned[Left(n)] /\ returned[Right(n)]
                                  /\ runs[Left(n)] = 1 /\ runs[Right(n)] = 1

(* The slots of a worker's deque in use never outnumber the pardo calls it  *)
(* is in, although stealing does not lower bot: the abort in push_bottom is *)
(* a limit on the depth of nested pardo calls and on nothing else. *)
SlotsBoundedByDepth ==
  \A w \in Workers :
    /\ bot[w] <= Len(stack[w])
    /\ stack[w] = <<>> => bot[w] = 0

(* A call of wait_for_work is counted as not awake, so a waker that sees    *)
(* everybody awake has nobody to notify. *)
AwakeCount ==
  LET asleep == {w \in Workers : base[w] \in {"load", "wait", "add"}}
  IN  /\ blocked \subseteq {w \in Workers : base[w] = "wait"}
      /\ num_awake + Cardinality(asleep) = NumThreads

Exited == \A w \in Workers : base[w] = "exit"

(* The program terminates, and so does the destructor: worker 0 comes back  *)
(* from every join and no worker sleeps through the shutdown. *)
ShutdownCompletes == <>Exited
=============================================================================
