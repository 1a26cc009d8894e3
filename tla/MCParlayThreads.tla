--------------------------- MODULE MCParlayThreads ---------------------------
(* The scheduler of parlay and what its threads run, for TLC. The modules   *)
(* are separate machines: the initial state picks one of Parts, and the     *)
(* steps are those of its module, on the variables x1, x2, ... in the order *)
(* of its declaration. The work-stealing deque has its own variables, which *)
(* stay as they are in all other parts: two thieves race the owner and each *)
(* other, and three jobs in an array of two make the owner reuse slots      *)
(* after a reset, which is what the tag is for.                             *)
EXTENDS WorkStealingDeque, FiniteSets, TLC

CONSTANTS
  Parts,           \* the parts that a run checks, one after the other
  u1, u2,          \* threads; also the thieves
  w1, w2,          \* threads that wait on an atomic
  n1, n2, n3       \* threads that change it

VARIABLES part,  \* the part that runs
          x1, x2, x3, x4, x5, x6, x7, x8, x9, x10, x11, x12, x13  \* its variables

xs == <<x1, x2, x3, x4, x5, x6, x7, x8, x9, x10, x11, x12, x13>>
allVars == <<part, xs, vars>>

(* A part of k variables leaves the others alone: they keep one value.      *)
Rest8 == <<x9, x10, x11, x12, x13, vars>>
Park8 == x9 = 0 /\ x10 = 0 /\ x11 = 0 /\ x12 = 0 /\ x13 = 0
Rest7 == <<x8, Rest8>>
Park7 == x8 = 0 /\ Park8
Rest5 == <<x6, x7, Rest7>>
Park5 == x6 = 0 /\ x7 = 0 /\ Park7
Rest4 == <<x5, Rest5>>
Park4 == x5 = 0 /\ Park5
Park0 == x1 = 0 /\ x2 = 0 /\ x3 = 0 /\ x4 = 0 /\ Park4
-----------------------------------------------------------------------------
Address == w1 :> "a" @@ w2 :> "a" @@ n1 :> "a" @@ n2 :> "a" @@ n3 :> "b"
FirstIndex == (1 :> 4) @@ (2 :> 4) @@ (3 :> 0) @@ (4 :> 5)
Sequences(keys, lengths) == UNION {[1 .. l -> keys] : l \in lengths}
SortInputs == Sequences(1 .. 2, {0, 3}) \cup {s \in Sequences(1 .. 3, {6}) : s[1] = 3 /\ s[2] = 1 /\ s[3] # 2 /\ s[6] = 2}
SortHash(i) == 5 * i + 3

(* Seven functions in two levels of pardo, so that a worker can steal the   *)
(* outer job while the inner one is still queued and can wait at a join     *)
(* below another one.                                                       *)
FJ == INSTANCE ForkJoin WITH
  NumThreads <- 3, Depth <- 2, Conservative <- {2},
  deques <- x1, bot <- x2, stack <- x3, done <- x4, runs <- x5, returned <- x6, base <- x7,
  waking <- x8, num_awake <- x9, changed <- x10, blocked <- x11, finished <- x12,
  num_finished <- x13
PF == INSTANCE ParallelFor WITH
  MaxIndex <- 8, Granularities <- {0, 1, 2, 5}, BlockSizes <- {0, 1, 3}, Spread <- 4,
  loop <- x1, state <- x2, done <- x3, sz <- x4, grain <- x5, ranges <- x6, runs <- x7
(* Two threads wait on one atomic, which two notifiers change; a third      *)
(* changes another atomic of the same table entry, so that it can empty the *)
(* entry between a waiter's steps.                                          *)
AW == INSTANCE AtomicWait WITH
  Waiters <- {w1, w2}, Notifiers <- {n1, n2, n3}, NotifyOne <- {n1}, Addr <- Address,
  VersionMod <- 8,
  strategy <- x1, value <- x2, waiters <- x3, version <- x4, mutex <- x5, asleep <- x6,
  seen <- x7, pc <- x8
(* One cluster of three keys around the end of the table, and a key beside  *)
(* it.                                                                      *)
HU == INSTANCE HashTable WITH
  Threads <- {u1, u2}, m <- 5, Keys <- {1, 2, 3}, Vals <- {1, 2}, hash <- FirstIndex,
  Phases <- <<"insert", "update">>, MaxCalls <- 2,
  TA <- x1, phase <- x2, calls <- x3, thread <- x4, wanted <- x5
PS == INSTANCE ParallelSort WITH
  Sorts <- {"quicksort", "merge_sort", "bucket_sort", "stable_bucket_sort"},
  Inputs <- SortInputs, hash64 <- SortHash, base_case <- 5, QuickBase <- 6,
  _merge_base <- 3, MERGE_SORT_BASE <- 3, Bits <- 2, BucketBase <- 4,
  sort <- x1, input <- x2, mem <- x3, tasks <- x4

(* What the modules assume of their constants. *)
ASSUME Assumptions ==
  /\ FJ!ForkJoinAssumption /\ PF!SpreadAssumption /\ AW!AtomicWaitAssumption
  /\ PS!BasesAssumption

-----------------------------------------------------------------------------
PartInit ==
  /\ part \in Parts /\ Init
  /\ \/ part = "deque" /\ Park0
     \/ part = "fork_join" /\ FJ!Init
     \/ part = "parallel_for" /\ PF!Init /\ Park7
     \/ part = "atomic_wait" /\ AW!Init /\ Park8
     \/ part = "hash_update" /\ HU!Init /\ Park5
     \/ part = "sorts" /\ PS!Init /\ Park4

Deque == part = "deque" /\ Next /\ UNCHANGED <<part, xs>>
Fork == part = "fork_join" /\ FJ!Next /\ UNCHANGED <<part, vars>>
Loop == part = "parallel_for" /\ PF!Next /\ UNCHANGED <<part, Rest7>>
AtomicWait == part = "atomic_wait" /\ AW!Next /\ UNCHANGED <<part, Rest8>>
HashUpdate == part = "hash_update" /\ HU!Next /\ UNCHANGED <<part, Rest5>>
Sorts == part = "sorts" /\ PS!Next /\ UNCHANGED <<part, Rest4>>

(* Here the threads may have ended, or the calls of the bound are made.     *)
MayStop == {"fork_join", "atomic_wait"}
PartStopped == part \in MayStop /\ UNCHANGED allVars

PartNext ==
  \/ Deque \/ Fork \/ Loop \/ AtomicWait \/ HashUpdate \/ Sorts \/ PartStopped

PartSpec == PartInit /\ [][PartNext]_allVars

(* The threads of the scheduler and those inside an operation run on, and a  *)
(* timeout comes when it is due. Only one part runs, so that one condition   *)
(* serves the i-th thread of each.                                           *)
Runs(i) ==
  \/ /\ part = "deque" /\ UNCHANGED <<part, xs>>
     /\ \/ i = 1 /\ owner.pc # "idle" /\ OwnerStep
        \/ i \in {2, 3} /\ ThiefStep(<<u1, u1, u2>>[i])
  \/ /\ part = "fork_join" /\ UNCHANGED <<part, vars>>
     /\ \/ i = 1 /\ FJ!Shutdown
        \/ i \in {2, 3, 4} /\ FJ!WorkerStep(i - 2)
  \/ part = "parallel_for" /\ i = 1 /\ PF!Step /\ UNCHANGED <<part, Rest7>>
  \/ part = "sorts" /\ i = 1 /\ PS!Step /\ UNCHANGED <<part, Rest4>>
  \/ /\ part = "hash_update" /\ UNCHANGED <<part, Rest5>>
     /\ i < 3 /\ x4[<<u1, u2>>[i]].pc # "idle" /\ HU!Step(<<u1, u2>>[i])
  \/ /\ part = "atomic_wait" /\ UNCHANGED <<part, Rest8>>
     /\ \/ i < 3 /\ AW!WaiterStep(<<w1, w2>>[i])
        \/ i \in {3, 4} /\ AW!Timeout(<<w1, w1, w1, w2>>[i])
        \/ i > 4 /\ AW!NotifierStep(<<n1, n2, n3>>[i - 4])

PartFairSpec == PartSpec /\ \A i \in 1 .. 7 : WF_allVars(Runs(i))
-----------------------------------------------------------------------------
(* Work that is forked is done once, and joined after it is done. A job     *)
(* pushed to a deque is still to be had or was returned once, and           *)
(* pop_bottom misses only what was stolen (work_stealing_deque.h). pardo    *)
(* takes back its own right job or waits for the thief, and no job outlives *)
(* the frame it is in (scheduler.h). Every index of a parallel_for runs     *)
(* once, and ranges still to run are disjoint.                              *)
WorkDoneOnce ==
  /\ part = "deque" => TypeOK /\ NoJobLost /\ MissMeansStolen
  /\ part = "fork_join" =>
       /\ FJ!TypeOK /\ FJ!OwnJobIsRightJob /\ FJ!JobOutlivedByPardo
       /\ FJ!JoinedAfterBoth /\ FJ!SlotsBoundedByDepth
  /\ part = "parallel_for" => PF!EachIndexOnce /\ PF!RangesDisjoint

(* Nobody sleeps through what it waits for. A thread that sleeps on a       *)
(* condition variable or directly on an atomic that has moved has a         *)
(* notifier that has yet to look or to wake it (atomic_wait.h:229-253,      *)
(* 291-320); a worker that waits for work is counted as not awake, so that  *)
(* a waker who sees everybody awake has nobody to notify (scheduler.h).     *)
NoLostWakeup ==
  /\ part = "atomic_wait" => AW!TypeOK /\ AW!NoLostWakeup
  /\ part = "fork_join" => FJ!AwakeCount

(* The parallel algorithms give the results of the plain ones. The hash     *)
(* table holds what was inserted, each key once (hash_table.h). The sorts   *)
(* never lose or double an object that they relocate, no two tasks that may *)
(* run together touch a cell, and at the end the result is in order, stable *)
(* where promised (quicksort.h, merge_sort.h, bucket_sort.h).               *)
ResultsExact ==
  /\ part = "hash_update" => HU!FindsExactly
  /\ part = "sorts" => PS!ObjectsConserved /\ PS!SortedStable /\ PS!RaceFree

(* Everything that is started ends: jobs in a deque are taken while thieves *)
(* look for work, even if the owner never pops; the program and the         *)
(* destructor of the scheduler come back, no worker sleeping through the    *)
(* shutdown; loops end, a granularity never being zero; every atomic_wait   *)
(* returns once its atomic has moved, the timeout making up for wake-ups    *)
(* the table can lose; hash table operations do not go round for ever; and  *)
(* no cut of a sort gives back the whole range.                             *)
CallsReturn ==
  /\ []<>(part = "deque" => Drained)
  /\ []<>(part = "fork_join" => FJ!Exited)
  /\ []<>(part = "parallel_for" => PF!Returned)
  /\ []<>(part = "atomic_wait" => AW!Awake)
  /\ \A t \in {u1, u2} : []<>(part = "hash_update" => x4[t].pc = "idle")
  /\ []<>(part = "sorts" => x4 = {})
=============================================================================
