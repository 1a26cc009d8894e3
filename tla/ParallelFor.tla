---------------------------- MODULE ParallelFor ----------------------------
(***************************************************************************)
(* The parallel loop of parlay (parallel.h, fork_join_scheduler of         *)
(* scheduler.h): the first iterations are run and timed to choose a        *)
(* granularity, the rest is divided recursively, unevenly, into ranges     *)
(* that run in any order.  blocked_for runs the loop over blocks.          *)
(***************************************************************************)
EXTENDS Integers, FiniteSets, FiniteSetsExt

CONSTANTS MaxIndex,       \* bound: indices are 0 .. MaxIndex
          Granularities,  \* the granularities asked for; 0 asks for a measured one
          BlockSizes,     \* 0: parallel_for; otherwise blocked_for with this size
          Spread          \* 128 * num_threads

SpreadAssumption == Spread \in Nat \ {0}

VARIABLES loop,     \* the loop that was called: [start, end, granularity, block]
          state,    \* "called", "measure", "divide"
          done, sz, \* the locals of get_granularity
          grain,    \* the granularity in use
          ranges,   \* ranges [start, end) that have not run yet
          runs      \* runs[i]: how often f(i) has run
vars == <<loop, state, done, sz, grain, ranges, runs>>

Indices == 0 .. MaxIndex
\* The number of iterations of the loop over blocks.
Blocks(start, end, size) == (end - start + size - 1) \div size
\* What one iteration of the loop covers.
Covers(i) ==
  IF loop.block = 0 THEN {i}
  ELSE LET s == loop.start + i * loop.block
       IN  s .. Min({s + loop.block, loop.end}) - 1
First == IF loop.block = 0 THEN loop.start ELSE 0
Last == IF loop.block = 0 THEN loop.end ELSE Blocks(loop.start, loop.end, loop.block)

Run(set) == runs' = [i \in Indices |-> runs[i] + Cardinality({j \in set : i \in Covers(j)})]

Init ==
  /\ loop \in [start : Indices, end : Indices, granularity : Granularities, block : BlockSizes]
  /\ loop.block # 0 => loop.granularity = 0
  /\ state = "called" /\ done = 0 /\ sz = 1 /\ grain = 0 /\ ranges = {}
  /\ runs = [i \in Indices |-> 0]

\* blocked_for does nothing when there is nothing to do; parallel_for runs a short loop
\* itself (an end before the start is a long one, in unsigned arithmetic).
Serial == LET len == Last - First IN len = 1 \/ (len >= 0 /\ len <= loop.granularity)
Nothing == loop.block # 0 /\ loop.start >= loop.end
parallel_for ==
  /\ state = "called"
  /\ \/ /\ Nothing \/ (~Serial /\ Last < First)
        /\ state' = "divide" /\ UNCHANGED <<grain, ranges, runs>>
     \/ /\ ~Nothing /\ Serial
        /\ Run(First .. Last - 1)
        /\ state' = "divide" /\ UNCHANGED <<grain, ranges>>
     \/ /\ ~Nothing /\ ~Serial /\ Last > First
        /\ IF loop.granularity = 0
           THEN state' = "measure" /\ UNCHANGED <<grain, ranges>>
           ELSE grain' = loop.granularity /\ ranges' = {<<First, Last>>} /\ state' = "divide"
        /\ UNCHANGED runs
  /\ UNCHANGED <<loop, done, sz>>

\* One round of get_granularity: sz iterations, or what is left, and twice as many in the
\* next; then the granularity (mutant: only from the length of the loop, which may give 0).
Round(left) == Min({sz, left})
Grain(d) == Max({d, (Last - First) \div Spread})
Measure ==
  /\ state = "measure"
  /\ LET s == Round(Last - (First + done)) IN
     /\ Run(First + done .. First + done + s - 1)
     /\ done' = done + s /\ sz' = 2 * s
     /\ \/ \* fast enough, and iterations left
           /\ done' < Last - First
           /\ UNCHANGED <<state, grain, ranges>>
        \/ \* the round was slow, or the last one
           /\ grain' = Grain(done')
           /\ ranges' = {<<First + done', Last>>}
           /\ state' = "divide"
  /\ UNCHANGED loop

\* parfor_: a range that is small enough is run, another is divided.
Right(mid, end) == <<mid, end>>
Middle(start, end) == start + (9 * (end - start + 1)) \div 16
parfor_(r) ==
  /\ state = "divide" /\ r \in ranges
  /\ \/ /\ r[2] - r[1] <= grain
        /\ Run(r[1] .. r[2] - 1) /\ ranges' = ranges \ {r}
     \/ /\ r[2] - r[1] > grain
        /\ ranges' = (ranges \ {r}) \cup {<<r[1], Middle(r[1], r[2])>>, Right(Middle(r[1], r[2]), r[2])}
        /\ UNCHANGED runs
  /\ UNCHANGED <<loop, state, done, sz, grain>>

Returned == state = "divide" /\ ranges = {}
Return == Returned /\ UNCHANGED vars
Step == parallel_for \/ Measure \/ \E r \in ranges : parfor_(r)
Next == Step \/ Return
Spec == Init /\ [][Next]_vars /\ WF_vars(Step)
-----------------------------------------------------------------------------
(* Properties *)

(* No index is run twice or outside the loop, however the measurement and    *)
(* the division interleave, and when the loop returns every index has run.   *)
EachIndexOnce ==
  \A i \in Indices :
    LET inside == loop.start <= i /\ i < loop.end
    IN  /\ runs[i] <= (IF inside THEN 1 ELSE 0)
        /\ Returned => runs[i] = (IF inside THEN 1 ELSE 0)

(* The ranges still to run are disjoint and hold nothing that has run: the   *)
(* two sides of a fork never share an index.                                 *)
RangesDisjoint ==
  \A r \in ranges : \A i \in r[1] .. r[2] - 1 :
    /\ \A j \in Covers(i) : runs[j] = 0
    /\ \A q \in ranges \ {r} : i \notin q[1] .. q[2] - 1

(* The division ends: a granularity is never zero, so both sides shrink.     *)
LoopReturns == <>Returned
=============================================================================
