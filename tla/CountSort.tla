----------------------------- MODULE CountSort -----------------------------
(***************************************************************************)
(* The counting sort and the grouping by a small integer of parlay         *)
(* (internal/counting_sort.h).  The input is cut into blocks; a parallel   *)
(* loop counts the keys of each block, one sums each bucket over the       *)
(* blocks, one gives each block its place in each bucket, one writes the   *)
(* blocks.  The iterations of a loop run in any order and the writes of    *)
(* the blocks interleave.  Elements are <<key, position in the input>>.    *)
(***************************************************************************)
EXTENDS Integers, Sequences, SequencesExt, FiniteSets, FiniteSetsExt

CONSTANTS Inputs,         \* sequences of keys
          num_buckets,
          SEQ_THRESHOLD,  \* below this length the sort is sequential
          Unit,           \* so many elements make a further block
          Kinds,          \* of "copy", "inplace", "skip" (count_sort) and "group" (group_by_small_int)
          Word            \* unsigned arithmetic is modulo Word

BucketsAssumption == {num_buckets, Unit, Word} \subseteq Nat \ {0} /\ SEQ_THRESHOLD \in Nat

VARIABLES kind, keys,      \* the call
          In, Out,         \* the cells
          pc, left,        \* the loop and its iterations that have not run
          counts,          \* counts[block, bucket]
          bucket_offsets,  \* the total of each bucket, then its offset
          dest_offsets,    \* dest_offsets[block, bucket]
          written          \* elements of each block written so far
vars == <<kind, keys, In, Out, pc, left, counts, bucket_offsets, dest_offsets, written>>

n == Len(keys)
hole == <<>>
Buckets == 0 .. num_buckets - 1
num_blocks == 1 + n \div Unit
Blocks == 0 .. num_blocks - 1
block_size == (((n + Word - 1) % Word) \div num_blocks + 1) % Word
Start(i) == Min({i * block_size, n})
End(i) == Min({Start(i) + block_size, n})
Element(j) == <<keys[j + 1], j>>
Total(f, S) == FoldSet(LAMBDA x, acc : acc + f[x], 0, S)
\* A bucket of count_sort is a part of Out; group_by_small_int gives each a sequence.
Base(b) == IF kind = "group" THEN b * n ELSE bucket_offsets[b]

Init ==
  /\ kind \in Kinds /\ keys \in Inputs
  /\ In = [j \in 0 .. n - 1 |-> Element(j)]
  /\ Out = [a \in 0 .. num_buckets * n - 1 |-> hole]
  /\ pc = "start" /\ left = {}
  /\ counts = [ib \in Blocks \X Buckets |-> 0]
  /\ bucket_offsets = [b \in 0 .. num_buckets |-> 0]
  /\ dest_offsets = [ib \in Blocks \X Buckets |-> 0]
  /\ written = [i \in Blocks |-> 0]

Call == <<kind, keys>>
\* The next loop, when the iterations of this one are done.
Loop(name, indices) == pc' = name /\ left' = indices
\* Elements j of In, each to the cell to[j] (relocated unless they are copied).
Moves(J) == In' = IF kind \in {"inplace", "skip"} THEN [j \in DOMAIN In |-> IF j \in J THEN hole ELSE In[j]] ELSE In
-----------------------------------------------------------------------------
\* Sequentially, from the last element back: the counts end as the starts of the buckets.
SeqPlace(j) == Cardinality({i \in 0 .. n - 1 : keys[i + 1] < keys[j + 1] \/ (keys[i + 1] = keys[j + 1] /\ i < j)})
Sequential == kind # "group" /\ (n < SEQ_THRESHOLD \/ num_blocks = 1)
seq_count_sort ==
  /\ pc = "start" /\ Sequential
  /\ Out' = [a \in DOMAIN Out |-> LET J == {j \in 0 .. n - 1 : SeqPlace(j) = a}
                                  IN  IF J = {} THEN hole ELSE In[CHOOSE j \in J : TRUE]]
  /\ Moves(0 .. n - 1)
  /\ bucket_offsets' = [b \in 0 .. num_buckets |-> Cardinality({j \in 1 .. n : keys[j] < b})]
  /\ Loop("back", {})
  /\ UNCHANGED <<Call, counts, dest_offsets, written>>
Begin ==
  /\ pc = "start" /\ ~Sequential
  /\ Loop(IF kind = "group" /\ num_buckets = 2 THEN "count zeros" ELSE "count", Blocks)
  /\ UNCHANGED <<Call, In, Out, counts, bucket_offsets, dest_offsets, written>>

\* Loop 1: the counts of a block.
CountOf(i, b) == Cardinality({j \in Start(i) .. End(i) - 1 : keys[j + 1] = b})
CountBlock(i) ==
  /\ pc = "count" /\ i \in left
  /\ counts' = [ib \in DOMAIN counts |-> IF ib[1] = i THEN CountOf(i, ib[2]) ELSE counts[ib]]
  /\ IF left = {i} THEN Loop("sum", Buckets) ELSE Loop(pc, left \ {i})
  /\ UNCHANGED <<Call, In, Out, bucket_offsets, dest_offsets, written>>
\* Loop 2: the total of a bucket.
SumBucket(b) ==
  /\ pc = "sum" /\ b \in left
  /\ bucket_offsets' = [bucket_offsets EXCEPT ![b] = Total(counts, Blocks \X {b})]
  /\ IF left = {b} THEN Loop("scan", {}) ELSE Loop(pc, left \ {b})
  /\ UNCHANGED <<Call, In, Out, counts, dest_offsets, written>>
\* All in one bucket is left as it is where that was asked for.
OneBucket(totals) == Cardinality({b \in Buckets : totals[b] > 0}) = 1
Scan ==
  /\ pc = "scan"
  /\ bucket_offsets' =
       IF kind = "group" THEN bucket_offsets
       ELSE [b \in 0 .. num_buckets |-> Total(bucket_offsets, 0 .. b - 1)]
  /\ IF kind = "skip" /\ OneBucket(bucket_offsets) THEN Loop("skipped", {}) ELSE Loop("dest", Buckets)
  /\ UNCHANGED <<Call, In, Out, counts, dest_offsets, written>>
\* Loop 3: where each block starts in a bucket: after the blocks before it (mutant: the
\* block itself is counted in).
PlaceBug(i, b) == Base(b) + Total(counts, (0 .. i) \X {b})
Place(i, b) == Base(b) + Total(counts, (0 .. i - 1) \X {b})
DestBucket(b) ==
  /\ pc = "dest" /\ b \in left
  /\ dest_offsets' = [ib \in DOMAIN dest_offsets |->
                        IF ib[2] = b THEN Place(ib[1], b) ELSE dest_offsets[ib]]
  /\ IF left = {b} THEN Loop("write", Blocks) ELSE Loop(pc, left \ {b})
  /\ UNCHANGED <<Call, In, Out, counts, bucket_offsets, written>>
\* Loop 4: a block writes its elements in order, each after those of its key; the offsets
\* are its own copies.
WriteAt(i, j) ==
  dest_offsets[i, keys[j + 1]] + Cardinality({k \in Start(i) .. j - 1 : keys[k + 1] = keys[j + 1]})
\* The next element of block i, to the cell a; `last` is what follows the loop.
WriteNext(i, a, last) ==
  LET j == Start(i) + written[i] IN
  IF j < End(i)
  THEN /\ Out' = [Out EXCEPT ![a] = In[j]] /\ Moves({j})
       /\ written' = [written EXCEPT ![i] = @ + 1]
       /\ UNCHANGED <<pc, left>>
  ELSE /\ IF left = {i} THEN Loop(last, {}) ELSE Loop(pc, left \ {i})
       /\ UNCHANGED <<In, Out, written>>
WriteBlock(i) ==
  /\ pc = "write" /\ i \in left
  /\ WriteNext(i, WriteAt(i, Start(i) + written[i]), "back")
  /\ UNCHANGED <<Call, counts, bucket_offsets, dest_offsets>>
\* count_sort_inplace relocates the result back.
Back ==
  /\ pc = "back"
  /\ IF kind = "inplace"
     THEN /\ In' = [j \in DOMAIN In |-> Out[j]]
          /\ Out' = [a \in DOMAIN Out |-> IF a \in DOMAIN In THEN hole ELSE Out[a]]
     ELSE UNCHANGED <<In, Out>>
  /\ Loop("done", {})
  /\ UNCHANGED <<Call, counts, bucket_offsets, dest_offsets, written>>
-----------------------------------------------------------------------------
(* group_by_small_int with two buckets counts the zeros only. *)
CountZeros(i) ==
  /\ pc = "count zeros" /\ i \in left
  /\ counts' = [counts EXCEPT ![i, 0] = CountOf(i, 0)]
  /\ IF left = {i} THEN Loop("scan zeros", {}) ELSE Loop(pc, left \ {i})
  /\ UNCHANGED <<Call, In, Out, bucket_offsets, dest_offsets, written>>
\* A block's ones start where its elements before it were not zeros.
Ones(i, zeros) == Start(i) - zeros
ScanZeros ==
  /\ pc = "scan zeros"
  /\ dest_offsets' = [ib \in DOMAIN dest_offsets |->
       LET zeros == Total(counts, (0 .. ib[1] - 1) \X {0})
       IN  IF ib[2] = 0 THEN zeros ELSE Base(1) + Ones(ib[1], zeros)]
  /\ Loop("write", Blocks)
  /\ UNCHANGED <<Call, In, Out, counts, bucket_offsets, written>>

Step ==
  \/ seq_count_sort \/ Begin \/ Scan \/ Back \/ ScanZeros
  \/ \E i \in left : CountBlock(i) \/ SumBucket(i) \/ DestBucket(i) \/ WriteBlock(i) \/ CountZeros(i)
Return == pc \in {"done", "skipped"} /\ UNCHANGED vars
Next == Step \/ Return
Spec == Init /\ [][Next]_vars /\ WF_vars(Step)
-----------------------------------------------------------------------------
(* Properties *)

(* No write loses an object: while the blocks are written in any order no    *)
(* two elements go to the same cell; relocated elements are in one cell      *)
(* only, and a copied input stays as it was.                                 *)
ObjectsConserved ==
  \A j \in 0 .. n - 1 :
    LET ins == Cardinality({i \in DOMAIN In : In[i] = Element(j)})
        outs == Cardinality({a \in DOMAIN Out : Out[a] = Element(j)})
        moved == Sequential \/ pc \in {"back", "done"}
                 \/ \E i \in Blocks : Start(i) <= j /\ j < Start(i) + written[i]
    IN  IF kind \in {"inplace", "skip"} THEN ins + outs = 1
        ELSE In[j] = Element(j) /\ outs = (IF moved /\ pc # "start" THEN 1 ELSE 0)

(* When the call returns every bucket holds the elements of its key in the   *)
(* order of the input, and the offsets that are returned delimit it.         *)
Grouped ==
  pc = "done" =>
    LET result == IF kind = "inplace" THEN In ELSE Out
        Of(b) == SelectSeq([j \in 1 .. n |-> Element(j - 1)], LAMBDA e : e[1] = b)
    IN  /\ \A b \in Buckets : \A k \in 1 .. Len(Of(b)) : result[Base(b) + k - 1] = Of(b)[k]
        /\ kind # "group" =>
             \A b \in 0 .. num_buckets : bucket_offsets[b] = Cardinality({j \in 1 .. n : keys[j] < b})

(* A sort that reports it was skipped had an input in one bucket, which is   *)
(* where it was.                                                             *)
SkippedSorted ==
  pc = "skipped" => /\ \A i, j \in 1 .. n : keys[i] = keys[j]
                    /\ \A j \in 0 .. n - 1 : In[j] = Element(j)
=============================================================================
