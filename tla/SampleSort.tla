----------------------------- MODULE SampleSort -----------------------------
(***************************************************************************)
(* The sample sort of parlay (internal/sample_sort.h), with the transpose  *)
(* of blocks to buckets (internal/transpose.h), on the promise of the      *)
(* sorts of ParallelSort.  Pivots are taken from a sample; a parallel loop *)
(* sorts the blocks and counts how many of each block go to each bucket;   *)
(* the blocks are transposed; a parallel loop sorts the buckets.  Elements *)
(* are <<key, position in the input>> and are compared by key; a cell      *)
(* without an element is a hole.                                           *)
(***************************************************************************)
EXTENDS Integers, Sequences, SequencesExt, FiniteSets, FiniteSetsExt

CONSTANTS Sorts,       \* of "copy", "stable", "inplace"
          Inputs,      \* sequences of keys
          hash64(_),   \* the sampling of parlay/utilities.h
          block_quotient, bucket_quotient, OVER_SAMPLE, sample_blocks,
          Cached,      \* whether the cache-oblivious transpose is used
          TRANS_THRESHOLD, Factor  \* of the counts; Factor times as much of the elements

QuotientsAssumption ==
  /\ {block_quotient, bucket_quotient, OVER_SAMPLE, sample_blocks, TRANS_THRESHOLD, Factor} \subseteq Nat \ {0}
  /\ Cached \in BOOLEAN

VARIABLES sort, keys,   \* the call
          mem,          \* mem[x][i]: the cells of "in", "tmp" and "out"
          pivots,       \* copies of the pivots (not kept by the sort in place)
          counts,       \* counts[block, bucket]; unset until a block has been counted
          dest,         \* dest_offsets[bucket, block], once transposed
          pc, left,     \* the loop, and its iterations that have not run
          offsets       \* bucket_offsets
vars == <<sort, keys, mem, pivots, counts, dest, pc, left, offsets>>

n == Len(keys)
hole == <<>>
unset == -1
less(x, y) == x # hole /\ y # hole /\ x[1] < y[1]
Element(j) == <<keys[j + 1], j>>
Range0(lo, hi) == lo .. hi - 1

\* The sizes, from the length of the input.
Sqrt(x) == CHOOSE r \in 0 .. x : r * r <= x /\ (r + 1) * (r + 1) > x
log2_up(x) == CHOOSE b \in 0 .. x : 2 ^ b >= x /\ \A c \in 0 .. b - 1 : 2 ^ c < x
\* A power of two.
BlocksFor(len, q) == 2 ^ log2_up(Sqrt(len) \div q + 1)
SizeFor(len, blocks) == (len - 1) \div blocks + 1
num_blocks == BlocksFor(n, block_quotient)
block_size == SizeFor(n, num_blocks)
num_buckets == Sqrt(n) \div bucket_quotient + 1
Blocks == Range0(0, num_blocks)
Buckets == Range0(0, num_buckets)
sample_set_size == IF sort = "inplace" THEN sample_blocks * block_size ELSE num_buckets * OVER_SAMPLE
stride == IF sort = "inplace" THEN sample_set_size \div (num_buckets - 1) ELSE OVER_SAMPLE
\* sliced_for makes as many blocks as there is input for.
Sliced == {i \in 0 .. n - 1 : i * block_size < n}
Start(i) == i * block_size
End(i) == Min({Start(i) + block_size, n})

\* What the sorts promise for a sequence: stable, or else any order of equal elements; one
\* of them is taken, equal elements reversed.
InOrder(s, stable) ==
  LET Place(i) == Cardinality({j \in DOMAIN s :
        \/ less(s[j], s[i])
        \/ ~less(s[i], s[j]) /\ (IF stable THEN j < i ELSE j > i)}) + 1
  IN  [k \in DOMAIN s |-> s[CHOOSE i \in DOMAIN s : Place(i) = k]]
Cut(x, lo, hi) == [k \in 1 .. hi - lo |-> mem[x][lo + k - 1]]
\* Cells lo .. of y take the sequence s; the cells of x are left behind, or kept.
Put(m, x, y, lo, s, copy) ==
  [z \in DOMAIN m |-> [i \in DOMAIN m[z] |->
     IF i \notin Range0(lo, lo + Len(s)) THEN m[z][i]
     ELSE IF z = y THEN s[i - lo + 1]
     ELSE IF z = x /\ ~copy THEN hole ELSE m[z][i]]]
Total(f, S) == FoldSet(LAMBDA x, acc : acc + f[x], 0, S)

Init ==
  /\ sort \in Sorts /\ keys \in Inputs
  /\ mem = [x \in {"in", "tmp", "out"} |-> [i \in 0 .. n - 1 |-> IF x = "in" THEN Element(i) ELSE hole]]
  /\ pivots = <<>>
  /\ counts = [ib \in Blocks \X Buckets |-> unset]
  /\ dest = [bi \in Buckets \X Blocks |-> unset]
  /\ pc = "sample" /\ left = {} /\ offsets = <<>>

Call == <<sort, keys>>
Copies == sort # "inplace"
Stable == sort = "stable"
Target == IF Copies THEN "out" ELSE "in"
Loop(name, indices) == pc' = name /\ left' = indices
-----------------------------------------------------------------------------
\* The sample is copied, or swapped to the front and sorted there.
Arrays == [0 .. n - 1 -> Nat \X Nat]
swap[a \in Arrays, i \in Nat, j \in Nat] ==
  [a EXCEPT ![i] = a[j], ![j] = a[i]]
Shuffle[a \in Arrays, i \in Nat] ==
  IF i = sample_set_size THEN a ELSE Shuffle[swap[a, i, i + (hash64(i) % (n - i))], i + 1]
Sample ==
  /\ pc = "sample"
  /\ IF Copies
     THEN LET set == InOrder([i \in 1 .. sample_set_size |-> mem.in[hash64(i - 1) % n]], FALSE)
          IN  /\ pivots' = [i \in 1 .. num_buckets - 1 |-> set[stride * (i - 1) + 1]]
              /\ UNCHANGED mem
     ELSE \E a \in {Shuffle[mem.in, 0]} :
          LET front == InOrder([i \in 1 .. sample_set_size |-> a[i - 1]], FALSE)
          IN  /\ mem' = Put([mem EXCEPT !.in = a], "tmp", "in", 0, front, FALSE)
              /\ UNCHANGED pivots
  /\ Loop("blocks", Sliced)
  /\ UNCHANGED <<Call, counts, dest, offsets>>

\* The pivots of the sort in place are the cells of the sample, which nobody may move yet.
Pivot(i) == IF Copies THEN pivots[i + 1] ELSE mem.in[stride * i]

\* get_bucket_counts for a sorted sequence: bucket b takes what is less than pivot b and not
\* less than the one before; between two equal pivots, what is equal to them.
BucketOf(e) ==
  LET below == {b \in 0 .. num_buckets - 2 : less(Pivot(b), e)}
      equal == {b \in 0 .. num_buckets - 2 : ~less(Pivot(b), e) /\ ~less(e, Pivot(b))}
  IN  Cardinality(below) + (IF equal = {} THEN 0 ELSE 1)
get_bucket_counts(i, s) ==
  [ib \in DOMAIN counts |->
     IF ib[1] # i THEN counts[ib]
     ELSE Cardinality({k \in DOMAIN s : BucketOf(s[k]) = ib[2]})]
\* The blocks of the sample are sorted and stay where they are.
InSample(i) == ~Copies /\ i < sample_blocks
SortBlock(i) ==
  /\ pc = "blocks" /\ i \in left
  /\ LET s == InOrder(Cut("in", Start(i), End(i)), Stable)
     IN  IF InSample(i)
         THEN counts' = get_bucket_counts(i, Cut("in", Start(i), End(i))) /\ UNCHANGED mem
         ELSE counts' = get_bucket_counts(i, s) /\ mem' = Put(mem, "in", "tmp", Start(i), s, Copies)
  /\ IF left # {i} THEN Loop(pc, left \ {i})
     ELSE Loop(IF Copies THEN "transpose" ELSE "move sample", {})
  /\ UNCHANGED <<Call, pivots, dest, offsets>>
MoveSample ==
  /\ pc = "move sample"
  /\ mem' = Put(mem, "in", "tmp", 0, Cut("in", 0, sample_set_size), FALSE)
  /\ Loop("transpose", {})
  /\ UNCHANGED <<Call, pivots, counts, dest, offsets>>
-----------------------------------------------------------------------------
(* transpose_buckets.  A rectangle of blocks and buckets is divided on its   *)
(* longer side until it is small, and the parts run in any order: first for  *)
(* the counts, then for the elements; without that, a loop over the blocks.  *)
Rectangle(r, rc, c, cc) == [r |-> r, rc |-> rc, c |-> c, cc |-> cc]
Whole == Rectangle(0, num_blocks, 0, num_buckets)
\* Divide a rectangle.
Rest(count) == count - count \div 2
Halves(t) ==
  IF t.cc > t.rc
  THEN {[t EXCEPT !.cc = @ \div 2], [t EXCEPT !.c = @ + t.cc \div 2, !.cc = Rest(@)]}
  ELSE {[t EXCEPT !.rc = @ \div 2], [t EXCEPT !.r = @ + t.rc \div 2, !.rc = Rest(@)]}
\* Where block i goes in bucket b: after the buckets before and, in it, the blocks before.
Before(f, b, i) ==
  Total(f, {bi \in DOMAIN f : bi[1] < b \/ (bi[1] = b /\ bi[2] < i)})
Scanned(f) == [bi \in DOMAIN f |-> Before(f, bi[1], bi[2])]
ByBucket == [bi \in Buckets \X Blocks |-> counts[bi[2], bi[1]]]
Transpose ==
  /\ pc = "transpose"
  /\ IF Cached THEN Loop("counts", {Whole}) /\ UNCHANGED dest
     ELSE Loop("elements", {Rectangle(i, 1, 0, num_buckets) : i \in Blocks}) /\ dest' = Scanned(ByBucket)
  /\ UNCHANGED <<Call, mem, pivots, counts, offsets>>
Threshold == IF pc = "counts" THEN TRANS_THRESHOLD ELSE TRANS_THRESHOLD * Factor
Divide(t) ==
  /\ Cached /\ pc \in {"counts", "elements"} /\ t \in left
  /\ t.cc * t.rc >= Threshold
  /\ Loop(pc, (left \ {t}) \cup Halves(t))
  /\ UNCHANGED <<Call, mem, pivots, counts, dest, offsets>>
Entries(t) == Range0(t.r, t.r + t.rc) \X Range0(t.c, t.c + t.cc)
Leaf(t) == t \in left /\ (Cached => t.cc * t.rc < Threshold)
CountsPart(t) ==
  /\ pc = "counts" /\ Leaf(t)
  /\ LET filled == [bi \in DOMAIN dest |-> IF <<bi[2], bi[1]>> \in Entries(t) THEN counts[bi[2], bi[1]] ELSE dest[bi]]
     IN  IF left = {t} THEN dest' = Scanned(filled) /\ Loop("elements", {Whole})
         ELSE dest' = filled /\ Loop(pc, left \ {t})
  /\ UNCHANGED <<Call, mem, pivots, counts, offsets>>
\* Where the elements of block i for bucket b are: after its lower buckets, and the blocks
\* before it.
From(i, b) == Total(counts, {jc \in DOMAIN counts : jc[1] < i \/ (jc[1] = i /\ jc[2] < b)})
ElementsPart(t) ==
  /\ pc = "elements" /\ Leaf(t)
  /\ LET moves == UNION {{<<From(i, b) + k, dest[b, i] + k>> : k \in Range0(0, counts[i, b])}
                           : <<i, b>> \in Entries(t)}
         To(a) == {m \in moves : m[2] = a}
     IN  mem' = [x \in DOMAIN mem |-> [a \in DOMAIN mem[x] |->
           IF x = "tmp" /\ \E m \in moves : m[1] = a THEN hole
           ELSE IF x = Target /\ To(a) # {} THEN mem.tmp[(CHOOSE m \in To(a) : TRUE)[1]]
           ELSE mem[x][a]]]
  /\ IF left = {t}
     THEN /\ Loop("buckets", Buckets)
          /\ offsets' = [b \in 0 .. num_buckets |-> IF b = num_buckets THEN n ELSE dest[b, 0]]
     ELSE Loop(pc, left \ {t}) /\ UNCHANGED offsets
  /\ UNCHANGED <<Call, pivots, counts, dest>>
-----------------------------------------------------------------------------
\* A bucket between equal pivots needs no sort where the pivots are known.
AllEqual(b) == Copies /\ b # 0 /\ b # num_buckets - 1 /\ ~less(pivots[b], pivots[b + 1])
SortBucket(b) ==
  /\ pc = "buckets" /\ b \in left
  /\ mem' = IF AllEqual(b) THEN mem
            ELSE Put(mem, "tmp", Target, offsets[b], InOrder(Cut(Target, offsets[b], offsets[b + 1]), Stable), TRUE)
  /\ IF left = {b} THEN Loop("done", {}) ELSE Loop(pc, left \ {b})
  /\ UNCHANGED <<Call, pivots, counts, dest, offsets>>

Step ==
  \/ Sample \/ MoveSample \/ Transpose
  \/ \E i \in left : SortBlock(i) \/ Divide(i) \/ CountsPart(i) \/ ElementsPart(i) \/ SortBucket(i)
Return == pc = "done" /\ UNCHANGED vars
Next == Step \/ Return
Spec == Init /\ [][Next]_vars /\ WF_vars(Step)
-----------------------------------------------------------------------------
(* Properties *)

(* When the sort returns the target is in order, stably if that was asked    *)
(* for, also where pivots are equal; a copied input is unchanged and the     *)
(* temporary array is empty.                                                 *)
SortedResult ==
  pc = "done" =>
    /\ \A i \in 0 .. n - 1 : mem[Target][i] # hole /\ mem.tmp[i] = hole
    /\ \A i, j \in 0 .. n - 1 : i < j =>
         /\ ~less(mem[Target][j], mem[Target][i])
         /\ (Stable /\ mem[Target][i][1] = mem[Target][j][1]) => mem[Target][i][2] < mem[Target][j][2]
    /\ Copies => \A i \in 0 .. n - 1 : mem.in[i] = Element(i)

(* No object is lost or doubled by the blocks, the transpose or the buckets, *)
(* in any order of their iterations.                                         *)
ObjectsConserved ==
  \A j \in 0 .. n - 1 :
    LET where == {<<x, i>> \in {"in", "tmp", "out"} \X (0 .. n - 1) : mem[x][i] = Element(j)}
    IN  IF Copies
        THEN /\ <<"in", j>> \in where /\ Cardinality(where) <= 2
             /\ pc \notin {"sample", "blocks"} => Cardinality(where) = 2
        ELSE Cardinality(where) = 1

(* While blocks are counted every pivot is there to be compared with: the    *)
(* sort in place reads them from the array it is sorting.                    *)
PivotsStay ==
  pc = "blocks" => \A i \in 0 .. num_buckets - 2 : Pivot(i) # hole

(* The transpose never reads a count that was not written: the blocks that   *)
(* sliced_for makes are all the blocks there are counts for.                 *)
CountsWritten ==
  pc = "transpose" => \A ib \in DOMAIN counts : counts[ib] # unset
=============================================================================
