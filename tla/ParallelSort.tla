---------------------------- MODULE ParallelSort ----------------------------
(***************************************************************************)
(* The comparison sorts on one slice (parlay/internal/quicksort.h,         *)
(* merge_sort.h, merge.h, bucket_sort.h): every parallel call is a task on *)
(* a range of the slice and of the temporary array of the same length, and *)
(* the tasks run in any order that respects the joins.  An element is      *)
(* <<key, position in the input>>; the order compares keys only.  Elements *)
(* are relocated, never copied: a cell left behind is a hole.              *)
(***************************************************************************)
EXTENDS Integers, Sequences, SequencesExt, FiniteSets, FiniteSetsExt, TLC

CONSTANTS Sorts,            \* the sorts to run: of "quicksort", "merge_sort", "bucket_sort", "stable_bucket_sort"
          Inputs,           \* the inputs, sequences of keys
          hash64(_),        \* the sampling of parlay/utilities.h
          base_case,        \* below it quicksort_serial uses insertion_sort
          QuickBase,        \* below it quicksort is serial
          _merge_base, MERGE_SORT_BASE,
          Bits,             \* bucket_sort_r makes 2^Bits buckets
          BucketBase        \* below it bucket_sort_r uses base_sort

BasesAssumption ==
  /\ {base_case, QuickBase, _merge_base, MERGE_SORT_BASE, Bits, BucketBase} \subseteq Nat
  /\ base_case >= 5 /\ QuickBase >= 5 /\ _merge_base >= 2 /\ MERGE_SORT_BASE >= 2 /\ Bits >= 2

hole == <<0, 0>>
Arrays == {"in", "tmp"}
Other(x) == IF x = "in" THEN "tmp" ELSE "in"
f(x, y) == x[1] < y[1]

VARIABLES sort,   \* which of the sorts
          input,  \* history: the keys that were given
          mem,    \* mem[x][i]: an element or a hole
          tasks   \* the calls that have not been made or have not returned
vars == <<sort, input, mem, tasks>>

n == Len(input)
Cells(lo, hi) == lo .. hi - 1                    \* cells are numbered from 1
Array == Seq(Nat \X Nat)
swap[a \in Array, i \in Nat, j \in Nat] == [a EXCEPT ![i] = a[j], ![j] = a[i]]
-----------------------------------------------------------------------------
(* The serial algorithms, on the array a and its cells from lo on. *)
Sink[a \in Array, lo \in Nat, j \in Nat] ==
  IF j >= lo /\ f(a[j + 1], a[j]) THEN Sink[swap[a, j + 1, j], lo, j - 1] ELSE a
insertion_sort[a \in Array, lo \in Nat, len \in Nat] ==
  IF len <= 1 THEN a ELSE Sink[insertion_sort[a, lo, len - 1], lo, lo + len - 2]

\* Five sampled elements, sorted, at the front.
Sample[a \in Array, lo \in Nat, len \in Nat, i \in Nat] ==
  IF i = 5 THEN a
  ELSE Sample[swap[a, lo + i, lo + i + (hash64(i) % (len - i))], lo, len, i + 1]
sort5(a, lo, len) == insertion_sort[Sample[a, lo, len, 0], lo, 5]

\* The loop of split3, with the pivots in cells lo and lo + 1: below L is less than the
\* first, above R is greater than the second, from L to M between them.
Down(a, lo, R) == Max({r \in lo .. R : ~f(a[lo + 1], a[r])})
Partition[a \in Array, lo \in Nat, L \in Nat, M \in Nat, R \in Nat] ==
  IF M > R THEN [a |-> a, L |-> L, M |-> M, R |-> R]
  ELSE IF f(a[M], a[lo]) THEN Partition[swap[a, M, L], lo, L + 1, M + 1, R]
  ELSE IF f(a[lo + 1], a[M])
    THEN LET low == f(a[R], a[lo])
             b == IF low THEN swap[swap[a, M, R], L, M] ELSE swap[a, M, R]
         IN  Partition[b, lo, IF low THEN L + 1 ELSE L, M + 1, Down(b, lo, R - 1)]
  ELSE Partition[a, lo, L, M + 1, R]

\* The pivots swapped into position.
Settle(p, lo) == swap[swap[swap[p.a, lo + 1, p.L - 1], lo, p.L - 2], p.L - 1, p.R]
Partitions == [a : Array, L : Nat, M : Nat, R : Nat]
Placed[p \in Partitions, lo \in Nat] ==
  [a |-> Settle(p, lo), L |-> p.L - 2, M |-> p.M, equal |-> ~f(p.a[lo], p.a[lo + 1])]
Divide[b \in Array, lo \in Nat, len \in Nat] ==
  LET L == Min({l \in lo + 2 .. lo + len - 1 : ~f(b[l], b[lo])})
  IN  Placed[Partition[b, lo, L, L, Down(b, lo, lo + len - 1)], lo]
split3(a, lo, len) == Divide[swap[swap[sort5(a, lo, len), lo, lo + 1], lo + 1, lo + 3], lo, len]

\* The middle, unless its elements are all equal, then the right part, then on with the left.
quicksort_serial[a \in Array, lo \in Nat, len \in Nat] ==
  IF len < base_case THEN insertion_sort[a, lo, len]
  ELSE LET s == split3(a, lo, len)
           mid == IF s.equal THEN s.a ELSE quicksort_serial[s.a, s.L + 1, s.M - s.L - 1]
       IN  quicksort_serial[quicksort_serial[mid, s.M, lo + len - s.M], lo, s.L - lo]

\* seq_merge: of two equal elements the one of A comes first.
Before(b, a) == f(b, a)
seq_merge[A \in Array, B \in Array] ==
  IF A = <<>> THEN B
  ELSE IF B = <<>> THEN A
  ELSE IF Before(Head(B), Head(A)) THEN <<Head(B)>> \o seq_merge[A, Tail(B)]
  ELSE <<Head(A)>> \o seq_merge[Tail(A), B]

\* The first element of the sorted cells that is not less than v, as the number before it.
binary_search(a, lo, hi, v) == Cardinality({i \in Cells(lo, hi) : f(a[i], v)})
-----------------------------------------------------------------------------
(* bucket_sort: the pivots and the bucket of every element. *)
\* The pivot at a place of the implicit tree over pivots l .. r - 1, whose root is `root`.
to_balanced_tree[pivots \in Array, root \in Nat, l \in Nat, r \in Nat] ==
  LET m == l + (r - l) \div 2
      here == [i \in {root} |-> pivots[m]]
  IN  IF r - l = 1 THEN here
      ELSE here @@ to_balanced_tree[pivots, 2 * root + 1, l, m]
                @@ to_balanced_tree[pivots, 2 * root + 2, m + 1, r]
PivotTrees == [0 .. 2 ^ Bits - 2 -> Nat \X Nat]
Descend[tree \in PivotTrees, x \in Nat \X Nat, j \in Nat, k \in Nat] ==
  IF k = Bits THEN j
  ELSE Descend[tree, x, 1 + 2 * j + (IF f(x, tree[j]) THEN 0 ELSE 1), k + 1]

\* Pivots that are all equal give no buckets: the whole range would be one.
AllEqual(first, last) == ~f(first, last)
get_buckets[a \in Array, lo \in Nat, hi \in Nat] ==
  LET num_buckets == 2 ^ Bits
      sample == [i \in 1 .. num_buckets |-> a[lo + (hash64(i - 1) % (hi - lo))]]
      sorted == quicksort_serial[sample, 1, num_buckets]
      tree == to_balanced_tree[sorted, 0, 2, num_buckets + 1]
  IN  IF AllEqual(sorted[2], sorted[num_buckets]) THEN <<>>
      ELSE [i \in Cells(lo, hi) |-> Descend[tree, a[i], 0, 0] - (num_buckets - 1)]

\* Where radix_step_ puts the element of cell i: after those of lower buckets and, from the
\* last back, before the later ones of its own.
Position(keys, lo, hi, i) ==
  lo + Cardinality({j \in Cells(lo, hi) : keys[j] < keys[i] \/ (keys[j] = keys[i] /\ j < i)})
Starts(keys, lo, hi, b) == lo + Cardinality({j \in Cells(lo, hi) : keys[j] < b})
-----------------------------------------------------------------------------
(* A task: the call, the array its input is in, its range, whether the       *)
(* result goes back to that array, the depth of the call.  A merge also      *)
(* has the ranges of its two inputs.                                         *)
Task(op, x, lo, hi, inplace, depth) ==
  [op |-> op, x |-> x, lo |-> lo, hi |-> hi, inplace |-> inplace, depth |-> depth,
   a |-> <<lo, lo>>, b |-> <<lo, lo>>]
MergeTask(x, a, b, lo, depth) ==
  [op |-> "merge_into", x |-> x, lo |-> lo, hi |-> lo + (a[2] - a[1]) + (b[2] - b[1]),
   inplace |-> FALSE, depth |-> depth, a |-> a, b |-> b]

\* What follows a join waits for the tasks under it (mutant: it does not).
Joins == {"merge", "relocate"}
ReadyBug(t) == TRUE
Ready(t) ==
  t.op \in Joins => ~\E u \in tasks : u.depth > t.depth /\ t.lo <= u.lo /\ u.hi <= t.hi

Init ==
  /\ sort \in Sorts /\ input \in Inputs
  /\ mem = [in |-> [i \in 1 .. Len(input) |-> <<input[i], i>>],
            tmp |-> [i \in 1 .. Len(input) |-> hole]]
  /\ tasks = {Task(sort, "in", 1, Len(input) + 1, TRUE, 0)}

Begin(t, op) == t \in tasks /\ t.op = op /\ Ready(t)
Becomes(t, spawned) == tasks' = (tasks \ {t}) \cup spawned /\ UNCHANGED <<sort, input>>
\* The cells lo .. of array y take the sequence s; the cells of array x are left behind.
Relocate(x, cells, y, lo, s) ==
  mem' = [mem EXCEPT
    ![x] = [i \in DOMAIN @ |-> IF i \in cells THEN hole ELSE @[i]],
    ![y] = [i \in DOMAIN @ |-> IF i \in Cells(lo, lo + Len(s)) THEN s[i - lo + 1] ELSE @[i]]]
Slice(x, lo, hi) == [k \in 1 .. hi - lo |-> mem[x][lo + k - 1]]

quicksort(t) ==
  LET len == t.hi - t.lo
      Sub(lo, hi) == Task("quicksort", t.x, lo, hi, TRUE, t.depth + 1)
  IN
  /\ Begin(t, "quicksort")
  /\ \/ /\ len < QuickBase
        /\ mem' = [mem EXCEPT ![t.x] = quicksort_serial[@, t.lo, len]]
        /\ Becomes(t, {})
     \/ /\ len >= QuickBase
        /\ \E s \in {split3(mem[t.x], t.lo, len)} :
             /\ mem' = [mem EXCEPT ![t.x] = s.a]
             /\ Becomes(t, {Sub(t.lo, s.L), Sub(s.M, t.hi)} \cup
                           (IF s.equal THEN {} ELSE {Sub(s.L + 1, s.M)}))

merge_sort_inplace(t) ==
  /\ Begin(t, "merge_sort")
  /\ IF n <= MERGE_SORT_BASE
     THEN mem' = [mem EXCEPT ![t.x] = insertion_sort[@, 1, n]] /\ Becomes(t, {})
     ELSE Becomes(t, {Task("merge_sort_", t.x, 1, n + 1, TRUE, 1)}) /\ UNCHANGED mem

\* The halves are sorted into the other array.
Inplace(t) == ~t.inplace
merge_sort_(t) ==
  /\ Begin(t, "merge_sort_")
  /\ LET m == t.lo + (t.hi - t.lo) \div 2
         sorted == insertion_sort[mem[t.x], t.lo, t.hi - t.lo]
     IN  \/ /\ t.hi - t.lo < MERGE_SORT_BASE /\ t.inplace
            /\ mem' = [mem EXCEPT ![t.x] = sorted]
            /\ Becomes(t, {})
         \/ /\ t.hi - t.lo < MERGE_SORT_BASE /\ ~t.inplace
            /\ Relocate(t.x, Cells(t.lo, t.hi), Other(t.x), t.lo,
                        [k \in 1 .. t.hi - t.lo |-> sorted[t.lo + k - 1]])
            /\ Becomes(t, {})
         \/ /\ t.hi - t.lo >= MERGE_SORT_BASE
            /\ Becomes(t, {Task("merge_sort_", t.x, t.lo, m, Inplace(t), t.depth + 1),
                           Task("merge_sort_", t.x, m, t.hi, Inplace(t), t.depth + 1),
                           [t EXCEPT !.op = "merge"]})
            /\ UNCHANGED mem
Merge(t) ==
  /\ Begin(t, "merge")
  /\ LET m == t.lo + (t.hi - t.lo) \div 2
     IN  Becomes(t, {MergeTask(IF t.inplace THEN Other(t.x) ELSE t.x,
                               <<t.lo, m>>, <<m, t.hi>>, t.lo, t.depth)})
  /\ UNCHANGED mem

\* Where A is cut: one further when nothing of B goes to the left.
Cut(mA, mB) == IF mB = 0 THEN mA + 1 ELSE mA
merge_into(t) ==
  /\ Begin(t, "merge_into")
  /\ LET nA == t.a[2] - t.a[1]
         nB == t.b[2] - t.b[1]
         A == Slice(t.x, t.a[1], t.a[2])
         B == Slice(t.x, t.b[1], t.b[2])
         read == Cells(t.a[1], t.a[2]) \cup Cells(t.b[1], t.b[2])
         mB == binary_search(mem[t.x], t.b[1], t.b[2], mem[t.x][t.a[1] + nA \div 2])
         mA == Cut(nA \div 2, mB)
     IN  \/ /\ nA + nB < _merge_base
            /\ Relocate(t.x, read, Other(t.x), t.lo, seq_merge[A, B])
            /\ Becomes(t, {})
         \/ /\ nA + nB >= _merge_base /\ (nA = 0 \/ nB = 0)
            /\ Relocate(t.x, read, Other(t.x), t.lo, A \o B)
            /\ Becomes(t, {})
         \/ /\ nA + nB >= _merge_base /\ nA > 0 /\ nB > 0
            /\ Becomes(t, {MergeTask(t.x, <<t.a[1], t.a[1] + mA>>, <<t.b[1], t.b[1] + mB>>,
                                     t.lo, t.depth),
                           MergeTask(t.x, <<t.a[1] + mA, t.a[2]>>, <<t.b[1] + mB, t.b[2]>>,
                                     t.lo + mA + mB, t.depth)})
            /\ UNCHANGED mem

Stable == sort = "stable_bucket_sort"
base_sort(t) ==
  {Task(IF Stable THEN "merge_sort_" ELSE "quicksort", t.x, t.lo, t.hi,
        t.inplace \/ ~Stable, t.depth + 1)}
    \cup (IF Stable \/ t.inplace THEN {} ELSE {[t EXCEPT !.op = "relocate"]})
bucket_sort(t) ==
  /\ t.op \in {"bucket_sort", "stable_bucket_sort"} /\ t \in tasks
  /\ Becomes(t, {Task("bucket_sort_r", "in", 1, n + 1, TRUE, 1)})
  /\ UNCHANGED mem
bucket_sort_r(t) ==
  LET cells == Cells(t.lo, t.hi)
      small == t.hi - t.lo < BucketBase
  IN
  /\ Begin(t, "bucket_sort_r")
  /\ \E keys \in {IF small THEN <<>> ELSE get_buckets[mem[t.x], t.lo, t.hi]} :
       \/ keys = <<>> /\ Becomes(t, base_sort(t)) /\ UNCHANGED mem
       \/ /\ keys # <<>>
          /\ \E s \in {[k \in 1 .. t.hi - t.lo |->
                         mem[t.x][CHOOSE i \in cells : Position(keys, t.lo, t.hi, i) = t.lo + k - 1]]} :
               Relocate(t.x, cells, Other(t.x), t.lo, s)
          /\ Becomes(t, {Task("bucket_sort_r", Other(t.x), Starts(keys, t.lo, t.hi, b),
                              Starts(keys, t.lo, t.hi, b + 1), ~t.inplace, t.depth + 1)
                            : b \in 0 .. 2 ^ Bits - 1})
RelocateBase(t) ==
  /\ Begin(t, "relocate")
  /\ Relocate(t.x, Cells(t.lo, t.hi), Other(t.x), t.lo, Slice(t.x, t.lo, t.hi))
  /\ Becomes(t, {})

Step == \E t \in tasks :
          \/ quicksort(t) \/ merge_sort_inplace(t) \/ merge_sort_(t) \/ Merge(t) \/ merge_into(t)
          \/ bucket_sort(t) \/ bucket_sort_r(t) \/ RelocateBase(t)
Return == tasks = {} /\ UNCHANGED vars
Next == Step \/ Return
Spec == Init /\ [][Next]_vars /\ WF_vars(Step)
-----------------------------------------------------------------------------
(* Properties *)

(* Every element is in exactly one cell of the two arrays whenever a task    *)
(* starts or ends: relocation neither loses nor doubles an object, whatever  *)
(* the order of the tasks.                                                   *)
ObjectsConserved ==
  \A i \in 1 .. n :
    Cardinality({<<x, c>> \in Arrays \X (1 .. n) : mem[x][c] = <<input[i], i>>}) = 1

(* When the sort returns the slice is in order, and equal elements are in    *)
(* the order of the input unless the sort is an unstable one.                *)
SortedStable ==
  tasks = {} => \A i, j \in 1 .. n : i < j =>
    /\ mem.in[i] # hole /\ ~f(mem.in[j], mem.in[i])
    /\ (sort \in {"merge_sort", "stable_bucket_sort"} /\ mem.in[i][1] = mem.in[j][1])
         => mem.in[i][2] < mem.in[j][2]

(* No two tasks that may run at the same time touch the same cell: what the  *)
(* parallel calls of the sorts rely on.                                      *)
Reads(t) ==
  IF t.op # "merge_into" THEN {}
  ELSE {t.x} \X (Cells(t.a[1], t.a[2]) \cup Cells(t.b[1], t.b[2]))
Writes(t) ==
  IF t.op = "merge_into" THEN {Other(t.x)} \X Cells(t.lo, t.hi)
  ELSE IF t.op = "quicksort" THEN {t.x} \X Cells(t.lo, t.hi)
  ELSE Arrays \X Cells(t.lo, t.hi)
RaceFree ==
  \A t, u \in {v \in tasks : Ready(v)} : t # u =>
    /\ Writes(t) \cap (Reads(u) \cup Writes(u)) = {}
    /\ Reads(t) \cap Reads(u) = {}       \* a read relocates

(* Every sort returns: no cut gives back the whole range, whatever the keys. *)
Terminates == <>(tasks = {})
=============================================================================
