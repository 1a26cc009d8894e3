---------------------------- MODULE IntegerSort ----------------------------
(***************************************************************************)
(* The radix sort of parlay (internal/integer_sort.h) on the promise of    *)
(* the counting sort (CountSort): top down on the high bits, in parallel   *)
(* over the buckets, bottom up on a small range.  The output, the          *)
(* temporary and, for a sort in place, the input change roles from level   *)
(* to level; elements are copied out of the input of integer_sort and      *)
(* relocated everywhere else.  An element is <<key, position in the        *)
(* input>>; a cell without one is a hole.                                  *)
(***************************************************************************)
EXTENDS Integers, Sequences, SequencesExt, FiniteSets, FiniteSetsExt

CONSTANTS Calls,      \* of "inplace", "copy", "offsets", "counts"
          Inputs,     \* sequences of keys
          AskedBits,  \* the numbers of bits asked for; 0 takes them from the largest key
          radix,      \* bits of a round and of a level of the recursion
          base_bits,  \* a range of so few bits is sorted by one counting sort
          BASE_CASE_SIZE,
          SEQ_THRESHOLD,        \* count_sort looks for a single bucket only from here on
          trivially_relocatable \* whether the elements are relocated with memcpy

RadixAssumption ==
  /\ radix \in Nat \ {0} /\ base_bits \in Nat /\ base_bits >= radix
  /\ BASE_CASE_SIZE \in Nat /\ SEQ_THRESHOLD \in Nat /\ trivially_relocatable \in BOOLEAN

VARIABLES call, keys,     \* the call
          bits, buckets,  \* its bits, and the buckets whose offsets it returns (0: none)
          mem,            \* mem[x][i]: the cells of "in", "out" and "tmp"
          tasks,          \* the calls of integer_sort_r that have not run
          offsets,        \* the offsets returned
          pc, left,       \* get_counts: the iterations that have not run
          starts, ends
vars == <<call, keys, bits, buckets, mem, tasks, offsets, pc, left, starts, ends>>

n == Len(keys)
hole == <<>>
Cells(t) == t.lo .. t.hi - 1
Element(j) == <<keys[j], j>>
MaxKey == Max({0} \cup Range(keys))
log2_up(x) == CHOOSE b \in 0 .. x : 2 ^ b >= x /\ \A c \in 0 .. b - 1 : 2 ^ c < x

Copies == call # "inplace"
Init ==
  /\ call \in Calls /\ keys \in Inputs
  /\ bits \in {IF b = 0 THEN log2_up(MaxKey + 1) ELSE b : b \in AskedBits} /\ 2 ^ bits > MaxKey
  /\ buckets \in IF call = "offsets" THEN {b \in 1 .. 2 ^ bits : b > MaxKey} ELSE {0}
  /\ call = "offsets" => bits > 0
  /\ mem = [x \in {"in", "out", "tmp"} |-> [j \in 1 .. n |-> IF x = "in" THEN Element(j) ELSE hole]]
  /\ tasks = {[in |-> "in", out |-> "out", tmp |-> IF call = "inplace" THEN "in" ELSE "tmp",
               lo |-> 1, hi |-> n + 1, bits |-> bits, inplace |-> call = "inplace", copy |-> Copies,
               buckets |-> buckets, base |-> 0, top |-> TRUE]}
  /\ offsets = [b \in 0 .. buckets |-> 0]
  /\ pc = "sort" /\ left = {}
  /\ starts = [k \in 0 .. MaxKey |-> 0] /\ ends = [k \in 0 .. MaxKey |-> 0]

Call == <<call, keys, bits, buckets>>
-----------------------------------------------------------------------------
(* What is done with cells. *)
Slice(t, x) == [k \in 1 .. t.hi - t.lo |-> mem[x][t.lo + k - 1]]
Digit(key, shift, b) == (key \div 2 ^ shift) % 2 ^ b
\* A stable order of s by a digit of the keys.
ByDigit(s, shift, b) ==
  LET D(i) == Digit(s[i][1], shift, b)
      Place(i) == Cardinality({j \in DOMAIN s : D(j) < D(i) \/ (D(j) = D(i) /\ j < i)}) + 1
  IN  [k \in DOMAIN s |-> s[CHOOSE i \in DOMAIN s : Place(i) = k]]

\* The cells of y take the sequence s, those of x are left behind unless they are copied.
\* A relocation onto itself is harmless for memcpy, otherwise the object is destroyed.
Moved(m, t, x, y, s, copy) ==
  IF x = y /\ trivially_relocatable THEN m
  ELSE [z \in DOMAIN m |-> [i \in DOMAIN m[z] |->
          IF i \notin Cells(t) THEN m[z][i]
          ELSE IF z = x /\ ~copy THEN hole
          ELSE IF z = y THEN s[i - t.lo + 1]
          ELSE m[z][i]]]

\* The rounds of seq_radix_sort_, from the low bits up.
DigitAt(done, width, left_) == done
RadixRounds[s \in Seq(Nat \X Nat), done \in Nat, left_ \in Nat] ==
  IF left_ = 0 THEN s
  ELSE LET width == Min({radix, left_})
       IN  RadixRounds[ByDigit(s, DigitAt(done, width, left_), width), done + width, left_ - width]

\* seq_radix_sort: in place through Out; or to Out, with the rounds between Out and Tmp. An
\* odd number of rounds starts in Out, an even one in Tmp.
Odd(b) == ((b - 1) \div radix) % 2 = 1
Result(t) == IF t.inplace THEN t.in ELSE t.out
seq_radix_sort(t) ==
  LET first == IF Odd(t.bits) THEN t.tmp ELSE t.out
      begun == IF t.inplace THEN mem ELSE Moved(mem, t, t.in, first, Slice(t, t.in), t.copy)
      from == IF t.inplace THEN t.in ELSE first
      whole == \A i \in Cells(t) : begun[from][i] # hole
      sorted == RadixRounds[[k \in 1 .. t.hi - t.lo |-> begun[from][t.lo + k - 1]], 0, t.bits]
  IN  IF t.lo = t.hi \/ ~whole THEN begun
      ELSE [z \in DOMAIN mem |-> [i \in DOMAIN mem[z] |->
              IF i \notin Cells(t) THEN begun[z][i]
              ELSE IF z = Result(t) THEN sorted[i - t.lo + 1]
              ELSE IF z = from \/ (~t.inplace /\ z \in {t.out, t.tmp}) THEN hole
              ELSE begun[z][i]]]
-----------------------------------------------------------------------------
(* integer_sort_r, one action for each of its cases. *)
Becomes(t, spawned) == tasks' = (tasks \ {t}) \cup spawned
KeysDone == UNCHANGED <<Call, pc, left, starts, ends>>
Size(t) == t.hi - t.lo

\* No bits left: the range is sorted, and moved if it is not to stay.
NoBits(t) ==
  /\ t.bits = 0
  /\ mem' = IF t.inplace THEN mem ELSE Moved(mem, t, t.in, t.out, Slice(t, t.in), t.copy)
  /\ Becomes(t, {}) /\ UNCHANGED offsets /\ KeysDone

\* A small range, or (below the top) one that gets too small a share of the parallelism.
Small(t) ==
  /\ t.bits > 0 /\ t.buckets = 0 /\ (Size(t) < BASE_CASE_SIZE \/ ~t.top)
  /\ mem' = seq_radix_sort(t)
  /\ Becomes(t, {}) /\ UNCHANGED offsets /\ KeysDone

Large(t) == t.bits > 0 /\ (Size(t) >= BASE_CASE_SIZE \/ t.buckets > 0)
\* The offset in the range of the first key whose digit is at least d.
Offset(t, shift, b, d) ==
  t.lo - 1 + Cardinality({i \in Cells(t) : Digit(mem[t.in][i][1], shift, b) < d})
OneBucket(t, shift, b) ==
  /\ Size(t) >= SEQ_THRESHOLD /\ Size(t) > 0
  /\ \A i, j \in Cells(t) : Digit(mem[t.in][i][1], shift, b) = Digit(mem[t.in][j][1], shift, b)

\* Few bits: one counting sort, and back if it is to stay.
FewBits(t) ==
  /\ Large(t) /\ t.bits <= base_bits
  /\ LET sorted == ByDigit(Slice(t, t.in), 0, t.bits)
         there == Moved(mem, t, t.in, t.out, sorted, t.copy)
     IN  mem' = IF ~t.inplace THEN there
                ELSE IF OneBucket(t, 0, t.bits) THEN mem
                ELSE Moved(there, t, t.out, t.in, sorted, FALSE)
  /\ offsets' = [b \in DOMAIN offsets |->
       IF t.buckets > 0 /\ b >= t.base /\ b < Min({t.base + t.buckets, buckets})
       THEN Offset(t, 0, t.bits, b - t.base)
       ELSE IF t.buckets > 0 /\ b = buckets THEN n ELSE offsets[b]]
  /\ Becomes(t, {}) /\ KeysDone

\* Divide on the high bits; the buckets are sorted back and forth between Out and Tmp.
\* Only the first level copies (mutant: the levels below it too).
Shift(t) == t.bits - radix
BelowCopies(t) == FALSE
Bucket(t, d) ==
  LET inner == IF t.buckets > 0 THEN 2 ^ Shift(t) ELSE 0
      start == Min({d * inner, t.buckets})
      end == Min({(d + 1) * inner, t.buckets})
  IN  [in |-> t.out, out |-> t.tmp, tmp |-> t.out,
       lo |-> Offset(t, Shift(t), radix, d) + 1, hi |-> Offset(t, Shift(t), radix, d + 1) + 1,
       bits |-> Shift(t), inplace |-> ~t.inplace, copy |-> BelowCopies(t),
       buckets |-> inner, base |-> t.base + start, top |-> FALSE]
\* A sort that returns offsets is not skipped.
MaySkip(t) == t.buckets = 0
Skip(t) ==
  /\ Large(t) /\ t.bits > base_bits /\ MaySkip(t) /\ OneBucket(t, Shift(t), radix)
  /\ Becomes(t, {[t EXCEPT !.bits = Shift(t), !.buckets = 0]})
  /\ UNCHANGED <<mem, offsets>> /\ KeysDone
Recursive(t) ==
  /\ Large(t) /\ t.bits > base_bits /\ ~(MaySkip(t) /\ OneBucket(t, Shift(t), radix))
  /\ mem' = Moved(mem, t, t.in, t.out, ByDigit(Slice(t, t.in), Shift(t), radix), t.copy)
  /\ offsets' = IF t.buckets > 0 THEN [offsets EXCEPT ![buckets] = n] ELSE offsets
  /\ Becomes(t, {Bucket(t, d) : d \in 0 .. 2 ^ radix - 1}) /\ KeysDone

integer_sort_r(t) == NoBits(t) \/ Small(t) \/ FewBits(t) \/ Skip(t) \/ Recursive(t)
-----------------------------------------------------------------------------
(* get_counts, on the sorted output: the iterations in any order. *)
At(i) == mem.out[i][1]
Sorted ==
  /\ pc = "sort" /\ tasks = {}
  /\ IF call = "counts" /\ n > 1 THEN pc' = "get_counts" /\ left' = 1 .. n - 1
     ELSE pc' = "last" /\ left' = {}
  /\ UNCHANGED <<Call, mem, tasks, offsets, starts, ends>>
\* Where two neighbours differ.
End(i) == i
Boundary(i) ==
  /\ pc = "get_counts" /\ i \in left
  /\ IF At(i) # At(i + 1)
     THEN starts' = [starts EXCEPT ![At(i + 1)] = i] /\ ends' = [ends EXCEPT ![At(i)] = End(i)]
     ELSE UNCHANGED <<starts, ends>>
  /\ left' = left \ {i} /\ pc' = IF left = {i} THEN "last" ELSE pc
  /\ UNCHANGED <<Call, mem, tasks, offsets>>
LastCount ==
  /\ pc = "last"
  /\ ends' = IF call = "counts" /\ n > 0 THEN [ends EXCEPT ![At(n)] = n] ELSE ends
  /\ pc' = "returned"
  /\ UNCHANGED <<Call, mem, tasks, offsets, left, starts>>
get_counts == [k \in DOMAIN ends |-> ends[k] - starts[k]]

Step == (\E t \in tasks : integer_sort_r(t)) \/ Sorted \/ (\E i \in left : Boundary(i)) \/ LastCount
Return == pc = "returned" /\ UNCHANGED vars
Next == Step \/ Return
Spec == Init /\ [][Next]_vars /\ WF_vars(Step)
-----------------------------------------------------------------------------
(* Properties *)

(* The postconditions of integer_sort_r at the end of the call: the result   *)
(* is sorted and stable, a copied input is unchanged, and everything else is *)
(* uninitialized, whatever roles the arrays had on the way.                  *)
Postconditions ==
  (pc = "sort" /\ tasks = {}) =>
    LET result == IF Copies THEN "out" ELSE "in"
        order == {<<i, j>> \in (1 .. n) \X (1 .. n) : i < j}
    IN  /\ \A i \in 1 .. n : \E j \in 1 .. n : mem[result][i] = Element(j)
        /\ \A <<i, j>> \in order :
             LET a == mem[result][i]
                 b == mem[result][j]
             IN  a[1] < b[1] \/ (a[1] = b[1] /\ a[2] < b[2])
        /\ \A x \in {"in", "out", "tmp"} \ {result} : \A i \in 1 .. n :
             mem[x][i] = IF x = "in" THEN Element(i) ELSE hole

(* No object is lost or doubled while the buckets are sorted in any order:   *)
(* every element is in one cell besides the copied input.                    *)
ObjectsConserved ==
  \A j \in 1 .. n :
    LET where == {<<x, i>> \in {"in", "out", "tmp"} \X (1 .. n) : mem[x][i] = Element(j)}
    IN  IF Copies THEN <<"in", j>> \in where /\ Cardinality(where) <= 2
        ELSE Cardinality(where) = 1

(* The offsets that are returned delimit the keys, also when the number of   *)
(* buckets cuts a level of the recursion short.                              *)
OffsetsExact ==
  (call = "offsets" /\ pc = "returned") =>
    \A b \in 0 .. buckets : offsets[b] = Cardinality({j \in 1 .. n : keys[j] < b})

(* The counts of integer_sort_with_counts are those of the keys.             *)
CountsExact ==
  (call = "counts" /\ pc = "returned") =>
    \A k \in DOMAIN ends : get_counts[k] = Cardinality({j \in 1 .. n : keys[j] = k})
=============================================================================
