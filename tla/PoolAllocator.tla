--------------------------- MODULE PoolAllocator ---------------------------
(***************************************************************************)
(* The allocator of blocks of any size (parlay/internal/pool_allocator.h)  *)
(* and its two clients (parlay/alloc.h): allocator<T>, which gives the     *)
(* size back with the block, and p_malloc and p_free, which keep its       *)
(* logarithm and the block's offset in a header before the aligned         *)
(* address.  A size up to max_small goes to the BlockAllocator of its      *)
(* bucket, one up to max_size to a stack of free blocks, a larger one to   *)
(* operator new.  The counters are words of WordSize bits.                 *)
(***************************************************************************)
EXTENDS Integers, Sequences, SequencesExt, FiniteSets, FiniteSetsExt

CONSTANTS sizes,           \* the sizes of the buckets: powers of two, increasing
          large_threshold,
          max_alignment,
          Requests,        \* sizes asked for
          Alignments,      \* alignments asked of p_malloc
          Clients,         \* of {"allocator", "p_malloc"}
          Ids,             \* bound: blocks at a time
          MaxCalls,        \* bound
          WordSize

SizesAssumption == \A i \in 1 .. Len(sizes) - 1 : sizes[i] < sizes[i + 1]

Word(n) == n % 2^WordSize
num_small == Cardinality({i \in DOMAIN sizes : sizes[i] < large_threshold})
max_small == IF num_small > 0 THEN sizes[num_small] ELSE 0
max_size == Last(sizes)
\* Where a block is: with operator new, with a caller, or in the bucket of a number.
new == -1
user == 0

VARIABLES block, \* block[b]: [cap, base, at, n, log_size, offset], the last two the header of p_malloc
          large_allocated, large_used, calls
vars == <<block, large_allocated, large_used, calls>>

Absent == [cap |-> 0, base |-> 0, at |-> new, n |-> 0, log_size |-> 0, offset |-> 0]
Init ==
  /\ block = [b \in Ids |-> Absent]
  /\ large_allocated = 0 /\ large_used = 0 /\ calls = 0
-----------------------------------------------------------------------------
(* The bucket of a size. *)
Bucket(n) == Min({i \in DOMAIN sizes : n <= sizes[i]})
RoundUp(n, a) == IF n % a = 0 THEN n ELSE n + (a - (n % a))
log2_up(n) == CHOOSE k \in 0 .. n : 2^k >= n /\ \A j \in 0 .. k - 1 : 2^j < n

(* Block b, for n bytes: one of the bucket, or new memory.  Blocks of a      *)
(* small bucket lie side by side from an aligned address; base is the        *)
(* address modulo twice the largest alignment.                               *)
Reused(b, n) == n <= max_size /\ block[b].at = Bucket(n)
Fresh(b, n) == block[b].at = new /\ (n <= max_size => \A c \in Ids : block[c].at # Bucket(n))
Capacity(n) == IF n <= max_small THEN sizes[Bucket(n)]
               ELSE RoundUp(IF n <= max_size THEN sizes[Bucket(n)] ELSE n, max_alignment)
Bases(n) == {(i * (IF n <= max_small THEN Capacity(n) ELSE max_alignment)) % (2 * max_alignment) : i \in 0 .. 3}

(* allocate and allocate_large, which return a block at its base. *)
Used(b, n) == Word(large_used + n)
At(b, n) == IF Reused(b, n) THEN {block[b].base} ELSE IF Fresh(b, n) THEN Bases(n) ELSE {}
Count(b, n) ==
  /\ large_used' = IF n > max_small THEN Used(b, n) ELSE large_used
  /\ large_allocated' = IF n > max_small /\ Fresh(b, n) THEN Word(large_allocated + n) ELSE large_allocated
With(b, n, base, log_size, offset) ==
  [cap |-> IF Fresh(b, n) THEN Capacity(n) ELSE block[b].cap, base |-> base, at |-> user, n |-> n,
   log_size |-> log_size, offset |-> offset]
Call == calls < MaxCalls /\ calls' = calls + 1
Allocate(b, n) ==
  /\ "allocator" \in Clients /\ Call
  /\ Count(b, n)
  /\ \E base \in At(b, n) : block' = [block EXCEPT ![b] = With(b, n, base, 0, 0)]

(* deallocate and deallocate_large. *)
Return(b, n) ==
  /\ block' = [block EXCEPT ![b] = IF n > max_size THEN Absent
                                   ELSE [@ EXCEPT !.at = Bucket(n), !.n = 0, !.log_size = 0, !.offset = 0]]
  /\ large_used' = IF n > max_small THEN Word(large_used - n) ELSE large_used
  /\ large_allocated' = IF n > max_size THEN Word(large_allocated - n) ELSE large_allocated
Deallocate(b) ==
  /\ Call /\ block[b].at = user /\ block[b].offset = 0
  /\ Return(b, block[b].n)

(* p_malloc: the padding holds the header and leaves room to align (mutant:  *)
(* it is that of the size, whatever the alignment).                          *)
sizeof_header == 8
alloc_padding_size(n) == IF n >= 1024 THEN 64 ELSE IF n % 16 # 0 THEN 8 ELSE IF n % 64 # 0 THEN 16 ELSE 64
Padding(n, align) == Max({alloc_padding_size(n), align})
Malloc(b, size, align) ==
  LET pad == Padding(size, align)
      n == size + pad IN
  /\ "p_malloc" \in Clients /\ Call
  /\ Count(b, n)
  /\ \E base \in At(b, n) :
       block' = [block EXCEPT ![b] =
                   With(b, n, base, log2_up(n), RoundUp(base + sizeof_header, pad) - base)]
Free(b) ==
  /\ Call /\ block[b].at = user /\ block[b].offset # 0
  /\ Return(b, 2^block[b].log_size)

(* clear gives the free large blocks back. *)
Clear ==
  LET gone == {b \in Ids : block[b].at > num_small} IN
  /\ Call /\ gone # {}
  /\ block' = [b \in Ids |-> IF b \in gone THEN Absent ELSE block[b]]
  /\ large_allocated' = Word(large_allocated - MapThenSumSet(LAMBDA b : sizes[block[b].at], gone))
  /\ UNCHANGED large_used

(* stats: what is used and what is in reserve, here of the large blocks. *)
stats == <<large_used, Word(large_allocated - large_used)>>

Next ==
  \/ \E b \in Ids : \/ \E n \in Requests : Allocate(b, n) \/ \E align \in Alignments : Malloc(b, n, align)
                    \/ Deallocate(b) \/ Free(b)
  \/ Clear
  \/ calls = MaxCalls /\ UNCHANGED vars
Spec == Init /\ [][Next]_vars
-----------------------------------------------------------------------------
(* What a caller has is large enough, the header and the alignment included: *)
(* the header lies within the block and the aligned object does not leave    *)
(* it, wherever the block starts and whatever bucket it comes from. *)
BlocksFit ==
  \A b \in Ids : block[b].at = user =>
    IF block[b].offset = 0 THEN block[b].n <= block[b].cap
    ELSE /\ block[b].offset >= sizeof_header
         /\ \E size \in Requests, align \in Alignments :
              /\ block[b].n = size + Padding(size, align)
              /\ (block[b].base + block[b].offset) % align = 0
              /\ block[b].offset + size <= block[b].cap

(* A bucket holds blocks of its size, although p_free knows only the          *)
(* logarithm of what was asked for: "that is enough information to know       *)
(* which pool it came from". *)
BucketsExact == \A b \in Ids : block[b].at > user => block[b].cap = Capacity(sizes[block[b].at])

(* The first of the stats is the space the callers have asked for and not    *)
(* returned. *)
UsedExact ==
  stats[1] = Word(MapThenSumSet(LAMBDA b : block[b].n,
                                {b \in Ids : block[b].at = user /\ block[b].n > max_small}))
=============================================================================
