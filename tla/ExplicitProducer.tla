--------------------------- MODULE ExplicitProducer ---------------------------
(***************************************************************************)
(* ExplicitProducer of lib/moodycamel/concurrentqueue.h: the sub-queue of   *)
(* one producer token. The producer thread owns a ring of blocks and an     *)
(* index of them that consumers search; consumers claim elements by         *)
(* counters only.                                                           *)
(*                                                                         *)
(* enqueue(e) makes the steps of enqueue_bulk(1), and dequeue those of      *)
(* dequeue_bulk(1), so each pair is one set of actions. The producer's own  *)
(* bookkeeping between two stores that consumers can see is one step; each  *)
(* atomic access of a consumer is one. Memory is sequentially consistent.   *)
(* The elements are numbered in the order they are enqueued.                *)
(***************************************************************************)
EXTENDS Integers, FiniteSets, Sequences

CONSTANTS Consumers, Blocks, nullptr,
          BlockSize, IndexSize,  \* BLOCK_SIZE, EXPLICIT_INITIAL_INDEX_SIZE
          Mod,                   \* 2^(bits of index_t)
          Start, Vain,           \* elements that went through before, one at a time,
                                 \* and elements counted in vain before
          MaxVain,               \* bound: how many more are counted in vain
          Elements,              \* how many more are enqueued
          EnqueueSizes, DequeueSizes, \* the counts passed to the bulk operations
          MayFail, MayThrow      \* allocations may fail; constructors may throw

ExplicitAssumption ==
  /\ nullptr \notin Blocks /\ BlockSize > 1 /\ IndexSize > 1
  /\ Start \in Nat /\ Start % BlockSize = 0 /\ Vain \in 0 .. Mod - 1 /\ Mod > 2 * BlockSize

VARIABLES tailIndex, headIndex, dequeueOptimisticCount, dequeueOvercommit,
          block,      \* block[b]: elements, emptyFlags, next
          indices,    \* every block index allocated; blockIndex is the last
          pr,         \* the producer's own fields and the locals of its call
          pc, con,    \* the consumers' program counters and locals
          sent,       \* how many elements have been enqueued (history)
          got         \* got[c]: the elements c has dequeued (history)

vars == <<tailIndex, headIndex, dequeueOptimisticCount, dequeueOvercommit,
          block, indices, pr, pc, con, sent, got>>
counters == <<tailIndex, headIndex, dequeueOptimisticCount, dequeueOvercommit>>

Junk == 0      \* raw memory: not constructed yet, or destroyed
Slots == 0 .. BlockSize - 1
Plus(a, b) == (a + b) % Mod
Minus(a, b) == (a - b) % Mod
circular_less_than(a, b) == Minus(a, b) > Mod \div 2
Base(i) == i - (i % BlockSize)
Least(a, b) == IF a < b THEN a ELSE b

blockIndex == Len(indices)
Current == indices[blockIndex]
Unset == [base |-> 0, block |-> nullptr]
Index(n, f, e) == [size |-> n, front |-> f, entries |-> e]

Idle == [op |-> "idle", count |-> 0, diff |-> 0, cur |-> 0, startBlock |-> nullptr,
         origFront |-> 0, origSlots |-> 0, firstAlloc |-> nullptr]
Out == [max |-> 0, over |-> 0, tail |-> 0, want |-> 0, mine |-> 0, n |-> 0,
        index |-> 0, local |-> 0, front |-> 0, slot |-> 0, block |-> nullptr]

(* The constructor; and, for Start > 0, what passing Start elements one by  *)
(* one through the only block leaves behind. *)
Init ==
  LET b == CHOOSE x \in Blocks : TRUE
      k == Start \div BlockSize   \* how often the block was put on the index
      first == {i \in 0 .. IndexSize - 1 : i < k} IN
  /\ tailIndex = Start % Mod /\ headIndex = tailIndex
  /\ dequeueOptimisticCount = Plus(Start, Vain) /\ dequeueOvercommit = Vain
  /\ block = [x \in Blocks |->
       [elements |-> [i \in Slots |-> Junk], emptyFlags |-> [i \in Slots |-> k > 0 /\ x = b],
        next |-> IF k > 0 /\ x = b THEN b ELSE nullptr]]
  /\ indices = <<Index(IndexSize, IF k = 0 THEN -1 ELSE (k - 1) % IndexSize,
       [i \in 0 .. IndexSize - 1 |->
          IF i \notin first THEN Unset
          ELSE [base |-> (BlockSize * (k - 1 - ((k - 1 - i) % IndexSize))) % Mod, block |-> b]])>>
  /\ pr = [fields |-> [tailBlock |-> IF k = 0 THEN nullptr ELSE b, slotsUsed |-> IF k = 0 THEN 0 ELSE 1,
                       front |-> k % IndexSize, size |-> IndexSize],
           call |-> Idle]
  /\ pc = [c \in Consumers |-> "idle"] /\ con = [c \in Consumers |-> Out]
  /\ sent = 0 /\ got = [c \in Consumers |-> <<>>]
-----------------------------------------------------------------------------
(* The producer *)
My == pr.fields
Call == pr.call
IsEmpty(b) == \A i \in Slots : block[b].emptyFlags[i]

(* enqueue_bulk: how many blocks the elements reach into beyond the one the *)
(* last element is in. *)
EnqueueBulk(count) ==
  LET before == Base(Minus(tailIndex, 1)) IN
  /\ Call.op = "idle" /\ sent + count <= Elements
  /\ pr' = [pr EXCEPT !.call =
       [op |-> "ahead", count |-> count,
        diff |-> Minus(Base((tailIndex + count - 1) % Mod), before), cur |-> before,
        startBlock |-> My.tailBlock, origFront |-> My.front, origSlots |-> My.slotsUsed,
        firstAlloc |-> nullptr]]
  /\ UNCHANGED <<counters, block, indices, pc, con, sent, got>>
Enqueue == EnqueueBulk(1)

(* Put block b on the index, for the elements from base on. *)
WithEntry(ixs, base, b) ==
  [ixs EXCEPT ![Len(ixs)].entries[My.front] = [base |-> base, block |-> b]]
Advance(f) == (f + 1) % My.size

(* Reuse the block ahead when it is empty; it needs no further slot. *)
CanReuse ==
  /\ Call.diff > 0 /\ My.tailBlock # nullptr
  /\ block[My.tailBlock].next # Call.firstAlloc /\ IsEmpty(block[My.tailBlock].next)
ReuseBug ==
  LET b == block[My.tailBlock].next IN
  /\ Call.op = "ahead" /\ Call.diff > 0 /\ My.tailBlock # nullptr /\ b # Call.firstAlloc
  /\ indices' = WithEntry(indices, Plus(Call.cur, BlockSize), b)
  /\ pr' = [fields |-> [My EXCEPT !.tailBlock = b, !.front = Advance(@)],
            call |-> [Call EXCEPT !.diff = @ - BlockSize, !.cur = Plus(@, BlockSize),
                                  !.firstAlloc = IF @ = nullptr THEN b ELSE @]]
  /\ UNCHANGED <<counters, block, pc, con, sent, got>>
Reuse ==
  LET b == block[My.tailBlock].next IN
  /\ Call.op = "ahead" /\ CanReuse
  /\ indices' = WithEntry(indices, Plus(Call.cur, BlockSize), b)
  /\ pr' = [fields |-> [My EXCEPT !.tailBlock = b, !.front = Advance(@)],
            call |-> [Call EXCEPT !.diff = @ - BlockSize, !.cur = Plus(@, BlockSize),
                                  !.firstAlloc = IF @ = nullptr THEN b ELSE @]]
  /\ UNCHANGED <<counters, block, pc, con, sent, got>>

NoneAhead ==
  /\ Call.op = "ahead" /\ ~CanReuse
  /\ pr' = [pr EXCEPT !.call.op = IF Call.diff > 0 THEN "pool"
                                  ELSE IF Call.firstAlloc = nullptr THEN "fill" ELSE "reset"]
  /\ UNCHANGED <<counters, block, indices, pc, con, sent, got>>

(* Not enough leeway: the tail could lap the head. *)
Full == ~circular_less_than(headIndex, Plus(Call.cur, 2 * BlockSize))

(* Failed: undo the changes, but keep the injected blocks. *)
Undone ==
  [fields |-> [My EXCEPT !.front = Call.origFront, !.slotsUsed = Call.origSlots,
                         !.tailBlock = IF Call.startBlock = nullptr THEN Call.firstAlloc
                                       ELSE Call.startBlock],
   call |-> Idle]
NeedsIndex == My.slotsUsed = My.size
Fail ==
  /\ Call.op = "pool" /\ Call.diff > 0
  /\ \/ Full
     \/ MayFail
     \/ ~NeedsIndex /\ \A b \in Blocks : block[b].next # nullptr
  /\ pr' = Undone
  /\ UNCHANGED <<counters, block, indices, pc, con, sent, got>>

(* new_block_index: an index of twice the size, with the used slots of the  *)
(* old one copied to its beginning, is published. *)
NewIndex(expose) ==
  LET used(j) == Current.entries[(My.front - My.slotsUsed + j) % My.size]
  IN  Index(2 * My.size, expose - 1,
            [j \in 0 .. 2 * My.size - 1 |-> IF j < My.slotsUsed THEN used(j) ELSE Unset])
Grow ==
  /\ Call.op = "pool" /\ Call.diff > 0 /\ ~Full /\ NeedsIndex
  /\ indices' = Append(indices, NewIndex(Call.origSlots))
  /\ pr' = [fields |-> [My EXCEPT !.size = 2 * @, !.front = My.slotsUsed],
            call |-> [Call EXCEPT !.origFront = Call.origSlots]]
  /\ UNCHANGED <<counters, block, pc, con, sent, got>>

(* requisition_block, then link the block into the ring behind the tail     *)
(* block, all empty until the whole operation is sure to succeed. *)
Insert(b) ==
  [block EXCEPT
     ![b].emptyFlags = [i \in Slots |-> TRUE],
     ![b].next = IF My.tailBlock = nullptr THEN b ELSE block[My.tailBlock].next,
     ![IF My.tailBlock = nullptr THEN b ELSE My.tailBlock].next = b]
LinkBlock ==
  LET fresh == {x \in Blocks : block[x].next = nullptr}
      b == CHOOSE x \in fresh : TRUE IN   \* one unused block is like another
  /\ Call.op = "pool" /\ Call.diff > 0 /\ ~Full /\ ~NeedsIndex /\ fresh # {}
  /\ block' = Insert(b)
  /\ indices' = WithEntry(indices, Plus(Call.cur, BlockSize), b)
  /\ pr' = [fields |-> [My EXCEPT !.tailBlock = b, !.slotsUsed = @ + 1, !.front = Advance(@)],
            call |-> [Call EXCEPT !.diff = @ - BlockSize, !.cur = Plus(@, BlockSize),
                                  !.firstAlloc = IF @ = nullptr THEN b ELSE @]]
  /\ UNCHANGED <<counters, pc, con, sent, got>>

Allocated ==
  /\ Call.op = "pool" /\ Call.diff = 0
  /\ pr' = [pr EXCEPT !.call.op = "reset"]
  /\ UNCHANGED <<counters, block, indices, pc, con, sent, got>>

(* The k-th block behind b in the ring. *)
NthNext(b, k) ==
  LET f[i \in 0 .. k] == IF i = 0 THEN b ELSE block[f[i - 1]].next IN f[k]
NewBlocks ==
  LET last == CHOOSE k \in 0 .. Cardinality(Blocks) :
                NthNext(Call.firstAlloc, k) = My.tailBlock
                /\ \A j \in 0 .. k - 1 : NthNext(Call.firstAlloc, j) # My.tailBlock
  IN  {NthNext(Call.firstAlloc, k) : k \in 0 .. last}

(* reset_empty on every block that is to be filled. *)
Reset ==
  /\ Call.op = "reset"
  /\ block' = [b \in Blocks |->
       IF b \in NewBlocks THEN [block[b] EXCEPT !.emptyFlags = [i \in Slots |-> FALSE]] ELSE block[b]]
  /\ pr' = [pr EXCEPT !.call.op = IF MayThrow THEN "fill" ELSE "front"]
  /\ UNCHANGED <<counters, indices, pc, con, sent, got>>

(* The front of the index is published before the elements are constructed, *)
(* or, if a constructor may throw, after. *)
PublishFront ==
  /\ Call.op = "front"
  /\ indices' = [indices EXCEPT ![blockIndex].front = (My.front - 1) % My.size]
  /\ pr' = [pr EXCEPT !.call.op = IF MayThrow THEN "tail" ELSE "fill"]
  /\ UNCHANGED <<counters, block, pc, con, sent, got>>

(* The block the j-th element of the operation goes to: the ring is walked  *)
(* from the start block, or from the first new one at a block boundary. *)
FillBlock(j) ==
  IF tailIndex % BlockSize = 0 THEN NthNext(Call.firstAlloc, (j - 1) \div BlockSize)
  ELSE NthNext(Call.startBlock, ((tailIndex % BlockSize) + j - 1) \div BlockSize)
Fill ==
  /\ Call.op = "fill"
  /\ block' = [b \in Blocks |-> [block[b] EXCEPT !.elements =
       [i \in Slots |->
          LET here == {j \in 1 .. Call.count : FillBlock(j) = b /\ (tailIndex + j - 1) % BlockSize = i}
          IN  IF here = {} THEN @[i] ELSE sent + CHOOSE j \in here : TRUE]]]
  /\ pr' = [pr EXCEPT !.call.op = IF MayThrow /\ Call.firstAlloc # nullptr THEN "front" ELSE "tail"]
  /\ UNCHANGED <<counters, indices, pc, con, sent, got>>

(* A constructor throws: what was constructed is destroyed and the whole    *)
(* operation reverted; the blocks stay in the ring. *)
Throw ==
  /\ Call.op = "fill" /\ MayThrow
  /\ pr' = Undone
  /\ UNCHANGED <<counters, block, indices, pc, con, sent, got>>

StoreTail ==
  /\ Call.op = "tail"
  /\ tailIndex' = Plus(tailIndex, Call.count)
  /\ sent' = sent + Call.count
  /\ pr' = [pr EXCEPT !.call = Idle]
  /\ UNCHANGED <<headIndex, dequeueOptimisticCount, dequeueOvercommit, block, indices, pc, con, got>>

ProducerStep ==
  \/ Reuse \/ NoneAhead \/ Fail \/ Grow \/ LinkBlock \/ Allocated
  \/ Reset \/ PublishFront \/ Fill \/ Throw \/ StoreTail
Produce == \/ Enqueue
           \/ \E n \in EnqueueSizes \ {1} : EnqueueBulk(n)
           \/ ProducerStep
-----------------------------------------------------------------------------
(* The consumers *)
Go(c, from, to) == pc[c] = from /\ pc' = [pc EXCEPT ![c] = to]

DequeueBulk(c, max) ==
  /\ Go(c, "idle", "load") /\ Minus(dequeueOvercommit, Vain) < MaxVain
  /\ con' = [con EXCEPT ![c] = [Out EXCEPT !.max = max, !.tail = tailIndex]]
  /\ UNCHANGED <<counters, block, indices, pr, sent, got>>
Dequeue(c) == DequeueBulk(c, 1)

LoadOvercommit(c) ==
  /\ Go(c, "load", "test")
  /\ con' = [con EXCEPT ![c].over = dequeueOvercommit]
  /\ UNCHANGED <<counters, block, indices, pr, sent, got>>

(* Is there anything, by the counters read? *)
Test(c) ==
  LET desired == Minus(con[c].tail, Minus(dequeueOptimisticCount, con[c].over))
      yes == circular_less_than(0, desired) IN
  /\ Go(c, "test", IF yes THEN "inc" ELSE "idle")
  /\ con' = [con EXCEPT ![c] =
       IF yes THEN [@ EXCEPT !.want = Least(desired, con[c].max), !.tail = 0] ELSE Out]
  /\ UNCHANGED <<counters, block, indices, pr, sent, got>>

Optimistic(c) ==
  /\ Go(c, "inc", "check")
  /\ con' = [con EXCEPT ![c].mine = dequeueOptimisticCount]
  /\ dequeueOptimisticCount' = Plus(dequeueOptimisticCount, con[c].want)
  /\ UNCHANGED <<tailIndex, headIndex, dequeueOvercommit, block, indices, pr, sent, got>>

(* The tail again, against the count this call has incremented from. *)
Check(c) ==
  LET actual == Minus(tailIndex, Minus(con[c].mine, con[c].over))
      n == IF circular_less_than(0, actual) THEN Least(con[c].want, actual) ELSE 0 IN
  /\ Go(c, "check", IF n = con[c].want THEN "claim" ELSE "over")
  /\ con' = [con EXCEPT ![c].n = n]
  /\ UNCHANGED <<counters, block, indices, pr, sent, got>>

(* Give back what was counted in vain. *)
Overcommit(c) ==
  /\ Go(c, "over", IF con[c].n > 0 THEN "claim" ELSE "idle")
  /\ con' = [con EXCEPT ![c] = IF @.n > 0 THEN @ ELSE Out]
  /\ dequeueOvercommit' = Plus(dequeueOvercommit, con[c].want - con[c].n)
  /\ UNCHANGED <<tailIndex, headIndex, dequeueOptimisticCount, block, indices, pr, sent, got>>

ClaimBug(c) ==
  /\ Go(c, "claim", "index")
  /\ con' = [con EXCEPT ![c] = [Out EXCEPT !.n = con[c].n,
       !.index = Minus(con[c].mine, con[c].over)]]
  /\ headIndex' = Plus(headIndex, con[c].n)
  /\ UNCHANGED <<tailIndex, dequeueOptimisticCount, dequeueOvercommit, block, indices, pr, sent, got>>
Claim(c) ==
  /\ Go(c, "claim", "index")
  /\ con' = [con EXCEPT ![c] = [Out EXCEPT !.n = con[c].n, !.index = headIndex]]
  /\ headIndex' = Plus(headIndex, con[c].n)
  /\ UNCHANGED <<tailIndex, dequeueOptimisticCount, dequeueOvercommit, block, indices, pr, sent, got>>

LoadIndex(c) ==
  /\ Go(c, "index", "front")
  /\ con' = [con EXCEPT ![c].local = blockIndex]
  /\ UNCHANGED <<counters, block, indices, pr, sent, got>>
LoadFront(c) ==
  /\ Go(c, "front", "locate")
  /\ con' = [con EXCEPT ![c].front = indices[con[c].local].front]
  /\ UNCHANGED <<counters, block, indices, pr, sent, got>>

(* The slot of the block of element i, from the base of the front block;    *)
(* the distance is a signed number of blocks. *)
Signed(d) == IF d >= Mod \div 2 THEN d - Mod ELSE d
SlotOf(ix, f, i) == (f + (Signed(Minus(Base(i), ix.entries[f].base)) \div BlockSize)) % ix.size
Locate(c) ==
  /\ Go(c, "locate", "read")
  /\ con' = [con EXCEPT ![c].slot = SlotOf(indices[con[c].local], con[c].front, con[c].index)]
  /\ UNCHANGED <<counters, block, indices, pr, sent, got>>

(* The elements of this call that are in the block it has come to. *)
InBlock(c) == Least(con[c].n, BlockSize - (con[c].index % BlockSize))
Read(c) ==
  LET b == indices[con[c].local].entries[con[c].slot].block
      at(j) == (con[c].index + j - 1) % BlockSize IN
  /\ Go(c, "read", "empty")
  /\ got' = [got EXCEPT ![c] = @ \o [j \in 1 .. InBlock(c) |-> block[b].elements[at(j)]]]
  /\ block' = [block EXCEPT ![b].elements =
       [i \in Slots |-> IF \E j \in 1 .. InBlock(c) : at(j) = i THEN Junk ELSE @[i]]]
  /\ con' = [con EXCEPT ![c].block = b]
  /\ UNCHANGED <<counters, indices, pr, sent>>

(* set_empty / set_many_empty, then on to the next block's slot. *)
SetEmpty(c) ==
  LET n == InBlock(c)
      more == con[c].n > n
      at(j) == (con[c].index + j - 1) % BlockSize IN
  /\ Go(c, "empty", IF more THEN "read" ELSE "idle")
  /\ block' = [block EXCEPT ![con[c].block].emptyFlags =
       [i \in Slots |-> @[i] \/ \E j \in 1 .. n : at(j) = i]]
  /\ con' = [con EXCEPT ![c] =
       IF more THEN [@ EXCEPT !.n = @ - n, !.index = Plus(@, n),
                              !.slot = (@ + 1) % indices[con[c].local].size]
       ELSE Out]
  /\ UNCHANGED <<counters, indices, pr, sent, got>>

ConsumerStep(c) ==
  \/ LoadOvercommit(c) \/ Test(c) \/ Optimistic(c) \/ Check(c) \/ Overcommit(c) \/ Claim(c)
  \/ LoadIndex(c) \/ LoadFront(c) \/ Locate(c) \/ Read(c) \/ SetEmpty(c)
Consume(c) == \/ Dequeue(c)
              \/ \E n \in DequeueSizes \ {1} : DequeueBulk(c, n)
              \/ ConsumerStep(c)

Next == Produce \/ \E c \in Consumers : Consume(c)
Spec == Init /\ [][Next]_vars
-----------------------------------------------------------------------------
TypeOK ==
  /\ \A x \in {tailIndex, headIndex, dequeueOptimisticCount, dequeueOvercommit} : x \in 0 .. Mod - 1
  /\ \A b \in Blocks :
       /\ block[b].elements \in [Slots -> 0 .. Elements]
       /\ block[b].emptyFlags \in [Slots -> BOOLEAN]
       /\ block[b].next \in Blocks \cup {nullptr}
  /\ \A k \in 1 .. blockIndex : indices[k].entries \in
       [0 .. indices[k].size - 1 -> [base : 0 .. Mod - 1, block : Blocks \cup {nullptr}]]
  /\ My.slotsUsed \in 0 .. My.size /\ My.front \in 0 .. My.size - 1
  /\ pc \in [Consumers -> {"idle", "load", "test", "inc", "check", "over", "claim",
                            "index", "front", "locate", "read", "empty"}]
  /\ sent \in 0 .. Elements

ToSet(s) == {s[i] : i \in DOMAIN s}
Sum(f) == LET g[s \in SUBSET Consumers] ==
                IF s = {} THEN 0 ELSE LET c == CHOOSE x \in s : TRUE IN f[c] + g[s \ {c}]
          IN  g[Consumers]

(* Each element is dequeued once, fully constructed, and a consumer gets    *)
(* the elements in the order they were enqueued, whichever blocks and       *)
(* indices it finds them through. *)
DequeuedOnceInOrder ==
  \A c \in Consumers :
    /\ \A i \in DOMAIN got[c] : got[c][i] \in 1 .. sent /\ (i > 1 => got[c][i - 1] < got[c][i])
    /\ \A d \in Consumers \ {c} : ToSet(got[c]) \cap ToSet(got[d]) = {}

(* "Since there's guaranteed to be at least one element, this will never    *)
(* exceed tail": no more elements are claimed than have been enqueued,      *)
(* although consumers decide by a tail, an optimistic count and an          *)
(* overcommit that they read at different times. *)
HeadWithinTail ==
  Sum([c \in Consumers |-> Len(got[c])
        + IF pc[c] \in {"index", "front", "locate", "read"} THEN con[c].n
          ELSE IF pc[c] = "empty" THEN con[c].n - InBlock(c) ELSE 0]) <= sent

(* The counters always tell how many elements are being claimed, modulo the *)
(* width of index_t: when nobody is inside dequeue they are exact again, so *)
(* an element is not hidden for ever by attempts that came too early. *)
CountersConsistent ==
  Minus(Minus(dequeueOptimisticCount, dequeueOvercommit), headIndex) =
    Sum([c \in Consumers |-> CASE pc[c] \in {"check", "over"} -> con[c].want
                               [] pc[c] = "claim" -> con[c].n
                               [] OTHER -> 0]) % Mod

Position(k) == (Start + k - 1) % Mod
Unread == (1 .. sent) \ UNION {ToSet(got[c]) : c \in Consumers}

(* Through the index that is published, every element not yet read is found *)
(* in its block: no slot is overwritten while it is needed ("guaranteed to  *)
(* be room"), no block is refilled before it is empty, and the growing of   *)
(* the index keeps the slots in place. *)
UnreadIndexed ==
  \A k \in Unread :
    LET p == Position(k)
        b == Current.entries[SlotOf(Current, Current.front, p)].block
    IN  b # nullptr /\ block[b].elements[p % BlockSize] = k

(* The destructor: the slots whose elements it destroys, block by block     *)
(* from the head block to the tail block. *)
HalfDequeued ==
  LET at(k) == Current.entries[(My.front - My.slotsUsed + k) % My.size]
      k == CHOOSE i \in 0 .. My.size :
             /\ ~circular_less_than(Plus(at(i).base, BlockSize), headIndex)
             /\ \A j \in 0 .. i - 1 : circular_less_than(Plus(at(j).base, BlockSize), headIndex)
  IN  IF headIndex % BlockSize = 0 THEN nullptr ELSE at(k).block
DestroyedIn(b) ==
  LET lastValid == IF tailIndex % BlockSize = 0 THEN BlockSize ELSE tailIndex % BlockSize
  IN  {i \in Slots : /\ b = HalfDequeued => i >= headIndex % BlockSize
                     /\ b = My.tailBlock => i < lastValid}
Destroyed ==
  {<<b, i>> \in Blocks \X Slots :
     block[b].next # nullptr /\ ~IsEmpty(b) /\ i \in DestroyedIn(b)}

(* Once nobody uses the producer any more, its destructor destroys exactly  *)
(* the elements that were never dequeued, each once, and no raw memory. *)
DestructorExact ==
  Call.op = "idle" /\ (\A c \in Consumers : pc[c] = "idle") =>
    /\ {block[x[1]].elements[x[2]] : x \in Destroyed} = Unread
    /\ Cardinality(Destroyed) = Cardinality(Unread)
=============================================================================
