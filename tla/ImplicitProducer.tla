--------------------------- MODULE ImplicitProducer ---------------------------
(***************************************************************************)
(* ImplicitProducer of lib/moodycamel/concurrentqueue.h: the sub-queue of a *)
(* thread that enqueues without a token. It owns no ring: the consumer that *)
(* takes the last element of a block clears the block's index entry and     *)
(* gives the block back to the queue's free list, while the producer        *)
(* inserts into the same index and may be growing it.                       *)
(*                                                                         *)
(* The counters by which a consumer claims elements are those of            *)
(* ExplicitProducer, where they are checked; here claiming is one step.     *)
(* enqueue is enqueue_bulk of one, dequeue is dequeue_bulk of one.          *)
(***************************************************************************)
EXTENDS Integers, FiniteSets, Sequences

CONSTANTS Consumers, Blocks, nullptr,
          BlockSize, IndexSize,       \* BLOCK_SIZE, IMPLICIT_INITIAL_INDEX_SIZE
          Mod,                        \* 2^(bits of index_t)
          Start,                      \* elements that went through before, one at a time
          Elements,                   \* how many elements are enqueued
          EnqueueSizes, DequeueSizes,
          MayFail, MayThrow           \* allocations may fail; constructors may throw

ImplicitAssumption ==
  nullptr \notin Blocks /\ BlockSize > 1 /\ Start % BlockSize = 0 /\ Mod > 2 * BlockSize

VARIABLES tailIndex, headIndex,
          block,     \* block[b]: elements, dequeued (elementsCompletelyDequeued)
          free,      \* the blocks on the queue's free list
          entry,     \* entry[e]: key and value, shared by all indices
          indices,   \* every index allocated; blockIndex is the last
          tailBlock, call,   \* the producer
          pc, con,           \* the consumers
          sent, got          \* history, as in ExplicitProducer

vars == <<tailIndex, headIndex, block, free, entry, indices, tailBlock, call, pc, con, sent, got>>
producer == <<tailBlock, call>>
consumers == <<pc, con, got>>

Junk == 0
INVALID_BLOCK_BASE == 1
Slots == 0 .. BlockSize - 1
Plus(a, b) == (a + b) % Mod
Minus(a, b) == (a - b) % Mod
circular_less_than(a, b) == Minus(a, b) > Mod \div 2
Base(i) == i - (i % BlockSize)
Least(a, b) == IF a < b THEN a ELSE b

Current == indices[Len(indices)]
Idle == [op |-> "idle", count |-> 0, diff |-> 0, cur |-> 0, chain |-> <<>>]
Out == [n |-> 0, index |-> 0, local |-> 0, tail |-> 0, slot |-> 0, block |-> nullptr]
Fresh == [key |-> INVALID_BLOCK_BASE, value |-> nullptr]

(* The constructor; and, for Start > 0, what passing Start elements through *)
(* one block after the other leaves behind. *)
Init ==
  LET k == Start \div BlockSize
      last(i) == k - 1 - ((k - 1 - i) % IndexSize) IN
  /\ tailIndex = Start % Mod /\ headIndex = Start % Mod
  /\ block = [b \in Blocks |-> [elements |-> [i \in Slots |-> Junk], dequeued |-> BlockSize]]
  /\ free = Blocks
  /\ entry = [e \in 1 .. IndexSize |->
       IF e > k THEN Fresh ELSE [key |-> (BlockSize * last(e - 1)) % Mod, value |-> nullptr]]
  /\ indices = <<[tail |-> (k - 1) % IndexSize, index |-> [i \in 0 .. IndexSize - 1 |-> i + 1]]>>
  /\ tailBlock = (IF k = 0 THEN nullptr ELSE CHOOSE b \in Blocks : TRUE) /\ call = Idle
  /\ pc = [c \in Consumers |-> "idle"] /\ con = [c \in Consumers |-> Out]
  /\ sent = 0 /\ got = [c \in Consumers |-> <<>>]
-----------------------------------------------------------------------------
(* The producer *)
Capacity(ix) == Cardinality(DOMAIN ix.index)

EnqueueBulk(count) ==
  LET before == Base(Minus(tailIndex, 1))
      diff == Minus(Base((tailIndex + count - 1) % Mod), before) IN
  /\ call.op = "idle" /\ sent + count <= Elements
  /\ call' = [op |-> IF diff > 0 THEN "key" ELSE "fill", count |-> count,
              diff |-> diff, cur |-> before, chain |-> <<>>]
  /\ UNCHANGED <<tailIndex, headIndex, block, free, entry, indices, tailBlock, consumers, sent>>
Enqueue == EnqueueBulk(1)

Full == ~circular_less_than(headIndex, Plus(call.cur, 2 * BlockSize))
NextSlot == (Current.tail + 1) % Capacity(Current)
NextEntry == Current.index[NextSlot]
HasRoom == entry[NextEntry].key = INVALID_BLOCK_BASE \/ entry[NextEntry].value = nullptr

(* insert_block_index_entry: the key, then the tail of the index. *)
StoreKey ==
  /\ call.op = "key" /\ ~Full /\ HasRoom
  /\ entry' = [entry EXCEPT ![NextEntry].key = Plus(call.cur, BlockSize)]
  /\ call' = [call EXCEPT !.op = "indexTail"]
  /\ UNCHANGED <<tailIndex, headIndex, block, free, indices, tailBlock, consumers, sent>>
StoreIndexTail ==
  /\ call.op = "indexTail"
  /\ indices' = [indices EXCEPT ![Len(indices)].tail = NextSlot]
  /\ call' = [call EXCEPT !.op = "block"]
  /\ UNCHANGED <<tailIndex, headIndex, block, free, entry, tailBlock, consumers, sent>>

(* new_block_index: the old index's entries from behind its tail on, then   *)
(* as many new ones. *)
Widened ==
  LET n == Capacity(Current) IN
  [tail |-> n - 1,
   index |-> [i \in 0 .. 2 * n - 1 |->
     IF i < n THEN Current.index[(Current.tail + 1 + i) % n]
     ELSE Cardinality(DOMAIN entry) + i - n + 1]]
Grow ==
  LET old == Cardinality(DOMAIN entry) IN
  /\ call.op = "key" /\ ~Full /\ ~HasRoom
  /\ indices' = Append(indices, Widened)
  /\ entry' = [e \in 1 .. old + Capacity(Current) |-> IF e <= old THEN entry[e] ELSE Fresh]
  /\ UNCHANGED <<tailIndex, headIndex, block, free, tailBlock, call, consumers, sent>>

(* A new block: its counter is reset and it is put into the entry. *)
GetBlock ==
  /\ call.op = "block" /\ free # {}
  /\ LET b == CHOOSE x \in free : TRUE IN
     /\ free' = free \ {b}
     /\ block' = [block EXCEPT ![b].dequeued = 0]
     /\ entry' = [entry EXCEPT ![Current.index[Current.tail]].value = b]
     /\ call' = [call EXCEPT !.op = IF call.diff > BlockSize THEN "key" ELSE "fill",
                             !.diff = @ - BlockSize, !.cur = Plus(@, BlockSize),
                             !.chain = Append(@, b)]
  /\ UNCHANGED <<tailIndex, headIndex, indices, tailBlock, consumers, sent>>

(* Failed, or a constructor threw: take the entries and blocks of this call *)
(* back, an entry that has no block yet too. *)
Revert(inserted) ==
  LET back == {Current.index[(Current.tail - k) % Capacity(Current)] : k \in 0 .. inserted - 1} IN
  /\ entry' = [e \in DOMAIN entry |-> IF e \in back THEN [entry[e] EXCEPT !.value = nullptr] ELSE entry[e]]
  /\ indices' = [indices EXCEPT ![Len(indices)].tail = (@ - inserted) % Capacity(Current)]
  /\ free' = free \cup {call.chain[k] : k \in DOMAIN call.chain}
  /\ call' = Idle
  /\ UNCHANGED <<tailIndex, headIndex, block, tailBlock, consumers, sent>>
FailIndex ==
  /\ call.op = "key" /\ (Full \/ (MayFail /\ ~HasRoom))
  /\ Revert(Len(call.chain))
FailBlock ==
  /\ call.op = "block" /\ (free = {} \/ MayFail)
  /\ Revert(Len(call.chain) + 1)
Throw ==
  /\ call.op = "fill" /\ MayThrow
  /\ Revert(Len(call.chain))

(* Construct the elements: first in what is left of the tail block, then in *)
(* the chain of new ones. *)
FillBlock(j) ==
  LET k == (tailIndex % BlockSize) + j - 1 IN
  IF tailIndex % BlockSize = 0 THEN call.chain[1 + (k \div BlockSize)]
  ELSE IF k < BlockSize THEN tailBlock ELSE call.chain[k \div BlockSize]
Fill ==
  /\ call.op = "fill"
  /\ block' = [b \in Blocks |-> [block[b] EXCEPT !.elements =
       [i \in Slots |->
          LET here == {j \in 1 .. call.count : FillBlock(j) = b /\ (tailIndex + j - 1) % BlockSize = i}
          IN  IF here = {} THEN @[i] ELSE sent + CHOOSE j \in here : TRUE]]]
  /\ tailBlock' = IF call.chain = <<>> THEN tailBlock ELSE call.chain[Len(call.chain)]
  /\ call' = [call EXCEPT !.op = "tail"]
  /\ UNCHANGED <<tailIndex, headIndex, free, entry, indices, consumers, sent>>

StoreTail ==
  /\ call.op = "tail"
  /\ tailIndex' = Plus(tailIndex, call.count)
  /\ sent' = sent + call.count
  /\ call' = Idle
  /\ UNCHANGED <<headIndex, block, free, entry, indices, tailBlock, consumers>>

Produce ==
  \/ Enqueue \/ \E n \in EnqueueSizes \ {1} : EnqueueBulk(n)
  \/ StoreKey \/ StoreIndexTail \/ Grow \/ GetBlock \/ FailIndex \/ FailBlock
  \/ Throw \/ Fill \/ StoreTail
-----------------------------------------------------------------------------
(* The consumers *)
Go(c, from, to) == pc[c] = from /\ pc' = [pc EXCEPT ![c] = to]

DequeueBulk(c, max) ==
  /\ Go(c, "idle", "index") /\ tailIndex # headIndex
  /\ con' = [con EXCEPT ![c] =
       [Out EXCEPT !.n = Least(max, Minus(tailIndex, headIndex)), !.index = headIndex]]
  /\ headIndex' = Plus(headIndex, Least(max, Minus(tailIndex, headIndex)))
  /\ UNCHANGED <<tailIndex, block, free, entry, indices, producer, sent, got>>
Dequeue(c) == DequeueBulk(c, 1)

(* get_block_index_index_for_index: the index, its tail, the key there. *)
LoadIndex(c) ==
  /\ Go(c, "index", "indexTail")
  /\ con' = [con EXCEPT ![c].local = Len(indices)]
  /\ UNCHANGED <<tailIndex, headIndex, block, free, entry, indices, producer, sent, got>>
LoadIndexTail(c) ==
  /\ Go(c, "indexTail", "key")
  /\ con' = [con EXCEPT ![c].tail = indices[con[c].local].tail]
  /\ UNCHANGED <<tailIndex, headIndex, block, free, entry, indices, producer, sent, got>>

Signed(d) == IF d >= Mod \div 2 THEN d - Mod ELSE d
SlotOf(ix, t, i) ==
  (t + (Signed(Minus(Base(i), entry[ix.index[t]].key)) \div BlockSize)) % Capacity(ix)
LoadKey(c) ==
  /\ Go(c, "key", "read")
  /\ con' = [con EXCEPT ![c].slot = SlotOf(indices[con[c].local], con[c].tail, con[c].index),
                        ![c].tail = 0]
  /\ UNCHANGED <<tailIndex, headIndex, block, free, entry, indices, producer, sent, got>>

EntryAt(c) == indices[con[c].local].index[con[c].slot]
InBlock(c) == Least(con[c].n, BlockSize - (con[c].index % BlockSize))
Read(c) ==
  LET b == entry[EntryAt(c)].value
      at(j) == (con[c].index + j - 1) % BlockSize IN
  /\ Go(c, "read", "empty")
  /\ got' = [got EXCEPT ![c] = @ \o [j \in 1 .. InBlock(c) |-> block[b].elements[at(j)]]]
  /\ block' = [block EXCEPT ![b].elements =
       [i \in Slots |-> IF \E j \in 1 .. InBlock(c) : at(j) = i THEN Junk ELSE @[i]]]
  /\ con' = [con EXCEPT ![c].block = b]
  /\ UNCHANGED <<tailIndex, headIndex, free, entry, indices, producer, sent>>

(* On to the next block of this call, or return. *)
OnTo(c) == IF con[c].n > InBlock(c) THEN "read" ELSE "idle"
Onwards(c) ==
  con' = [con EXCEPT ![c] =
    IF con[c].n > InBlock(c)
    THEN [@ EXCEPT !.n = @ - InBlock(c), !.index = Plus(@, InBlock(c)), !.block = nullptr,
                   !.slot = (@ + 1) % Capacity(indices[con[c].local])]
    ELSE Out]

(* set_many_empty tells whether these were the last of the block. *)
SetEmpty(c) ==
  LET b == con[c].block
      all == block[b].dequeued + InBlock(c) = BlockSize IN
  /\ Go(c, "empty", IF all THEN "clear" ELSE OnTo(c))
  /\ block' = [block EXCEPT ![b].dequeued = @ + InBlock(c)]
  /\ IF all THEN UNCHANGED con ELSE Onwards(c)
  /\ UNCHANGED <<tailIndex, headIndex, free, entry, indices, producer, sent, got>>
ClearEntry(c) ==
  /\ Go(c, "clear", "free")
  /\ entry' = [entry EXCEPT ![EntryAt(c)].value = nullptr]
  /\ UNCHANGED <<tailIndex, headIndex, block, free, indices, producer, con, sent, got>>
FreeBlock(c) ==
  /\ Go(c, "free", OnTo(c))
  /\ free' = free \cup {con[c].block} /\ Onwards(c)
  /\ UNCHANGED <<tailIndex, headIndex, block, entry, indices, producer, sent, got>>

ConsumerStep(c) ==
  \/ LoadIndex(c) \/ LoadIndexTail(c) \/ LoadKey(c) \/ Read(c)
  \/ SetEmpty(c) \/ ClearEntry(c) \/ FreeBlock(c)
Consume(c) == Dequeue(c) \/ (\E n \in DequeueSizes \ {1} : DequeueBulk(c, n)) \/ ConsumerStep(c)

Next == Produce \/ \E c \in Consumers : Consume(c)
Spec == Init /\ [][Next]_vars
-----------------------------------------------------------------------------
TypeOK ==
  /\ tailIndex \in 0 .. Mod - 1 /\ headIndex \in 0 .. Mod - 1
  /\ \A b \in Blocks : /\ block[b].elements \in [Slots -> 0 .. Elements]
                       /\ block[b].dequeued \in 0 .. BlockSize
  /\ free \subseteq Blocks /\ tailBlock \in Blocks \cup {nullptr}
  /\ \A e \in DOMAIN entry : entry[e] \in [key : 0 .. Mod - 1, value : Blocks \cup {nullptr}]
  /\ \A k \in DOMAIN indices : indices[k].tail \in DOMAIN indices[k].index
  /\ pc \in [Consumers -> {"idle", "index", "indexTail", "key", "read", "empty", "clear", "free"}]
  /\ sent \in 0 .. Elements

ToSet(s) == {s[i] : i \in DOMAIN s}
Taken == UNION {ToSet(got[c]) : c \in Consumers}

(* Each element is dequeued once and a consumer gets them in the order they *)
(* were enqueued, though blocks wander between producer, index and free     *)
(* list while several consumers empty them. *)
DequeuedOnceInOrder ==
  \A c \in Consumers :
    /\ \A i \in DOMAIN got[c] : got[c][i] \in 1 .. sent /\ (i > 1 => got[c][i - 1] < got[c][i])
    /\ \A d \in Consumers \ {c} : ToSet(got[c]) \cap ToSet(got[d]) = {}

(* The assertions of get_block_index_index_for_index: whichever index and   *)
(* tail a consumer has loaded, and whatever the producer has inserted,      *)
(* taken back or moved to a larger index since, the key at that tail is     *)
(* valid and the entry found from it is that of the element's block. *)
LookupFinds ==
  \A c \in Consumers :
    /\ pc[c] = "key" => entry[indices[con[c].local].index[con[c].tail]].key # INVALID_BLOCK_BASE
    /\ pc[c] = "read" => /\ entry[EntryAt(c)].key = Base(con[c].index)
                         /\ entry[EntryAt(c)].value # nullptr

(* Every block has one owner: the free list, one entry of the index, or the *)
(* consumer that has just emptied it. None leaks and none is used twice. *)
BlockOwnedOnce ==
  \A b \in Blocks :
    (IF b \in free THEN 1 ELSE 0)
    + Cardinality({e \in DOMAIN entry : entry[e].value = b})
    + Cardinality({c \in Consumers : pc[c] = "free" /\ con[c].block = b}) = 1

(* The destructor frees the blocks it passes from head to tail but for the  *)
(* last, then the tail block, unless that was filled and emptied. *)
HeldAt(i) == entry[Current.index[SlotOf(Current, Current.tail, i)]].value
Passed ==
  LET n == Minus(tailIndex, headIndex)
      from(k) == Plus(headIndex, k)
  IN  {HeldAt(from(k)) : k \in {x \in 0 .. n - 1 : \E y \in x + 1 .. n - 1 : Base(from(y)) # Base(from(x))}}
DestructorFrees ==
  Passed \cup IF tailBlock # nullptr /\ (headIndex # tailIndex \/ tailIndex % BlockSize # 0)
              THEN {tailBlock} ELSE {}

(* Once nobody uses the producer, its destructor returns exactly the blocks *)
(* that are not on the free list yet. *)
DestructorReturnsAll ==
  call.op = "idle" /\ (\A c \in Consumers : pc[c] = "idle") => DestructorFrees = Blocks \ free
=============================================================================
