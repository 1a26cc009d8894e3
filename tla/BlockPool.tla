------------------------------- MODULE BlockPool -------------------------------
(***************************************************************************)
(* Where the producers of lib/moodycamel/concurrentqueue.h get their blocks *)
(* from: requisition_block tries the initial pool, then the free list       *)
(* (a set here: FreeList.tla), and only then the heap, if it may. The index *)
(* into the initial pool is tested and advanced in two separate steps.      *)
(***************************************************************************)
EXTENDS Integers, FiniteSets

CONSTANTS Threads, nullptr,
          initialBlockPoolSize,
          CanAlloc,        \* the threads that may allocate
          Width,           \* the index counts modulo Width
          MaxBlocks        \* bound on the blocks of the heap

PoolAssumption ==
  /\ {initialBlockPoolSize, MaxBlocks} \subseteq Nat /\ Width > initialBlockPoolSize + Cardinality(Threads)
  /\ CanAlloc \subseteq Threads /\ nullptr \notin Nat

VARIABLES index,      \* initialBlockPoolIndex
          free,       \* the free list
          created,    \* dynamically allocated blocks
          held,       \* held[t]: the blocks of t
          pc,
          spare       \* history: spare[t]: blocks on the free list since t's call began

vars == <<index, free, created, held, pc, spare>>

Pool == 0 .. initialBlockPoolSize - 1
Heap == initialBlockPoolSize .. initialBlockPoolSize + created - 1

TypeOK ==
  /\ index \in 0 .. Width - 1 /\ created \in 0 .. MaxBlocks
  /\ free \subseteq Pool \cup Heap /\ held \in [Threads -> SUBSET (Pool \cup Heap)]
  /\ pc \in [Threads -> {"idle", "pool", "advance", "list", "heap", "failed"}]
  /\ spare \in [Threads -> SUBSET free]

Init ==
  /\ index = 0 /\ free = {} /\ created = 0 /\ held = [t \in Threads |-> {}]
  /\ pc = [t \in Threads |-> "idle"] /\ spare = [t \in Threads |-> {}]

Go(t, from, to) == pc[t] = from /\ pc' = [pc EXCEPT ![t] = to]
Gets(t, b) == held' = [held EXCEPT ![t] = @ \cup {b}]

Requisition(t) ==
  /\ pc[t] \in {"idle", "failed"} /\ pc' = [pc EXCEPT ![t] = "pool"]
  /\ spare' = [spare EXCEPT ![t] = free]
  /\ UNCHANGED <<index, free, created, held>>

(* try_get_block_from_initial_pool: the test ... *)
Test(t) ==
  /\ Go(t, "pool", IF index >= initialBlockPoolSize THEN "list" ELSE "advance")
  /\ UNCHANGED <<index, free, created, held, spare>>
(* ... and the fetch_add, whose result is tested once more. *)
Advance(t) ==
  /\ Go(t, "advance", IF index < initialBlockPoolSize THEN "idle" ELSE "list")
  /\ index' = (index + 1) % Width
  /\ IF index < initialBlockPoolSize THEN Gets(t, index) ELSE UNCHANGED held
  /\ UNCHANGED <<free, created, spare>>

(* try_get_block_from_free_list. *)
FromList(t) ==
  /\ pc[t] = "list"
  /\ \E b \in free : /\ free' = free \ {b} /\ Gets(t, b)
                     /\ spare' = [u \in Threads |-> spare[u] \ {b}]
  /\ pc' = [pc EXCEPT ![t] = "idle"] /\ UNCHANGED <<index, created>>
ListEmpty(t) ==
  /\ free = {} /\ Go(t, "list", IF t \in CanAlloc THEN "heap" ELSE "failed")
  /\ UNCHANGED <<index, free, created, held, spare>>
Allocate(t) ==
  /\ Go(t, "heap", "idle") /\ created < MaxBlocks
  /\ created' = created + 1 /\ Gets(t, initialBlockPoolSize + created)
  /\ UNCHANGED <<index, free, spare>>
OutOfMemory(t) == Go(t, "heap", "failed") /\ UNCHANGED <<index, free, created, held, spare>>

(* add_block_to_free_list, blocks being recycled; a producer that ends gives *)
(* back all it has (add_blocks_to_free_list). *)
GiveBack(t, bs) ==
  /\ pc[t] \in {"idle", "failed"} /\ bs # {} /\ bs \subseteq held[t]
  /\ held' = [held EXCEPT ![t] = @ \ bs] /\ free' = free \cup bs
  /\ UNCHANGED <<index, created, pc, spare>>

Next == \E t \in Threads :
  \/ Requisition(t) \/ Test(t) \/ Advance(t) \/ FromList(t) \/ ListEmpty(t) \/ Allocate(t) \/ OutOfMemory(t)
  \/ \E bs \in {held[t]} \cup {{b} : b \in held[t]} : GiveBack(t, bs)

Spec == Init /\ [][Next]_vars

-----------------------------------------------------------------------------
(* No block has two users, nor is a block in use on the free list: also when *)
(* several threads pass the test of the index at its last block. *)
BlockToOne ==
  \A t \in Threads : /\ held[t] \cap free = {} /\ \A u \in Threads \ {t} : held[t] \cap held[u] = {}
                     /\ \A b \in held[t] \cap Pool : b < index

(* The index runs past the pool by less than one step of each thread, so that *)
(* it never comes round to hand the blocks out a second time. *)
IndexBounded == index <= initialBlockPoolSize + Cardinality(Threads) - 1

(* A call allocates or fails only when it has met the pool used up and the *)
(* free list empty: no block was free from its beginning on. *)
LastResort ==
  \A t \in Threads : pc[t] \in {"heap", "failed"} => index >= initialBlockPoolSize /\ spare[t] = {}
=============================================================================
