--------------------------- MODULE BlockAllocator ---------------------------
(***************************************************************************)
(* The allocator of fixed-size blocks (parlay/internal/block_allocator.h,  *)
(* and type_allocator of parlay/alloc.h, which wraps it).  A thread keeps  *)
(* a list of free blocks, chained through the blocks themselves; it takes  *)
(* a list of list_length from a global stack, or a new buffer, when its    *)
(* own is empty and gives one back when it has two.  A block may be freed  *)
(* by a thread other than the one that allocated it.  The stacks are those *)
(* of LifoStack.                                                           *)
(***************************************************************************)
EXTENDS Integers, Sequences, SequencesExt, FiniteSets, FiniteSetsExt

CONSTANTS Threads,
          list_length,
          MaxBuffers,  \* bound: buffers of list_length blocks at a time
          MaxFrees,    \* bound: calls of free
          MaxClears    \* bound: calls of clear

ListLengthAssumption == list_length \in Nat \ {0}

nullptr == 0
Blocks == 1 .. MaxBuffers * list_length
BlocksOf(buffer) == (buffer - 1) * list_length + 1 .. buffer * list_length

VARIABLES next,    \* next[b]: what a free block holds
          local,   \* my_local_list[t]: [sz, head, mid]
          global,  \* global_stack: the heads of lists, newest first
          buffers, \* allocated_buffers
          blocks_allocated,
          held,    \* the blocks the callers have
          pc,      \* pc[t]: a thread in get_list is about to allocate
          frees, clears
vars == <<next, local, global, buffers, blocks_allocated, held, pc, frees, clears>>

Init ==
  /\ next = [b \in Blocks |-> nullptr]
  /\ local = [t \in Threads |-> [sz |-> 0, head |-> nullptr, mid |-> nullptr]]
  /\ global = <<>> /\ buffers = {} /\ blocks_allocated = 0
  /\ held = {} /\ pc = [t \in Threads |-> "idle"] /\ frees = 0 /\ clears = 0

(* The first n blocks of a list. *)
List(b, n) ==
  LET walk[i \in 1 .. n] == IF i = 1 THEN <<b>> ELSE Append(walk[i - 1], next[Last(walk[i - 1])])
  IN  IF n = 0 THEN <<>> ELSE walk[n]
-----------------------------------------------------------------------------
(* alloc: the first block of the local list, which get_list fills. Nothing  *)
(* runs on the thread between get_list and the second look at the size.     *)
Grant(t, l, links) ==
  /\ local' = [local EXCEPT ![t].head = links[l.head], ![t].sz = l.sz - 1]
  /\ next' = [links EXCEPT ![l.head] = nullptr] \* its memory is the caller's
  /\ held' = held \cup {l.head}
Alloc(t) ==
  /\ pc[t] = "idle" /\ local[t].sz > 0
  /\ Grant(t, local[t], next)
  /\ UNCHANGED <<global, buffers, blocks_allocated, pc, frees, clears>>
AllocPop(t) ==
  /\ pc[t] = "idle" /\ local[t].sz = 0
  /\ global # <<>> \/ Cardinality(buffers) + Cardinality({u \in Threads : pc[u] = "grow"}) < MaxBuffers
  /\ IF global = <<>>
     THEN /\ pc' = [pc EXCEPT ![t] = "grow"]
          /\ UNCHANGED <<next, local, global, held>>
     ELSE /\ Grant(t, [head |-> Head(global), sz |-> list_length], next)
          /\ global' = Tail(global) /\ UNCHANGED pc
  /\ UNCHANGED <<buffers, blocks_allocated, frees, clears>>
(* allocate_blocks and initialize_list. *)
initialize_list(buffer) == [b \in Blocks |-> IF b = Max(BlocksOf(buffer)) THEN nullptr
                                             ELSE IF b \in BlocksOf(buffer) THEN b + 1 ELSE next[b]]
AllocGrow(t) ==
  LET buffer == Min((1 .. MaxBuffers) \ buffers) IN
  /\ pc[t] = "grow"
  /\ buffers' = buffers \cup {buffer} /\ blocks_allocated' = blocks_allocated + list_length
  /\ Grant(t, [head |-> Min(BlocksOf(buffer)), sz |-> list_length], initialize_list(buffer))
  /\ pc' = [pc EXCEPT ![t] = "idle"]
  /\ UNCHANGED <<global, frees, clears>>

(* free: the block goes to the front of the local list, of which the older  *)
(* half is given back first when there are two of list_length.  mid is the  *)
(* last block of the newer half (mutant: it is set one block too early).     *)
MarkBug(l) == IF l.sz = list_length THEN [l EXCEPT !.mid = l.head] ELSE l
Mark(l) == IF l.sz = list_length + 1 THEN [l EXCEPT !.mid = l.head] ELSE l
GiveBack(l) == [l EXCEPT !.sz = list_length]
Full(l) == l.sz # list_length + 1 /\ l.sz = 2 * list_length
Free(t, b) ==
  LET l == local[t]
      full == Full(l)
      m == IF full THEN GiveBack(l) ELSE Mark(l) IN
  /\ pc[t] = "idle" /\ b \in held /\ frees < MaxFrees
  /\ frees' = frees + 1
  /\ held' = held \ {b}
  /\ global' = IF full THEN <<next[l.mid]>> \o global ELSE global
  /\ next' = [(IF full THEN [next EXCEPT ![l.mid] = nullptr] ELSE next) EXCEPT ![b] = l.head]
  /\ local' = [local EXCEPT ![t] = [m EXCEPT !.head = b, !.sz = @ + 1]]
  /\ UNCHANGED <<buffers, blocks_allocated, pc, clears>>

(* num_used_blocks, and clear, which does nothing while there are some and   *)
(* is not called while others work.                                          *)
num_used_blocks ==
  blocks_allocated - Len(global) * list_length - MapThenSumSet(LAMBDA t : local[t].sz, Threads)
ClearLists == [t \in Threads |-> [local[t] EXCEPT !.sz = 0]]
Clear ==
  /\ clears < MaxClears /\ \A t \in Threads : pc[t] = "idle"
  /\ num_used_blocks = 0 /\ blocks_allocated > 0
  /\ clears' = clears + 1
  /\ local' = ClearLists /\ global' = <<>> /\ buffers' = {} /\ blocks_allocated' = 0
  /\ UNCHANGED <<next, held, pc, frees>>

Next ==
  \/ \E t \in Threads : Alloc(t) \/ AllocPop(t) \/ AllocGrow(t) \/ \E b \in held : Free(t, b)
  \/ Clear
  \/ frees = MaxFrees /\ UNCHANGED vars
Spec == Init /\ [][Next]_vars
-----------------------------------------------------------------------------
TypeOK ==
  /\ blocks_allocated \in 0 .. MaxBuffers * list_length
  /\ held \subseteq UNION {BlocksOf(i) : i \in buffers}
  /\ \A t \in Threads : local[t].head \in Blocks \cup {nullptr} /\ local[t].sz \in 0 .. Cardinality(Blocks)

(* Every block of every buffer is in one place: with a caller, or among the  *)
(* sz first blocks of one thread's list, or the list_length first of one     *)
(* list of the global stack.  So no block is handed out twice and none is    *)
(* lost, whoever frees it, although what the lists lead to beyond may be     *)
(* blocks handed out long ago, or buffers given back by clear. *)
BlocksAccounted ==
  LET lists == {List(local[t].head, local[t].sz) : t \in {u \in Threads : local[u].sz > 0}}
               \cup {List(global[i], list_length) : i \in DOMAIN global}
      free == UNION {Range(l) : l \in lists}
  IN  /\ nullptr \notin free /\ held \cap free = {}
      /\ held \cup free = UNION {BlocksOf(i) : i \in buffers}
      /\ MapThenSumSet(Len, lists) = Cardinality(free)

(* num_used_blocks is the number of blocks the callers have, whenever no     *)
(* thread is inside an operation: clear frees no memory that is in use. *)
UsedExact == (\A t \in Threads : pc[t] = "idle") => num_used_blocks = Cardinality(held)

(* A thread "returns list_length elements to the global pool when local      *)
(* pool=2*list_length". *)
LocalBounded == \A t \in Threads : local[t].sz <= 2 * list_length
=============================================================================
