---------------------------- MODULE QueueLifetime ----------------------------
(***************************************************************************)
(* Construction, move, swap and destruction of the queues and the producer *)
(* tokens of lib/moodycamel/concurrentqueue.h: what a queue object owns    *)
(* (producers, blocks, tables of implicit producers) goes to the other      *)
(* object, and the pointers back (a producer's parent and token, the root   *)
(* of a chain of tables) have to follow. None of these calls may run beside *)
(* another one on the same queue, so each is one step.                      *)
(***************************************************************************)
EXTENDS Integers, FiniteSets, Functions

CONSTANTS Queues, Tokens, Threads, nullptr,
          PoolSize,      \* blocks the constructor allocates
          Recycle,       \* RECYCLE_ALLOCATED_BLOCKS
          MaxProducers, MaxTables, MaxBlocks   \* bounds

LifetimeAssumption ==
  /\ nullptr \notin Queues \cup Tokens \cup Threads \cup Nat /\ Recycle \in BOOLEAN
  /\ {PoolSize, MaxProducers, MaxTables, MaxBlocks} \subseteq Nat

Producers == 1 .. MaxProducers
(* A queue's initialImplicitProducerHash is part of it, others are allocated. *)
Tables == Queues \cup 1 .. MaxTables

VARIABLES alive,     \* the queue objects that exist
          list,      \* list[q]: the producers from producerListTail on
          array,     \* array[q]: the blocks of initialBlockPool
          pool,      \* pool[q]: those from initialBlockPoolIndex on
          free,      \* free[q]: the free list
          hash,      \* hash[q]: implicitProducerHash
          prev, entries,   \* of a table: the older one; thread -> producer
          parent, token, owned,   \* of a producer: its queue, token and blocks
          user,      \* user[p]: the thread of an implicit producer
          inactive,  \* producers to recycle
          producer,  \* producer[k]: of a ProducerToken
          dynamic,   \* blocks not of an initial pool
          freed, blocks, tables   \* history: memory freed; blocks and tables created

vars == <<alive, list, array, pool, free, hash, prev, entries, parent, token, owned, user,
          inactive, producer, dynamic, freed, blocks, tables>>
poolVars == <<array, pool, free, owned, dynamic, freed, blocks>>
hashVars == <<hash, prev, entries, tables>>
tokenVars == <<token, producer, inactive>>

Listed == UNION {list[q] : q \in alive}
None == [t \in Threads |-> nullptr]

TypeOK ==
  /\ alive \subseteq Queues /\ list \in [Queues -> SUBSET Producers]
  /\ hash \in [Queues -> Tables \cup {nullptr}] /\ prev \in [Tables -> Tables \cup {nullptr}]
  /\ entries \in [Tables -> [Threads -> Producers \cup {nullptr}]]
  /\ parent \in [Producers -> Queues \cup {nullptr}] /\ token \in [Producers -> Tokens \cup {nullptr}]
  /\ user \in [Producers -> Threads \cup {nullptr}] /\ inactive \subseteq Listed
  /\ producer \in [Tokens -> Producers \cup {nullptr}]
  /\ \A q \in Queues : pool[q] \subseteq array[q] /\ free[q] \cup array[q] \subseteq 1 .. blocks
  /\ dynamic \cup freed \subseteq 1 .. blocks /\ tables \in 0 .. MaxTables

Init ==
  /\ alive = {} /\ list = [q \in Queues |-> {}] /\ array = list /\ pool = list /\ free = list
  /\ hash = [q \in Queues |-> nullptr] /\ prev = [h \in Tables |-> nullptr]
  /\ entries = [h \in Tables |-> None]
  /\ parent = [p \in Producers |-> nullptr] /\ token = parent /\ user = parent
  /\ owned = [p \in Producers |-> {}] /\ inactive = {} /\ producer = [k \in Tokens |-> nullptr]
  /\ dynamic = {} /\ freed = {} /\ blocks = 0 /\ tables = 0

(* The tables of q from implicitProducerHash back. *)
Chain(q) ==
  LET back[n \in 0 .. MaxTables + 1] ==
        IF n = 0 THEN {hash[q]} \ {nullptr}
        ELSE back[n - 1] \cup ({prev[h] : h \in back[n - 1]} \ {nullptr})
  IN  back[MaxTables + 1]

-----------------------------------------------------------------------------
Construct(q) ==
  /\ q \notin alive /\ blocks + PoolSize <= MaxBlocks
  /\ alive' = alive \cup {q} /\ list' = [list EXCEPT ![q] = {}]
  /\ array' = [array EXCEPT ![q] = blocks + 1 .. blocks + PoolSize] /\ pool' = [pool EXCEPT ![q] = array'[q]]
  /\ free' = [free EXCEPT ![q] = {}] /\ blocks' = blocks + PoolSize
  /\ hash' = [hash EXCEPT ![q] = q] /\ prev' = [prev EXCEPT ![q] = nullptr]
  /\ entries' = [entries EXCEPT ![q] = None]
  /\ UNCHANGED <<parent, tokenVars, owned, user, dynamic, freed, tables>>

(* swap_implicit_producer_hashes: the initial tables swap their entries, the *)
(* chains their owners, and the roots of the chains are put right. An        *)
(* unconstructed queue stands for one that has just been populated. *)
Root(q, o, h) == IF h = o THEN q ELSE h
SwapHashes(q, o) ==
  LET cur == [x \in {q, o} |-> IF x \in alive THEN hash[x] ELSE x]
      mine == IF q \in alive THEN Chain(q) ELSE {q} IN
  /\ entries' = [entries EXCEPT ![q] = entries[o], ![o] = IF q \in alive THEN entries[q] ELSE None]
  /\ hash' = [hash EXCEPT ![q] = Root(q, o, cur[o]), ![o] = Root(o, q, cur[q])]
  /\ prev' = [h \in Tables |-> IF h \in mine THEN Root(o, q, prev[h])
                               ELSE IF h \in Chain(o) THEN Root(q, o, prev[h]) ELSE prev[h]]
  /\ UNCHANGED tables
(* reown_producers on both. *)
Reown(q, o) ==
  parent' = [p \in Producers |-> IF p \in list'[q] THEN q ELSE IF p \in list'[o] THEN o ELSE parent[p]]
Swapped(f, q, o) == [f EXCEPT ![q] = f[o], ![o] = f[q]]
SwapPools(q, o) ==
  /\ array' = Swapped(array, q, o) /\ pool' = Swapped(pool, q, o) /\ free' = Swapped(free, q, o)
(* The move constructor: q takes what o has and o is left an empty queue. *)
Move(q, o) ==
  /\ q \notin alive /\ o \in alive
  /\ alive' = alive \cup {q} /\ list' = Swapped(list, q, o) /\ SwapPools(q, o)
  /\ SwapHashes(q, o) /\ Reown(q, o)
  /\ UNCHANGED <<tokenVars, owned, user, dynamic, freed, blocks>>
(* swap_internal, for swap and operator=. *)
Swap(q, o) ==
  /\ {q, o} \subseteq alive /\ q # o
  /\ list' = Swapped(list, q, o) /\ SwapPools(q, o) /\ SwapHashes(q, o) /\ Reown(q, o)
  /\ UNCHANGED <<alive, tokenVars, owned, user, dynamic, freed, blocks>>

(* add_block_to_free_list frees a dynamically allocated block at once. *)
Freed(bs) == IF Recycle THEN {} ELSE bs \cap dynamic
(* The destructor: producers first, which give their blocks back to the free *)
(* list; the tokens lose them; then the list's own blocks and the pool. *)
DestroyBlocks(q) ==
  LET back == UNION {owned[p] : p \in list[q]}
  IN  Freed(back) \cup ((free[q] \cup back) \cap dynamic) \cup array[q]
Forget(q) == [k \in Tokens |-> IF producer[k] \in list[q] THEN nullptr ELSE producer[k]]
Destroy(q) ==
  /\ q \in alive /\ alive' = alive \ {q} /\ list' = [list EXCEPT ![q] = {}]
  /\ producer' = Forget(q)
  /\ token' = [p \in Producers |-> IF p \in list[q] THEN nullptr ELSE token[p]]
  /\ parent' = [p \in Producers |-> IF p \in list[q] THEN nullptr ELSE parent[p]]
  /\ user' = [p \in Producers |-> IF p \in list[q] THEN nullptr ELSE user[p]]
  /\ inactive' = inactive \ list[q]
  /\ freed' = freed \cup DestroyBlocks(q)
  /\ owned' = [p \in Producers |-> IF p \in list[q] THEN {} ELSE owned[p]]
  /\ array' = [array EXCEPT ![q] = {}] /\ pool' = [pool EXCEPT ![q] = {}] /\ free' = [free EXCEPT ![q] = {}]
  /\ hash' = [hash EXCEPT ![q] = nullptr]
  /\ entries' = [h \in Tables |-> IF h \in Chain(q) THEN None ELSE entries[h]]
  /\ prev' = [h \in Tables |-> IF h \in Chain(q) THEN nullptr ELSE prev[h]]
  /\ UNCHANGED <<dynamic, blocks, tables>>

-----------------------------------------------------------------------------
(* recycle_or_create_producer for a token, or else for a thread. *)
Obtain(q, p, explicit) ==
  \/ /\ p \in inactive \cap list[q] /\ (user[p] = nullptr) = explicit
     /\ inactive' = inactive \ {p} /\ UNCHANGED <<list, parent>>
  \/ /\ p \notin Listed /\ \A r \in inactive \cap list[q] : (user[r] = nullptr) # explicit
     /\ list' = [list EXCEPT ![q] = @ \cup {p}] /\ parent' = [parent EXCEPT ![p] = q]
     /\ UNCHANGED inactive

MakeToken(k, q, p) ==
  /\ q \in alive /\ producer[k] = nullptr /\ Obtain(q, p, TRUE)
  /\ producer' = [producer EXCEPT ![k] = p] /\ token' = [token EXCEPT ![p] = k]
  /\ UNCHANGED <<alive, poolVars, hashVars, user>>
(* ~ProducerToken; an invalid one is simply gone. *)
DropToken(k) ==
  /\ producer[k] # nullptr
  /\ token' = [token EXCEPT ![producer[k]] = nullptr] /\ inactive' = inactive \cup {producer[k]}
  /\ producer' = [producer EXCEPT ![k] = nullptr]
  /\ UNCHANGED <<alive, list, poolVars, hashVars, parent, user>>
(* swap of tokens; moving into an invalid one comes to the same. *)
SwapTokens(k, l) ==
  /\ k # l /\ {producer[k], producer[l]} # {nullptr}
  /\ producer' = [producer EXCEPT ![k] = producer[l], ![l] = producer[k]]
  /\ token' = [p \in Producers |-> IF p = producer[k] THEN l ELSE IF p = producer[l] THEN k ELSE token[p]]
  /\ UNCHANGED <<alive, list, poolVars, hashVars, parent, user, inactive>>

(* A thread that is in none of q's tables enqueues (ProducerHash.tla). *)
Register(t, q, p) ==
  /\ q \in alive /\ \A h \in Chain(q) : entries[h][t] = nullptr
  /\ Obtain(q, p, FALSE)
  /\ entries' = [entries EXCEPT ![hash[q]][t] = p] /\ user' = [user EXCEPT ![p] = t]
  /\ UNCHANGED <<alive, poolVars, token, producer, hash, prev, tables>>
Grow(q) ==
  /\ q \in alive /\ tables < MaxTables
  /\ tables' = tables + 1 /\ hash' = [hash EXCEPT ![q] = tables + 1]
  /\ prev' = [prev EXCEPT ![tables + 1] = hash[q]]
  /\ UNCHANGED <<alive, list, poolVars, entries, parent, tokenVars, user>>
(* implicit_producer_thread_exited on the parent of each producer of t. *)
Exit(t) ==
  LET mine == {p \in Listed \ inactive : user[p] = t} IN
  /\ mine # {}
  /\ entries' = [h \in Tables |-> IF \E p \in mine : h \in Chain(parent[p])
                                  THEN [entries[h] EXCEPT ![t] = nullptr] ELSE entries[h]]
  /\ inactive' = inactive \cup mine
  /\ UNCHANGED <<alive, list, poolVars, hash, prev, tables, parent, token, producer, user>>

(* requisition_block for a producer: from the initial pool, the free list or *)
(* the heap of the parent. *)
Requisition(p) ==
  LET q == parent[p] IN
  /\ p \in Listed
  /\ \/ /\ pool[q] # {}
        /\ LET b == CHOOSE x \in pool[q] : \A y \in pool[q] : x <= y IN
           pool' = [pool EXCEPT ![q] = @ \ {b}] /\ owned' = [owned EXCEPT ![p] = @ \cup {b}]
        /\ UNCHANGED <<free, dynamic, blocks>>
     \/ /\ pool[q] = {} /\ \E b \in free[q] :
             free' = [free EXCEPT ![q] = @ \ {b}] /\ owned' = [owned EXCEPT ![p] = @ \cup {b}]
        /\ UNCHANGED <<pool, dynamic, blocks>>
     \/ /\ pool[q] = {} /\ free[q] = {} /\ blocks < MaxBlocks
        /\ blocks' = blocks + 1 /\ dynamic' = dynamic \cup {blocks + 1}
        /\ owned' = [owned EXCEPT ![p] = @ \cup {blocks + 1}] /\ UNCHANGED <<pool, free>>
  /\ UNCHANGED <<alive, list, array, hashVars, parent, tokenVars, user, freed>>
GiveBack(p, b) ==
  /\ b \in owned[p] /\ owned' = [owned EXCEPT ![p] = @ \ {b}]
  /\ free' = [free EXCEPT ![parent[p]] = @ \cup ({b} \ Freed({b}))] /\ freed' = freed \cup Freed({b})
  /\ UNCHANGED <<alive, list, array, pool, dynamic, blocks, hashVars, parent, tokenVars, user>>

Next ==
  \/ \E q \in Queues : Construct(q) \/ Destroy(q) \/ Grow(q) \/ \E o \in Queues : Move(q, o) \/ Swap(q, o)
  \/ \E k \in Tokens : DropToken(k) \/ \E l \in Tokens : SwapTokens(k, l)
  \/ \E k \in Tokens, q \in Queues, p \in Producers : MakeToken(k, q, p)
  \/ \E t \in Threads : Exit(t) \/ \E q \in Queues, p \in Producers : Register(t, q, p)
  \/ \E p \in Producers : Requisition(p) \/ \E b \in 1 .. MaxBlocks : GiveBack(p, b)

Spec == Init /\ [][Next]_vars

-----------------------------------------------------------------------------
(* Every producer knows the queue whose list it is in, whatever was moved or *)
(* swapped since it was created: a block it asks for or gives back, and the   *)
(* exit of its thread, concern that queue. *)
ParentHoldsProducer == \A q \in alive : \A p \in list[q] : parent[p] = q

(* Tokens and producers point at each other, a token points at no producer of *)
(* a destroyed queue, and no token's producer is free for recycling ("A token  *)
(* is always valid unless ..."). *)
TokensMutual ==
  /\ \A k \in Tokens : producer[k] # nullptr =>
       token[producer[k]] = k /\ producer[k] \in Listed \ inactive
  /\ \A p \in Listed : token[p] # nullptr => producer[token[p]] = p

(* The chain of tables of a queue ends in the queue's own initial table, and *)
(* contains no other queue's: destroying the other leaves it whole. *)
ChainRooted ==
  \A q \in alive : q \in Chain(q) /\ Chain(q) \cap Queues = {q} /\ prev[q] = nullptr

(* A thread finds its producer in the queue that holds the producer, and in *)
(* no other queue. *)
ThreadsFindTheirs ==
  \A q \in alive, t \in Threads :
    {entries[h][t] : h \in Chain(q)} \ {nullptr} = {p \in list[q] \ inactive : user[p] = t}

(* A block is in one place only, that place exists and the block has not been *)
(* freed; and a block that is nowhere any more has been freed. *)
BlocksAccounted ==
  LET places == {array[q] : q \in alive} \cup {free[q] \cap dynamic : q \in alive}
                \cup {owned[p] \cap dynamic : p \in Listed} IN
  /\ UNION places = 1 .. blocks \ freed
  /\ \A x, y \in places : x # y => x \cap y = {}
  /\ \A q, o \in alive : q # o => (array[q] \cup free[q]) \cap (array[o] \cup free[o]) = {}
  /\ \A p, r \in Listed : p # r => owned[p] \cap owned[r] = {}
  /\ \A q \in alive : pool[q] \cap free[q] = {}
  /\ \A q \in alive, p \in Listed :
       /\ owned[p] \cap (pool[q] \cup free[q]) = {}
       /\ p \in list[q] => owned[p] \subseteq array[q] \cup dynamic
=============================================================================
