---------------------------- MODULE MCMoodycamel ----------------------------
(* The modules of the moodycamel queue for TLC. They are separate machines: *)
(* the initial state picks one of Parts, and the steps are those of its     *)
(* module, on the variables x1, x2, ... in the order of its declaration.    *)
(* The semaphore has its own variables, which stay as they are in all other *)
(* parts: a patient waiter, one with a timeout and one that takes up to     *)
(* two.                                                                     *)
EXTENDS LightweightSemaphore, Sequences, TLC

CONSTANTS
  Parts,           \* the parts that a run checks, one after the other
  nullptr,
  u1, u2, t3,      \* threads; u1 and u2 are interchangeable, also as consumers and queues
  b1, b2, b3, b4,  \* blocks
  k1, k2,          \* tokens
  p1, p2, c1, c2,  \* producers and consumers
  w1, w2, w3, s1, s2   \* waiters and signalers of the semaphore

VARIABLES part,  \* the part that runs
          x1, x2, x3, x4, x5, x6, x7, x8, x9, x10, x11, x12, x13, x14, x15, x16, x17, x18  \* its variables

xs == <<x1, x2, x3, x4, x5, x6, x7, x8, x9, x10, x11, x12, x13, x14, x15, x16, x17, x18>>
allVars == <<part, xs, vars>>

(* A part of k variables leaves the others alone: they keep one value.      *)
Rest14 == <<x15, x16, x17, x18, vars>>
Park14 == x15 = 0 /\ x16 = 0 /\ x17 = 0 /\ x18 = 0
Rest12 == <<x13, x14, Rest14>>
Park12 == x13 = 0 /\ x14 = 0 /\ Park14
Rest11 == <<x12, Rest12>>
Park11 == x12 = 0 /\ Park12
Rest10 == <<x11, Rest11>>
Park10 == x11 = 0 /\ Park11
Rest6 == <<x7, x8, x9, x10, Rest10>>
Park6 == x7 = 0 /\ x8 = 0 /\ x9 = 0 /\ x10 = 0 /\ Park10
Park0 == x1 = 0 /\ x2 = 0 /\ x3 = 0 /\ x4 = 0 /\ x5 = 0 /\ x6 = 0 /\ Park6
-----------------------------------------------------------------------------
\* t3 hashes to a slot of its own, the others to one.
ThreadHash(T) == [t \in T |-> IF t = t3 THEN 1 ELSE 0]
MixedCalls == c1 :> {"scored", "inOrder", "from"} @@ c2 :> {"token"}
TokenCalls == [c \in {c1, c2} |-> {"token"}]
SemaphoreWant == w1 :> 1 @@ w2 :> 1 @@ w3 :> 2
SemaphoreGive == s1 :> 1 @@ s2 :> 2
BlockingMode == c1 :> "wait" @@ c2 :> "timed"

(* Two consumers, blocks of two elements, an index that starts with two     *)
(* slots, counters that wrap at 16 and are about to.                        *)
E == INSTANCE ExplicitProducer WITH
  Consumers <- {u1, u2}, Blocks <- {b1, b2, b3, b4}, BlockSize <- 2, IndexSize <- 2,
  Mod <- 16, Start <- 14, Vain <- 15, MaxVain <- 2, Elements <- 4, EnqueueSizes <- {1, 3},
  DequeueSizes <- {1, 2}, MayFail <- FALSE, MayThrow <- FALSE,
  tailIndex <- x1, headIndex <- x2, dequeueOptimisticCount <- x3, dequeueOvercommit <- x4,
  block <- x5, indices <- x6, pr <- x7, pc <- x8, con <- x9, sent <- x10, got <- x11
(* One consumer; memory runs out and constructors throw.                    *)
F == INSTANCE ExplicitProducer WITH
  Consumers <- {c1}, Blocks <- {b1, b2, b3, b4}, BlockSize <- 2, IndexSize <- 2, Mod <- 16,
  Start <- 14, Vain <- 15, MaxVain <- 1, Elements <- 7, EnqueueSizes <- {1},
  DequeueSizes <- {1, 2}, MayFail <- TRUE, MayThrow <- TRUE,
  tailIndex <- x1, headIndex <- x2, dequeueOptimisticCount <- x3, dequeueOvercommit <- x4,
  block <- x5, indices <- x6, pr <- x7, pc <- x8, con <- x9, sent <- x10, got <- x11
I == INSTANCE ImplicitProducer WITH
  Consumers <- {u1, u2}, Blocks <- {b1, b2, b3, b4}, BlockSize <- 2, IndexSize <- 2,
  Mod <- 16, Start <- 12, Elements <- 6, EnqueueSizes <- {1, 5}, DequeueSizes <- {1, 3},
  MayFail <- TRUE, MayThrow <- TRUE,
  tailIndex <- x1, headIndex <- x2, block <- x3, free <- x4, entry <- x5, indices <- x6,
  tailBlock <- x7, call <- x8, pc <- x9, con <- x10, sent <- x11, got <- x12
(* Three threads, two of which collide; a first table of two slots that     *)
(* three registrations outgrow; two threads when memory runs out.           *)
H == INSTANCE ProducerHash WITH
  Threads <- {u1, u2, t3}, Hash <- ThreadHash({u1, u2, t3}), InitialCapacity <- 2,
  MaxExits <- 1, MayFail <- FALSE,
  hashes <- x1, hashCount <- x2, resizing <- x3, inactive <- x4, created <- x5, exits <- x6,
  pc <- x7, main <- x8, count <- x9, index <- x10, prod <- x11, alive <- x12
HF == INSTANCE ProducerHash WITH
  Threads <- {u1, u2}, Hash <- ThreadHash({u1, u2}), InitialCapacity <- 2, MaxExits <- 1,
  MayFail <- TRUE,
  hashes <- x1, hashCount <- x2, resizing <- x3, inactive <- x4, created <- x5, exits <- x6,
  pc <- x7, main <- x8, count <- x9, index <- x10, prod <- x11, alive <- x12
HL == INSTANCE ProducerHash WITH
  Threads <- {u1, t3}, Hash <- ThreadHash({u1, t3}), InitialCapacity <- 2, MaxExits <- 1,
  MayFail <- FALSE,
  hashes <- x1, hashCount <- x2, resizing <- x3, inactive <- x4, created <- x5, exits <- x6,
  pc <- x7, main <- x8, count <- x9, index <- x10, prod <- x11, alive <- x12
(* One thread with a token and one without; consumers of every kind. Then   *)
(* fewer elements but a token that is dropped, and consumers with tokens    *)
(* only.                                                                    *)
Q == INSTANCE ConcurrentQueue WITH
  Threads <- {p1, p2}, Consumers <- {c1, c2}, Explicit <- {p1}, Calls <- MixedCalls,
  MaxBulk <- 2, Quota <- 2, Width <- 4, MaxProducers <- 2, MaxItems <- 2, MaxDrops <- 0,
  chain <- x1, made <- x2, count <- x3, size <- x4, inactive <- x5, offset <- x6, pc <- x7,
  ptr <- x8, prod <- x9, call <- x10, tok <- x11, full <- x12, sent <- x13, drops <- x14
QR == INSTANCE ConcurrentQueue WITH
  Threads <- {p1, p2}, Consumers <- {c1, c2}, Explicit <- {p1}, Calls <- MixedCalls,
  MaxBulk <- 1, Quota <- 2, Width <- 4, MaxProducers <- 2, MaxItems <- 1, MaxDrops <- 1,
  chain <- x1, made <- x2, count <- x3, size <- x4, inactive <- x5, offset <- x6, pc <- x7,
  ptr <- x8, prod <- x9, call <- x10, tok <- x11, full <- x12, sent <- x13, drops <- x14
QT == INSTANCE ConcurrentQueue WITH
  Threads <- {p1, p2}, Consumers <- {c1, c2}, Explicit <- {p1}, Calls <- TokenCalls,
  MaxBulk <- 1, Quota <- 2, Width <- 4, MaxProducers <- 2, MaxItems <- 2, MaxDrops <- 0,
  chain <- x1, made <- x2, count <- x3, size <- x4, inactive <- x5, offset <- x6, pc <- x7,
  ptr <- x8, prod <- x9, call <- x10, tok <- x11, full <- x12, sent <- x13, drops <- x14
(* Two queue objects that exchange what they own, with recycling of blocks  *)
(* and without.                                                             *)
L == INSTANCE QueueLifetime WITH
  Queues <- {u1, u2}, Tokens <- {k1, k2}, Threads <- {t3}, PoolSize <- 1, Recycle <- TRUE,
  MaxProducers <- 2, MaxTables <- 2, MaxBlocks <- 2,
  alive <- x1, list <- x2, array <- x3, pool <- x4, free <- x5, hash <- x6, prev <- x7,
  entries <- x8, parent <- x9, token <- x10, owned <- x11, user <- x12, inactive <- x13,
  producer <- x14, dynamic <- x15, freed <- x16, blocks <- x17, tables <- x18
LD == INSTANCE QueueLifetime WITH
  Queues <- {u1, u2}, Tokens <- {k1, k2}, Threads <- {t3}, PoolSize <- 1, Recycle <- FALSE,
  MaxProducers <- 2, MaxTables <- 0, MaxBlocks <- 3,
  alive <- x1, list <- x2, array <- x3, pool <- x4, free <- x5, hash <- x6, prev <- x7,
  entries <- x8, parent <- x9, token <- x10, owned <- x11, user <- x12, inactive <- x13,
  producer <- x14, dynamic <- x15, freed <- x16, blocks <- x17, tables <- x18
(* Three threads at the end of a pool of two blocks.                        *)
BP == INSTANCE BlockPool WITH
  Threads <- {u1, u2, t3}, CanAlloc <- {u1, u2}, initialBlockPoolSize <- 1, Width <- 8,
  MaxBlocks <- 1,
  index <- x1, free <- x2, created <- x3, held <- x4, pc <- x5, spare <- x6
(* Two threads fight for two nodes, one of them held at first.              *)
FL == INSTANCE FreeList WITH
  Threads <- {u1, u2}, Nodes <- {b1, b2}, Listed <- {b1},
  freeListHead <- x1, freeListNext <- x2, refs <- x3, should <- x4, pc <- x5, head <- x6,
  next <- x7, node <- x8, back <- x9, held <- x10
(* Two producers of three elements, singly or in bulk; a consumer that      *)
(* waits and one that times out.                                            *)
BQ == INSTANCE BlockingQueue WITH
  Producers <- {p1, p2}, Consumers <- {c1, c2}, NumItems <- 3, Bulk <- 2,
  Mode <- BlockingMode,
  inner <- x1, permits <- x2, sent <- x3, unsignalled <- x4, claim <- x5, taken <- x6

(* What the modules assume of their constants. *)
ASSUME Assumptions ==
  /\ E!ExplicitAssumption /\ F!ExplicitAssumption /\ I!ImplicitAssumption
  /\ H!HashAssumption /\ HF!HashAssumption /\ HL!HashAssumption /\ Q!QueueAssumption /\ QR!QueueAssumption /\ QT!QueueAssumption
  /\ L!LifetimeAssumption /\ LD!LifetimeAssumption /\ BP!PoolAssumption
  /\ FL!FreeListAssumption

-----------------------------------------------------------------------------
PartInit ==
  /\ part \in Parts /\ Init
  /\ \/ part = "explicit" /\ E!Init /\ Park11
     \/ part = "faults" /\ F!Init /\ Park11
     \/ part = "implicit" /\ I!Init /\ Park12
     \/ part = "producers" /\ H!Init /\ Park12
     \/ part = "producers_failing" /\ HF!Init /\ Park12
     \/ part = "producers_live" /\ HL!Init /\ Park12
     \/ part = "queue" /\ Q!Init /\ Park14
     \/ part = "recycling" /\ QR!Init /\ Park14
     \/ part = "tokens" /\ QT!Init /\ Park14
     \/ part = "lifetime" /\ L!Init
     \/ part = "lifetime_default" /\ LD!Init
     \/ part = "pool" /\ BP!Init /\ Park6
     \/ part = "free_list" /\ FL!Init /\ Park10
     \/ part = "semaphore" /\ Park0
     \/ part = "blocking" /\ BQ!Init /\ Park6

Explicit == part = "explicit" /\ E!Next /\ UNCHANGED <<part, Rest11>>
Faults == part = "faults" /\ F!Next /\ UNCHANGED <<part, Rest11>>
Implicit == part = "implicit" /\ I!Next /\ UNCHANGED <<part, Rest12>>
Producers == part = "producers" /\ H!Next /\ UNCHANGED <<part, Rest12>>
ProducersFailing == part = "producers_failing" /\ HF!Next /\ UNCHANGED <<part, Rest12>>
ProducersLive == part = "producers_live" /\ HL!Next /\ UNCHANGED <<part, Rest12>>
Queue == part = "queue" /\ Q!Next /\ UNCHANGED <<part, Rest14>>
Recycling == part = "recycling" /\ QR!Next /\ UNCHANGED <<part, Rest14>>
Tokens == part = "tokens" /\ QT!Next /\ UNCHANGED <<part, Rest14>>
Lifetime == part = "lifetime" /\ L!Next /\ UNCHANGED <<part, vars>>
LifetimeDefault == part = "lifetime_default" /\ LD!Next /\ UNCHANGED <<part, vars>>
Pool == part = "pool" /\ BP!Next /\ UNCHANGED <<part, Rest6>>
FreeNodes == part = "free_list" /\ FL!Next /\ UNCHANGED <<part, Rest10>>
Semaphore == part = "semaphore" /\ Next /\ UNCHANGED <<part, xs>>
Blocking == part = "blocking" /\ BQ!Next /\ UNCHANGED <<part, Rest6>>

(* Here a thread may have made all its calls, or a bound is reached.        *)
MayStop == {"explicit", "faults", "implicit", "producers", "producers_failing", "producers_live", "lifetime",
            "lifetime_default", "semaphore"}
Stopped == part \in MayStop /\ UNCHANGED allVars

PartNext ==
  \/ Explicit \/ Faults \/ Implicit \/ Producers \/ ProducersFailing \/ ProducersLive \/ Queue \/ Recycling
     \/ Tokens \/ Lifetime \/ LifetimeDefault \/ Pool \/ FreeNodes \/ Semaphore \/
     Blocking \/ Stopped

PartSpec == PartInit /\ [][PartNext]_allVars

(* A thread inside a call runs on and consumers keep calling. A waiter that  *)
(* the kernel or the counter could let through again and again gets through, *)
(* as does a consumer of the blocking queue. Only one part runs, so that one *)
(* condition serves the i-th thread of each.                                 *)
Runs(i) ==
  \/ part = "producers_live" /\ HL!Step(<<u1, t3>>[i]) /\ UNCHANGED <<part, Rest12>>
  \/ part = "tokens" /\ QT!Consume(<<c1, c2>>[i]) /\ UNCHANGED <<part, Rest14>>
  \/ part = "blocking" /\ BQ!Signal(<<p1, p2>>[i]) /\ UNCHANGED <<part, Rest6>>
  \/ part = "semaphore" /\ SignalerStep(<<s1, s2>>[i]) /\ UNCHANGED <<part, xs>>
Calls(i) == part = "tokens" /\ QT!Starts(<<c1, c2>>[i]) /\ UNCHANGED <<part, Rest14>>
Waits(i) ==
  \/ part = "blocking" /\ i < 3 /\ BQ!ConsumerStep(<<c1, c2>>[i]) /\ UNCHANGED <<part, Rest6>>
  \/ part = "semaphore" /\ WaiterStep(<<w1, w2, w3>>[i]) /\ UNCHANGED <<part, xs>>

PartFairSpec ==
  /\ PartSpec
  /\ \A i \in 1 .. 2 : WF_allVars(Runs(i)) /\ WF_allVars(Calls(i))
  /\ \A i \in 1 .. 3 : SF_allVars(Waits(i))
Symmetry == Permutations({u1, u2})
-----------------------------------------------------------------------------
(* Each element is dequeued once, fully constructed, and a consumer gets    *)
(* the elements of a producer in the order they were enqueued, whichever    *)
(* blocks and indices it finds them through, also after failed allocations  *)
(* and constructors that threw. ExplicitProducer::dequeue "will never       *)
(* exceed tail", and a dequeue across producers that returns with less than *)
(* it was asked for has met every producer of the list empty ("Returns      *)
(* false if all producer streams appeared empty at the time they were       *)
(* checked").                                                               *)
DequeuedOnceInOrder ==
  /\ part = "explicit" => E!TypeOK /\ E!DequeuedOnceInOrder /\ E!HeadWithinTail
  /\ part = "faults" => F!DequeuedOnceInOrder
  /\ part = "implicit" => I!TypeOK /\ I!DequeuedOnceInOrder
  /\ part = "queue" => Q!ShortMeansSeenEmpty
  /\ part = "recycling" => QR!ShortMeansSeenEmpty

(* What has not been read can be found. Through the index that is published *)
(* every unread element of an ExplicitProducer is found in its block, no    *)
(* slot being overwritten and no block refilled too early, and the counters *)
(* always tell how many elements are being claimed, modulo the width of     *)
(* index_t. Whichever index and tail a consumer of an ImplicitProducer has  *)
(* loaded, the entry it computes is that of the element's block (the        *)
(* assertions of get_block_index_index_for_index).                          *)
UnreadIndexed ==
  /\ part = "explicit" => E!UnreadIndexed /\ E!CountersConsistent
  /\ part = "faults" => F!UnreadIndexed
  /\ part = "implicit" => I!LookupFinds

(* Every block has one owner: the initial pool, the free list, one entry of *)
(* an index, or one thread. requisition_block gives none to two and asks    *)
(* the heap only as a last resort; a node of the FreeList is neither handed *)
(* out twice nor lost, and its next pointer is still valid when the head is *)
(* exchanged ("we can read the next and not worry about it changing");      *)
(* destructors, after any moves and swaps, destroy exactly the elements and *)
(* return or free exactly the blocks that are left.                         *)
BlocksOwnedOnce ==
  /\ part = "explicit" => E!DestructorExact
  /\ part = "implicit" => I!BlockOwnedOnce /\ I!DestructorReturnsAll
  /\ part = "lifetime" => L!BlocksAccounted
  /\ part = "lifetime_default" => LD!BlocksAccounted
  /\ part = "pool" => BP!TypeOK /\ BP!BlockToOne /\ BP!IndexBounded /\ BP!LastResort
  /\ part = "free_list" => FL!TypeOK /\ FL!EachNodeOnce /\ FL!NextStillValid /\ FL!TakenCleanly /\ FL!OneHolder

(* Every producer has one owner, who finds it again.                        *)
(* get_or_add_implicit_producer leads a thread to its own producer through  *)
(* all resizes, no table keeps the id of a thread that is gone, and "at     *)
(* least one slot is free in the hash table"; recycle_or_create_producer    *)
(* gives a producer to one thread, and producerCount covers the list; after *)
(* moves and swaps of queues, producers, tokens, tables and threads point   *)
(* at each other and at the queue that holds them.                          *)
ProducersOwned ==
  /\ part = "producers" =>
       /\ H!TypeOK /\ H!ProducerOfOneThread /\ H!FoundAgain
       /\ H!NoStaleIds /\ H!SlotFree
  /\ part = "producers_failing" =>
       HF!ProducerOfOneThread /\ HF!FoundAgain /\ HF!NoStaleIds /\ HF!SlotFree
  /\ part = "queue" => Q!TypeOK /\ Q!OneOwner /\ Q!CountCoversList
  /\ part = "recycling" => QR!OneOwner /\ QR!CountCoversList
  /\ part = "lifetime" =>
       /\ L!TypeOK /\ L!ParentHoldsProducer /\ L!TokensMutual
       /\ L!ChainRooted /\ L!ThreadsFindTheirs

(* Who is let through has something to take, in turn. Every announced       *)
(* waiter of the LightweightSemaphore is accounted for once, in the         *)
(* negative count or as a post on its way; permits of the                   *)
(* BlockingConcurrentQueue are exactly the elements that were signalled,    *)
(* and those of one producer are taken in order and once; a consumer with a *)
(* token that has had its quota of a producer finds the global offset moved *)
(* ("Every 256 items from one producer, make everyone rotate").             *)
TakenInTurn ==
  /\ part = "semaphore" => TypeOK /\ WaitersAccounted
  /\ part = "blocking" => BQ!TypeOK /\ BQ!PermitsBacked /\ BQ!TakenInOrder
  /\ part = "tokens" => QT!RotatesAtQuota

(* No waiter of the semaphore starves while permits are left over; every    *)
(* element enqueued is eventually dequeued, in the blocking queue by some   *)
(* waiting call, in the plain queue whatever producer it is in and however  *)
(* the tokens rotate; and get_or_add_implicit_producer and the thread exit  *)
(* return, nobody probing or waiting for a resize for ever.                 *)
EverythingTaken ==
  /\ []<>(part = "semaphore" => Served)
  /\ \A i \in 1 .. 2 :
       []<>(/\ part = "blocking" => BQ!Drained(<<p1, p2>>[i])
            /\ part = "tokens" => QT!Drained(i)
            /\ part = "producers_live" => HL!Returned(<<u1, t3>>[i]))
=============================================================================
