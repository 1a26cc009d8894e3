---------------------------- MODULE MCParlayData -----------------------------
(* The memory, the algorithms and the data structures of parlay for TLC.    *)
(* The modules are separate machines: the initial state picks one of Parts, *)
(* and the steps are those of its module, on the variables x1, x2, ... in   *)
(* the order of its declaration. ThreadSpecific has its own variables,      *)
(* which stay as they are in all other parts but thread_storage: four       *)
(* threads at a time with chunks of one element, so that two of them need   *)
(* the same new chunk.                                                      *)
EXTENDS ThreadSpecific, TLC

CONSTANTS
  Parts,           \* the parts that a run checks, one after the other
  u1, u2, t3, t4,  \* interchangeable: threads, blocks, nodes, elements
  n1               \* one more node

VARIABLES part,  \* the part that runs
          x1, x2, x3, x4, x5, x6, x7, x8, x9, x10, x11  \* its variables

xs == <<x1, x2, x3, x4, x5, x6, x7, x8, x9, x10, x11>>
allVars == <<part, xs, vars>>

(* A part of k variables leaves the others alone: they keep one value.      *)
Rest10 == <<x11, vars>>
Park10 == x11 = 0
Rest9 == <<x10, Rest10>>
Park9 == x10 = 0 /\ Park10
Rest8 == <<x9, Rest9>>
Park8 == x9 = 0 /\ Park9
Rest5 == <<x6, x7, x8, Rest8>>
Park5 == x6 = 0 /\ x7 = 0 /\ x8 = 0 /\ Park8
Rest4 == <<x5, Rest5>>
Park4 == x5 = 0 /\ Park5
Park0 == x1 = 0 /\ x2 = 0 /\ x3 = 0 /\ x4 = 0 /\ Park4
-----------------------------------------------------------------------------
Symmetry == Permutations({u1, u2, t3, t4})
FirstIndex == (1 :> 4) @@ (2 :> 4) @@ (3 :> 0) @@ (4 :> 5)
Sequences(keys, lengths) == UNION {[1 .. l -> keys] : l \in lengths}
CachedInputs == {s \in Sequences(1 .. 2, {9}) : s[1] = 2 /\ s[4] = 1 /\ s[9] = 1}
SampleHash(i) == 5 * i + 2

(* Keys around the end of the table.                                        *)
HD == INSTANCE HashTable WITH
  Threads <- {u1, u2}, m <- 6, Keys <- {1, 2, 3, 4}, Vals <- {1}, hash <- FirstIndex,
  Phases <- <<"insert", "delete">>, MaxCalls <- 4,
  TA <- x1, phase <- x2, calls <- x3, thread <- x4, wanted <- x5
(* Six births of three threads, so that an ID can be given back and taken   *)
(* again while another thread is about to take it.                          *)
TS == INSTANCE ThreadSpecific WITH
  Threads <- {u1, u2, t3}, ChunkSize <- 6, MaxBirths <- 6,
  num_ids <- x1, available <- x2, next <- x3, m <- x4, chunks <- x5, growing <- x6,
  thread <- x7, births <- x8
(* Reclamation at every retirement, and at every second one.                *)
HS == INSTANCE HazptrStack WITH
  Threads <- {u1, u2}, Nodes <- {t3, t4}, Threshold <- 1, MaxCalls <- 5,
  head <- x1, node <- x2, slot <- x3, retired <- x4, work <- x5, thread <- x6, ret <- x7,
  stack <- x8, calls <- x9
HA == INSTANCE HazptrStack WITH
  Threads <- {u1, u2}, Nodes <- {n1, t3, t4}, Threshold <- 2, MaxCalls <- 4,
  head <- x1, node <- x2, slot <- x3, retired <- x4, work <- x5, thread <- x6, ret <- x7,
  stack <- x8, calls <- x9
BA == INSTANCE BlockAllocator WITH
  Threads <- {u1, u2}, list_length <- 2, MaxBuffers <- 3, MaxFrees <- 5, MaxClears <- 1,
  next <- x1, local <- x2, global <- x3, buffers <- x4, blocks_allocated <- x5, held <- x6,
  pc <- x7, frees <- x8, clears <- x9
(* Sizes below, on and above the buckets. The statistics are those of the   *)
(* allocator's own calls.                                                   *)
PA == INSTANCE PoolAllocator WITH
  sizes <- <<16, 32, 64, 128, 256>>, large_threshold <- 128, max_alignment <- 128,
  Requests <- {8, 40, 64, 100, 200, 256, 300}, Alignments <- {16, 64},
  Clients <- {"allocator", "p_malloc"}, Ids <- {u1, u2}, MaxCalls <- 5, WordSize <- 16,
  block <- x1, large_allocated <- x2, large_used <- x3, calls <- x4
PT == INSTANCE PoolAllocator WITH
  sizes <- <<16, 32, 64, 128, 256>>, large_threshold <- 128, max_alignment <- 128,
  Requests <- {8, 40, 64, 100, 200, 256, 300}, Alignments <- {16, 64},
  Clients <- {"allocator"}, Ids <- {u1, u2}, MaxCalls <- 6, WordSize <- 16,
  block <- x1, large_allocated <- x2, large_used <- x3, calls <- x4
(* Several blocks; three buckets, and the two that group_by treats apart.   *)
CS == INSTANCE CountSort WITH
  Inputs <- Sequences(0 .. 2, {0, 1, 2, 5}), num_buckets <- 3, SEQ_THRESHOLD <- 2,
  Unit <- 2, Kinds <- {"copy", "inplace", "skip", "group"}, Word <- 256,
  kind <- x1, keys <- x2, In <- x3, Out <- x4, pc <- x5, left <- x6, counts <- x7,
  bucket_offsets <- x8, dest_offsets <- x9, written <- x10
C2 == INSTANCE CountSort WITH
  Inputs <- Sequences(0 .. 1, {0, 1, 3, 4, 5}), num_buckets <- 2, SEQ_THRESHOLD <- 2,
  Unit <- 2, Kinds <- {"group"}, Word <- 256,
  kind <- x1, keys <- x2, In <- x3, Out <- x4, pc <- x5, left <- x6, counts <- x7,
  bucket_offsets <- x8, dest_offsets <- x9, written <- x10
IS == INSTANCE IntegerSort WITH
  Calls <- {"inplace", "copy", "offsets", "counts"},
  Inputs <- Sequences({0, 1, 2, 3, 5, 6}, {0, 1, 3}), AskedBits <- {0, 3}, radix <- 1,
  base_bits <- 1, BASE_CASE_SIZE <- 2, SEQ_THRESHOLD <- 2, trivially_relocatable <- TRUE,
  call <- x1, keys <- x2, bits <- x3, buckets <- x4, mem <- x5, tasks <- x6, offsets <- x7,
  pc <- x8, left <- x9, starts <- x10, ends <- x11
(* Equal keys, so that pivots coincide; and the transpose by blocks.        *)
SS == INSTANCE SampleSort WITH
  Sorts <- {"copy", "stable", "inplace"}, Inputs <- Sequences(1 .. 3, {5, 6}),
  hash64 <- SampleHash, block_quotient <- 2, bucket_quotient <- 1, OVER_SAMPLE <- 1,
  sample_blocks <- 1, Cached <- FALSE, TRANS_THRESHOLD <- 3, Factor <- 1,
  sort <- x1, keys <- x2, mem <- x3, pivots <- x4, counts <- x5, dest <- x6, pc <- x7,
  left <- x8, offsets <- x9
SC == INSTANCE SampleSort WITH
  Sorts <- {"copy", "stable", "inplace"}, Inputs <- CachedInputs, hash64 <- SampleHash,
  block_quotient <- 2, bucket_quotient <- 1, OVER_SAMPLE <- 1, sample_blocks <- 1,
  Cached <- TRUE, TRANS_THRESHOLD <- 3, Factor <- 1,
  sort <- x1, keys <- x2, mem <- x3, pivots <- x4, counts <- x5, dest <- x6, pc <- x7,
  left <- x8, offsets <- x9
(* Two sequences: of at most two elements without short-size optimisation,  *)
(* and of at most three with two inline cells.                              *)
SQ == INSTANCE ParlaySequence WITH
  Values <- {u1, u2}, ShortCapacity <- 0, MaxLen <- 2, Counts <- {2}, Aliases <- FALSE,
  seqs <- x1, mem <- x2, live <- x3, todo <- x4, it <- x5, fault <- x6, model <- x7,
  expected <- x8
SH == INSTANCE ParlaySequence WITH
  Values <- {u1, u2}, ShortCapacity <- 2, MaxLen <- 3, Counts <- {2}, Aliases <- FALSE,
  seqs <- x1, mem <- x2, live <- x3, todo <- x4, it <- x5, fault <- x6, model <- x7,
  expected <- x8

(* What the modules assume of their constants. *)
ASSUME Assumptions ==
  /\ TS!ChunkSizeAssumption /\ HS!ThresholdAssumption
  /\ HA!ThresholdAssumption /\ BA!ListLengthAssumption /\ PA!SizesAssumption
  /\ PT!SizesAssumption /\ CS!BucketsAssumption /\ C2!BucketsAssumption
  /\ IS!RadixAssumption /\ SS!QuotientsAssumption /\ SC!QuotientsAssumption
  /\ SQ!SequenceAssumption /\ SH!SequenceAssumption

(* sample_sort.h: with the quotients of the code, from its threshold on, the *)
(* last block is not empty, and the sample in place fits and has a pivot for *)
(* each bucket.                                                              *)
RealLengths == (16384 .. 16450) \cup {20000, 32767, 65535, 65536, 65537, 99856, 100001}
ASSUME RealSizes ==
  \A len \in RealLengths : \A q \in {3, 4} :
    LET blocks == SS!BlocksFor(len, q)
        size == SS!SizeFor(len, blocks)
    IN  (blocks - 1) * size < len /\ len <= blocks * size
        /\ 4 * size <= len /\ \A b \in {2, 3, 4} : 4 * size >= SS!Sqrt(len) \div b

-----------------------------------------------------------------------------
PartInit ==
  /\ part \in Parts /\ Init
  /\ \/ part = "hash_delete" /\ HD!Init /\ Park5
     \/ part = "thread_ids" /\ TS!Init /\ Park8
     \/ part = "thread_storage" /\ Park0
     \/ part = "hazptr" /\ HS!Init /\ Park9
     \/ part = "hazptr_amortized" /\ HA!Init /\ Park9
     \/ part = "blocks" /\ BA!Init /\ Park9
     \/ part = "pools" /\ PA!Init /\ Park4
     \/ part = "pool_stats" /\ PT!Init /\ Park4
     \/ part = "count_sort" /\ CS!Init /\ Park10
     \/ part = "group_by_two" /\ C2!Init /\ Park10
     \/ part = "integer_sort" /\ IS!Init
     \/ part = "sample_sort" /\ SS!Init /\ Park9
     \/ part = "sample_cached" /\ SC!Init /\ Park9
     \/ part = "sequence" /\ SQ!Init /\ Park8
     \/ part = "short_sequence" /\ SH!Init /\ Park8

HashDelete == part = "hash_delete" /\ HD!Next /\ UNCHANGED <<part, Rest5>>
ThreadIds == part = "thread_ids" /\ TS!Next /\ UNCHANGED <<part, Rest8>>
ThreadStorage == part = "thread_storage" /\ Next /\ UNCHANGED <<part, xs>>
Hazptr == part = "hazptr" /\ HS!Next /\ UNCHANGED <<part, Rest9>>
HazptrAmortized == part = "hazptr_amortized" /\ HA!Next /\ UNCHANGED <<part, Rest9>>
Blocks == part = "blocks" /\ BA!Next /\ UNCHANGED <<part, Rest9>>
Pools == part = "pools" /\ PA!Next /\ UNCHANGED <<part, Rest4>>
PoolStats == part = "pool_stats" /\ PT!Next /\ UNCHANGED <<part, Rest4>>
CountSorts == part = "count_sort" /\ CS!Next /\ UNCHANGED <<part, Rest10>>
GroupByTwo == part = "group_by_two" /\ C2!Next /\ UNCHANGED <<part, Rest10>>
IntegerSorts == part = "integer_sort" /\ IS!Next /\ UNCHANGED <<part, vars>>
SampleSorts == part = "sample_sort" /\ SS!Next /\ UNCHANGED <<part, Rest9>>
SampleCached == part = "sample_cached" /\ SC!Next /\ UNCHANGED <<part, Rest9>>
Sequence == part = "sequence" /\ SQ!Next /\ UNCHANGED <<part, Rest8>>
ShortSequence == part = "short_sequence" /\ SH!Next /\ UNCHANGED <<part, Rest8>>

PartNext ==
  \/ HashDelete \/ ThreadIds \/ ThreadStorage \/ Hazptr \/ HazptrAmortized
  \/ Blocks \/ Pools \/ PoolStats \/ CountSorts \/ GroupByTwo \/ IntegerSorts
  \/ SampleSorts \/ SampleCached \/ Sequence \/ ShortSequence

PartSpec == PartInit /\ [][PartNext]_allVars
-----------------------------------------------------------------------------
(* The algorithms give the results of the plain ones. The hash table holds  *)
(* what was inserted and not deleted, each key once and in the one order    *)
(* its elements have (hash_table.h). The sorts never lose or double an      *)
(* object that they relocate, and at the end the result is in order, with   *)
(* its offsets and counts (counting_sort.h, integer_sort.h, sample_sort.h). *)
ResultsExact ==
  /\ part = "hash_delete" => HD!FindsExactly /\ HD!HistoryIndependent
  /\ part = "count_sort" => CS!ObjectsConserved /\ CS!Grouped /\ CS!SkippedSorted
  /\ part = "group_by_two" => C2!ObjectsConserved /\ C2!Grouped
  /\ part = "integer_sort" =>
       IS!ObjectsConserved /\ IS!Postconditions /\ IS!OffsetsExact /\ IS!CountsExact
  /\ part = "sample_sort" =>
       SS!ObjectsConserved /\ SS!SortedResult /\ SS!PivotsStay /\ SS!CountsWritten
  /\ part = "sample_cached" => SC!ObjectsConserved /\ SC!SortedResult

(* hazptr_stack.h is a LIFO stack: push and pop take effect at their        *)
(* exchange, a pop that finds nothing and size at the second look of        *)
(* acquire.                                                                 *)
ImplementsStack ==
  /\ part = "hazptr" => HS!Lifo!Init
  /\ [][part = "hazptr" => HS!Lifo!Next \/ UNCHANGED HS!Lifo!vars]_allVars

(* Memory is in one place and in use by one. No thread reads a node that    *)
(* was destroyed, and each node is on the stack, in the hands of one        *)
(* thread, or in one list of retired nodes (acquire_retire.h,               *)
(* hazptr_stack.h). Each block is with a caller or on one list, whoever     *)
(* frees it, local lists are bounded and the number of used blocks is exact *)
(* (block_allocator.h). What p_malloc returns is large enough, aligned, and *)
(* found again in its bucket by p_free (alloc.h, pool_allocator.h). Every   *)
(* thread ID comes back, each active thread has its own object, made for    *)
(* its ID, and an iteration meets these once, in order, across chunks in    *)
(* both directions (thread_id_pool.h, thread_specific.h).                   *)
MemoryAccounted ==
  /\ part = "thread_ids" => TS!UniqueIds /\ TS!AllIdsReturned
  /\ part = "thread_storage" => TypeOK /\ EachIdItsElement /\ IteratorsExact
  /\ part = "hazptr" => HS!NoUseAfterFree /\ HS!NodesAccounted /\ HS!StackIsChain
  /\ part = "hazptr_amortized" => HA!TypeOK /\ HA!RetiredChained
  /\ part = "blocks" => BA!TypeOK /\ BA!BlocksAccounted /\ BA!LocalBounded /\ BA!UsedExact
  /\ part = "pools" => PA!BlocksFit /\ PA!BucketsExact
  /\ part = "pool_stats" => PT!UsedExact

(* sequence.h:62: after every operation a sequence holds what a vector      *)
(* would ("designed to be a fully-parallel drop-in replacement for          *)
(* std::vector"). On the way no step constructs over an element, destroys   *)
(* or reads a cell that has none, or leaves its buffer; between operations  *)
(* every element and buffer belongs to exactly one sequence; the iterators  *)
(* that insert and erase return point where they should; and append never   *)
(* makes the capacity smaller, so that a reserve is not thrown away.        *)
HoldsAsVector ==
  /\ [](part = "sequence" =>
         SQ!NoMisuse /\ SQ!HoldsAsVector /\ SQ!StorageExact /\ SQ!IteratorValid)
  /\ [](part = "short_sequence" => SH!NoMisuse /\ SH!HoldsAsVector /\ SH!StorageExact)
  /\ [][part = "sequence" => SQ!KeepsCapacity]_allVars
=============================================================================
