----------------------------- MODULE MCBackends -----------------------------
(* The backends, the query processor, the tree libraries, the workload      *)
(* generator and the driver for TLC. They are separate machines here: the   *)
(* initial state picks one of Parts, and the steps are those of its module, *)
(* on the variables x1, x2, ... in the order of its declaration. The query  *)
(* processor, with two threads and four queries, has its own variables,     *)
(* which stay as they are in all other parts; the clients of a backend are  *)
(* among x1, x2, ...                                                        *)
EXTENDS QueryProcessor, TLC

CONSTANTS
  Parts,    \* the parts that a run checks, one after the other
  null      \* the null pointer of the treaps

VARIABLES part,  \* the part that runs
          x1, x2, x3, x4, x5, x6, x7, x8, x9, x10, x11, x12, x13, x14, x15,
  x16, x17, x18  \* its variables

xs == <<x1, x2, x3, x4, x5, x6, x7, x8, x9, x10, x11, x12, x13, x14, x15, x16, x17, x18>>
allVars == <<part, xs, vars>>

(* A part of k variables leaves the others alone: they keep one value.      *)
Rest16 == <<x17, x18, vars>>
Park16 == x17 = 0 /\ x18 = 0
Rest15 == <<x16, Rest16>>
Park15 == x16 = 0 /\ Park16
Rest10 == <<x11, x12, x13, x14, x15, Rest15>>
Park10 == x11 = 0 /\ x12 = 0 /\ x13 = 0 /\ x14 = 0 /\ x15 = 0 /\ Park15
Rest9 == <<x10, Rest10>>
Park9 == x10 = 0 /\ Park10
Rest5 == <<x6, x7, x8, x9, Rest9>>
Park5 == x6 = 0 /\ x7 = 0 /\ x8 = 0 /\ x9 = 0 /\ Park9
Rest3 == <<x4, x5, Rest5>>
Park3 == x4 = 0 /\ x5 = 0 /\ Park5
Park0 == x1 = 0 /\ x2 = 0 /\ x3 = 0 /\ Park3
-----------------------------------------------------------------------------
FiveHash == <<2, 5, 3, 1, 4>>
FiveContents == <<1, 2, 1, 1, 0>>
PamHash == <<1, 5, 2, 3, 4>>
FourHash == <<3, 1, 4, 2>>

\* The tree without key 5 has the path 2, 6, 3, 4, and key 5 belongs between 3 and 4.
PathHash == <<5, 7, 4, 2, 3, 6>>
PathContents == <<1, 1, 1, 1, 0, 1>>
InsertOf(k) == [op |-> "OP_INSERT", key |-> k]
DeleteOf(k) == [op |-> "OP_DELETE", key |-> k]
PipeWorkloads ==
  { <<InsertOf(4), DeleteOf(3), InsertOf(5)>>,
    <<DeleteOf(2), InsertOf(4), DeleteOf(6)>>,
    <<InsertOf(3), DeleteOf(4), InsertOf(2)>> }

\* One draw each; the hash is a permutation of the small words.
WordHash == [v \in 0 .. 15 |-> (5 * v + 3) % 16]
Base == [recordcount |-> 3, operationcount |-> 3, maxscanlength |-> 2, insertorder |-> "ordered"]
WorkloadSpecs ==
  [uniform  |-> [readproportion |-> 1, insertproportion |-> 1, scanproportion |-> 1] @@ Base,
   hashed   |-> [insertorder |-> "hashed"] @@ Base,
   deletes  |-> [updatedelete |-> TRUE, readproportion |-> 0] @@ Base,
   zipfian  |-> [requestdistribution |-> "zipfian", insertproportion |-> 1] @@ Base,
   latest   |-> [requestdistribution |-> "latest", insertproportion |-> 1, updateproportion |-> 0] @@ Base,
   unknown  |-> [requestdistribution |-> "normal"] @@ Base,
   even     |-> [recordcount |-> 4, operationcount |-> 2, insertproportion |-> 1] @@ Base,
   rmw      |-> [readmodifywriteproportion |-> 1] @@ Base,
   scanzipf |-> [scanproportion |-> 1, scanlengthdistribution |-> "zipfian"] @@ Base]
Use(spec) == <<<<"-db", "export">>, <<"-P", spec>>>>
OneClientLines ==
  {Use(s) : s \in {"uniform", "hashed", "deletes", "zipfian", "latest", "unknown"}}
  \cup {<<<<"-P", "uniform">>, <<"-db", "tbb_rand">>>>, <<>>, <<<<"-P", "absent">>>>}
ClientsLines == {Use("even") \o <<<<"-threads", 2>>>>, Use("rmw"), Use("scanzipf")}
CommandLines ==
  {<<"contreap", "w", <<<<"-batchsize", 0>>, <<"-threads", 2>>>>>>,
   <<"pam", "w", <<<<"-batchsize", 2>>, <<"-clients", 2>>>>>>,
   <<"sequential", "w", <<>>>>, <<"unknown", "w", <<>>>>,
   <<"pam">>, <<"pam", "w", <<<<"-clients">>>>>>}

(* Absent, single and double keys, at the root, inside and at the leaves,   *)
(* and one query among the transactions.                                    *)
SE == INSTANCE Sequential WITH
  Keys <- 1 .. 5, Hash <- FiveHash, nullptr <- null, Clients <- {1}, NumQueries <- 1,
  NumTasks <- 3, Contents0 <- FiveContents,
  main <- x1, working <- x2, num_queries <- x3, queries <- x4, client <- x5, look <- x6, q <- x7,
  results <- x8, heap <- x9, roots <- x10, num_versions <- x11, modifier <- x12, current <- x13,
  log <- x14, versions <- x15, crashed <- x16
(* Four transactions in batches of two: full ones, ones cut short by the    *)
(* other type, and the one that Close flushes.                              *)
B == INSTANCE Batch WITH
  Keys <- {1, 2}, Clients <- {1}, NumQueries <- 2, NumTasks <- 4, BatchSize <- 2,
  Contents0 <- (1 :> 1 @@ 2 :> 0),
  main <- x1, working <- x2, num_queries <- x3, queries <- x4, client <- x5, look <- x6, q <- x7,
  results <- x8, modifier <- x9, task <- x10, buffer_type <- x11, buffer <- x12,
  version_committed <- x13, roots <- x14, num_versions <- x15, log <- x16, versions <- x17,
  cursor <- x18
(* The clients of two threads wait for the snapshots of one worker.         *)
C == INSTANCE Contreap WITH
  Clients <- 1 .. 2, NumQueries <- 2, NumWorkers <- 1, NumTasks <- 4, BlockSize <- 2,
  main <- x1, working <- x2, num_queries <- x3, queries <- x4, client <- x5, look <- x6, q <- x7,
  results <- x8, num_issued <- x9, versions <- x10, num_fetched <- x11, worker <- x12,
  num_estimated <- x13, done <- x14, crashed <- x15
(* A full tree, then every pair of batches.                                 *)
PT == INSTANCE PamTree WITH
  Keys <- 1 .. 5, Hash <- PamHash, Loads <- {<<3, 1, 4, 2, 5, 2>>}, MaxElems <- 2,
  MaxBatches <- 2,
  store <- x1, next <- x2, roots <- x3, log <- x4, temps <- x5
(* Every file of up to four records.                                        *)
TB == INSTANCE TreapBuild WITH
  Keys <- 1 .. 4, Hash <- FourHash, nullptr <- null, MaxElems <- 4,
  elems <- x1, heap <- x2, frames <- x3
(* Two pipes: the step of the second one restructures, and it concatenates. *)
SP == INSTANCE Scheduler WITH
  Keys <- 1 .. 6, Hash <- PathHash, nullptr <- null, NumThreads <- 4, NumTasks <- 3,
  BlockSize <- 3, Contents0 <- PathContents, Workloads <- PipeWorkloads,
  txs <- x1, heap <- x2, ctxs <- x3, stage <- x4, passed <- x5, num_submitted <- x6,
  num_fetched <- x7, num_committed <- x8, worker <- x9, num_estimated <- x10
(* The generator with one client, and with the command lines that make two  *)
(* clients meet or end it early.                                            *)
Y == INSTANCE Ycsbc WITH
  Width <- 16, FNVHash64 <- WordHash, CommandLines <- OneClientLines, Specs <- WorkloadSpecs,
  main <- x1, props <- x2, fs <- x3, running <- x4, inited <- x5, key_generator <- x6,
  client <- x7, lens <- x8, ops <- x9
YC == INSTANCE Ycsbc WITH
  Width <- 16, FNVHash64 <- WordHash, CommandLines <- ClientsLines, Specs <- WorkloadSpecs,
  main <- x1, props <- x2, fs <- x3, running <- x4, inited <- x5, key_generator <- x6,
  client <- x7, lens <- x8, ops <- x9
DR == INSTANCE Driver WITH
  Width <- 16, FNVHash64 <- WordHash, CommandLines <- OneClientLines,
  Specs <- WorkloadSpecs, DriverLines <- CommandLines, Cores <- 4,
  main <- x1, props <- x2, fs <- x3, running <- x4, inited <- x5, key_generator <- x6,
  client <- x7, lens <- x8, ops <- x9, driver <- x10, opts <- x11, loaded <- x12,
  txs <- x13, issued <- x14, at <- x15

(* What the modules assume of their constants. *)
ASSUME Assumptions ==
  /\ SE!ClientsAssumption /\ SE!NumQueriesAssumption /\ SE!KeysAssumption /\ SE!HashAssumption /\ SE!NumTasksAssumption /\ SE!Contents0Assumption
  /\ B!ClientsAssumption /\ B!NumQueriesAssumption /\ B!NumTasksAssumption
  /\ B!BatchSizeAssumption /\ B!Contents0Assumption
  /\ C!ClientsAssumption /\ C!NumQueriesAssumption /\ C!BackendAssumption
  /\ PT!HashInjective /\ TB!KeysAssumption /\ TB!HashAssumption /\ TB!MaxElemsAssumption
  /\ SP!NumThreadsAssumption /\ SP!NumTasksAssumption /\ SP!BlockSizeAssumption
  /\ SP!Contents0Assumption /\ SP!WorkloadsAssumption /\ SP!KeysAssumption /\ SP!HashAssumption
  /\ Y!WidthAssumption /\ Y!FNVHash64Assumption /\ DR!CoresAssumption

-----------------------------------------------------------------------------
PartInit ==
  /\ part \in Parts /\ Init
  /\ \/ part = "sequential" /\ SE!BackendInit /\ Park16
     \/ part = "batch" /\ B!BackendInit
     \/ part = "query_processor" /\ Park0
     \/ part = "contreap" /\ C!BackendInit /\ Park15
     \/ part = "pam_tree" /\ PT!Init /\ Park5
     \/ part = "treap_build" /\ TB!Init /\ Park3
     \/ part = "scheduler_pipes" /\ SP!Init /\ Park10
     \/ part = "ycsbc" /\ Y!Init /\ Park9
     \/ part = "ycsbc_clients" /\ YC!Init /\ Park9
     \/ part = "driver" /\ DR!DriverInit /\ Park15

Sequential == part = "sequential" /\ SE!BackendNext /\ UNCHANGED <<part, Rest16>>
Batch == part = "batch" /\ B!BackendNext /\ UNCHANGED <<part, vars>>
Queries == part = "query_processor" /\ Next /\ UNCHANGED <<part, xs>>
Contreap == part = "contreap" /\ C!BackendNext /\ UNCHANGED <<part, Rest15>>
PamTree == part = "pam_tree" /\ PT!Next /\ UNCHANGED <<part, Rest5>>
TreapBuild == part = "treap_build" /\ TB!Next /\ UNCHANGED <<part, Rest3>>
SchedulerPipes == part = "scheduler_pipes" /\ SP!Next /\ UNCHANGED <<part, Rest10>>
Generator == part = "ycsbc" /\ Y!Next /\ UNCHANGED <<part, Rest9>>
Generators == part = "ycsbc_clients" /\ YC!Next /\ UNCHANGED <<part, Rest9>>
Driver == part = "driver" /\ DR!DriverNext /\ UNCHANGED <<part, Rest15>>

(* Here all transactions of the bound are made.                             *)
PartStopped == part = "pam_tree" /\ UNCHANGED allVars

PartNext ==
  \/ Sequential \/ Batch \/ Queries \/ Contreap \/ PamTree \/ TreapBuild \/
     SchedulerPipes \/ Generator \/ Generators \/ Driver \/ PartStopped

PartSpec == PartInit /\ [][PartNext]_allVars

(* Every thread is run: main, the workers and the clients. Only one part     *)
(* runs, so that one condition serves the i-th thread of each.               *)
Runs(i) ==
  \/ /\ part = "batch" /\ UNCHANGED <<part, vars>>
     /\ (i = 1 /\ B!Modifier) \/ (i = 2 /\ B!ClientStep(1))
  \/ /\ part = "query_processor" /\ UNCHANGED <<part, xs>>
     /\ \/ i = 1 /\ (Start \/ Join)
        \/ i \in {2, 3} /\ Client(i - 1)
  \/ /\ part = "contreap" /\ ~x15 /\ UNCHANGED <<part, Rest15>>
     /\ \/ i = 1 /\ C!Modifier
        \/ i \in {2, 3} /\ C!ClientStep(i - 1)
        \/ i = 4 /\ (C!Fetch(1) \/ C!Run(1))
  \/ /\ part = "ycsbc" /\ i = 1 /\ UNCHANGED <<part, Rest9>>
     /\ Y!Main \/ \E j \in DOMAIN x7 : x1 \in {"load", "run"} /\ Y!Client(j)
  \/ /\ part = "ycsbc_clients" /\ i = 1 /\ UNCHANGED <<part, Rest9>>
     /\ YC!Main \/ \E j \in DOMAIN x7 : x1 \in {"load", "run"} /\ YC!Client(j)

PartFairSpec == PartSpec /\ \A i \in 1 .. 4 : WF_allVars(Runs(i))
-----------------------------------------------------------------------------
(* db/sequential.hpp and lib/treap/scheduler.hpp implement the map of       *)
(* VersionedMap.tla: a version for each transaction, in the order they were *)
(* issued, never changed again. Path copying gives it to the one, the order *)
(* of the pipes and of the commits to the other.                            *)
ImplementsVersionedMap ==
  /\ part = "sequential" => SE!M!Init
  /\ part = "scheduler_pipes" => SP!M!Init
  /\ [][part = "sequential" => SE!M!Next \/ UNCHANGED SE!M!vars]_allVars
  /\ [][part = "scheduler_pipes" => SP!M!Next \/ UNCHANGED SP!M!vars]_allVars

(* Every version is the treap of its keys, whoever made it: search_insert   *)
(* and search_delete one after the other, or step by step in the stations   *)
(* of the scheduler, where a committed version reaches finished nodes only; *)
(* copy_merge and copy_subtract of lib/pam, with the sums and the values of *)
(* every node; and build_parallel, whose halves run in any order.           *)
VersionsAreTreaps ==
  /\ part = "sequential" => SE!TypeOK /\ SE!BackendTypeOK /\ SE!VersionsAreTreaps
  /\ part = "scheduler_pipes" => SP!TypeOK /\ SP!CommittedTreaps
  /\ part = "pam_tree" => PT!VersionsAreTreaps
  /\ part = "treap_build" => TB!BuiltAsStated

(* Every query is answered once, in the order of its client                 *)
(* (query_processor.hpp), from a version that is finished: from a root that *)
(* is stored although its counter was raised first (sequential.hpp), from   *)
(* the first published batch that holds the version, wherever the cursor    *)
(* stood (batch.hpp), from a snapshot all of whose tasks are done           *)
(* (contreap.hpp with one worker). The answer of the sequential backend,    *)
(* and that of a batch at its end, is what the updates up to there made of  *)
(* the keys, although range_estimate trusts cached sums and vstat.          *)
QueriesAnswered ==
  /\ part = "query_processor" => TypeOK /\ EachQueryOnce /\ ClientsInOrder /\ ClaimsBacked
  /\ part = "sequential" => SE!QueriesAnswered
  /\ part = "batch" => B!TypeOK /\ B!BackendTypeOK /\ B!CursorPublished /\ B!RightBatch /\ B!BatchEndsAnswered
  /\ part = "pam_tree" => PT!RangeIsSum /\ PT!BatchEndsRight
  /\ part = "contreap" => C!AnsweredWhenDone

(* README.md, batch.hpp: a query inside a batch is answered for its own     *)
(* moment, the versions kept with the values giving the count of every key  *)
(* at that version.                                                         *)
MomentsAnswered == part = "batch" => B!MomentsAnswered

(* Nodes that are relinked in place have one owner. The forked halves of    *)
(* lib/treap/build.hpp never meet and release exactly the nodes whose key   *)
(* another one has; every node of the temporary tree of a batch (lib/pam)   *)
(* ends in the new version or is released.                                  *)
NodesOwned ==
  /\ part = "treap_build" => TB!OwnedApart /\ TB!NothingLeaked
  /\ part = "pam_tree" => PT!TemporariesPlaced

(* lib/pam: nodes that a version shares with the trees later batches are    *)
(* made of are never written or released again, whichever algorithm meets   *)
(* them first.                                                              *)
VersionsKept == [][part = "pam_tree" => PT!KeepsVersions]_allVars

(* The backend sees what the generator did: its file has the numbers of     *)
(* records and transactions that are at its head (ycsbc/db/export.hpp), the *)
(* keys of queries and updates exist and inserted ones are new              *)
(* (core_workload.h), no two clients are in the database at a time, and     *)
(* main.cpp issues the records and transactions in order, with a batch size *)
(* above zero and as many transactions as Init was told of.                 *)
IssuedIsGenerated ==
  /\ part = "ycsbc" => Y!FileWellFormed /\ Y!KeysExist /\ Y!SequenceFresh /\ Y!ScanLengths
  /\ part = "ycsbc_clients" => YC!TypeOK /\ YC!OneClientOpen
  /\ part = "driver" => DR!BackendRequirements /\ DR!IssuedIsGenerated

(* Everybody comes back: Close of the batch backend, also when a client     *)
(* waits for a version that is still in the buffer; Close of the contreap   *)
(* backend, unless a client ends the program; Stop of the query processor,  *)
(* whose queries are answered unless Stop is called first or the clients    *)
(* collide for ever; the generator, whatever it draws.                      *)
CallsReturn ==
  /\ []<>(part = "batch" => x1 = "stopped")
  /\ AnsweredUnlessStopped
  /\ []<>(part = "query_processor" => main # "join")
  /\ []<>(part = "contreap" => x1 = "stopped" \/ x15)
  /\ []<>(part \in {"ycsbc", "ycsbc_clients"} => x1 \in {"finished", "abort", "exit", "uncaught"})
=============================================================================
