----------------------------- MODULE Sequential -----------------------------
(***************************************************************************)
(* The baseline backend (db/sequential.hpp): the modifier thread applies   *)
(* each transaction to the newest tree and stores the root of the next     *)
(* version, which it has counted in num_versions_ before; the clients, who *)
(* are those of QueryProcessor, read the roots of the versions pushed with *)
(* their queries.                                                          *)
(***************************************************************************)
EXTENDS Treap, QueryProcessor

CONSTANTS NumTasks,  \* m: the number of transactions
          Contents0  \* the elements loaded by Init, as counts of the keys

NumTasksAssumption == NumTasks \in Nat
Contents0Assumption == Contents0 \in [Keys -> Nat]

VARIABLES heap,         \* the nodes
          roots,        \* roots_[0..num_versions_]
          num_versions, \* num_versions_
          modifier,     \* the next step of the operation, or "ready"
          current,      \* the operation
          log,          \* history: the transactions whose root is stored
          versions,     \* the versions the queries were pushed with
          crashed       \* a null pointer was dereferenced

treeVars == <<heap, roots, num_versions, modifier, current, log, versions, crashed>>
allVars == <<vars, treeVars>>

NoTask == [op |-> "NoTask", key |-> 0]
Tasks == [op : {"OP_NONE"}, key : {0}] \cup [op : {"OP_INSERT", "OP_DELETE"}, key : Keys]

BackendInit ==
  LET t == build_parallel(Contents0)
  IN /\ Init
     /\ heap = t.new
     /\ roots = [v \in 0..NumTasks |-> IF v = 0 THEN t.ref ELSE nullptr]
     /\ num_versions = 0
     /\ modifier = "ready"
     /\ current = NoTask
     /\ log = <<>>
     /\ versions = <<>>
     /\ crashed = FALSE

(* Init starts the clients last. *)
InitCall == Start /\ UNCHANGED treeVars

(* fetch_add on num_versions_, the first statement of every operation. *)
Begin(task) ==
  /\ main = "push" /\ modifier = "ready"
  /\ num_versions < NumTasks
  /\ num_versions' = num_versions + 1
  /\ modifier' = "store"
  /\ current' = task
  /\ UNCHANGED <<vars, heap, roots, log, versions, crashed>>

\* The operation's version gets the root ref, in the heap h.
Store(h, ref, next) ==
  /\ modifier = "store"
  /\ modifier' = next
  /\ heap' = h
  /\ roots' = [roots EXCEPT ![num_versions] = ref]
  /\ log' = Append(log, current)
  /\ UNCHANGED <<vars, num_versions, current, versions, crashed>>

Insert ==
  /\ current.op = "OP_INSERT"
  /\ LET t == search_insert(heap, num_versions, roots[num_versions-1], current.key)
     IN Store(Alloc(heap, t.new), t.ref, "augment")

Delete ==
  /\ current.op = "OP_DELETE"
  /\ LET t == search_delete(heap, num_versions, roots[num_versions-1], current.key)
     IN Store(Alloc(heap, t.new), t.ref, "augment")

Augment ==
  /\ modifier = "augment"
  /\ heap' = augment(heap, roots[num_versions])
  /\ modifier' = "ready"
  /\ current' = NoTask
  /\ UNCHANGED <<vars, roots, num_versions, log, versions, crashed>>

(* A query shares the newest root ... *)
Query == current.op = "OP_NONE" /\ Store(heap, roots[num_versions-1], "push")

(* ... and is pushed to the clients. *)
PushQuery ==
  /\ modifier = "push"
  /\ Push
  /\ versions' = Append(versions, num_versions)
  /\ modifier' = "ready"
  /\ current' = NoTask
  /\ UNCHANGED <<heap, roots, num_versions, log, crashed>>

(* main calls Close after the last transaction. *)
Close == modifier = "ready" /\ num_versions = NumTasks /\ Stop /\ UNCHANGED treeVars
CloseReturn == Join /\ UNCHANGED treeVars

Modifier ==
  \/ InitCall \/ Close \/ CloseReturn
  \/ \E task \in Tasks : (task.op = "OP_NONE" => num_queries < NumQueries) /\ Begin(task)
  \/ Insert \/ Delete \/ Augment \/ Query \/ PushQuery

\* The version of client c's query, and its root.
ver(c) == versions[q[c]]
Root(c) == roots[ver(c)]

(* do_process_ waits for the version to be counted, and reads its root. A   *)
(* point query takes the counter of the node that find returns, also of the *)
(* null pointer, which ends the program.                                    *)
Answer(c) ==
  /\ client[c] = "process" /\ num_versions >= ver(c)
  /\ \E l, r \in Keys :
        /\ l <= r
        /\ IF l = r /\ find(heap, Root(c), l) = nullptr
             THEN crashed' = TRUE /\ UNCHANGED vars
             ELSE Process(c) /\ UNCHANGED crashed
  /\ UNCHANGED <<heap, roots, num_versions, modifier, current, log, versions>>

ClientStep(c) == (Loop(c) /\ UNCHANGED treeVars) \/ Answer(c)

BackendStopped == (main = "stopped" \/ crashed) /\ UNCHANGED allVars
BackendNext ==
  \/ ~crashed /\ (Modifier \/ \E c \in Clients : ClientStep(c))
  \/ BackendStopped

BackendSpec == BackendInit /\ [][BackendNext]_allVars
-----------------------------------------------------------------------------
BackendTypeOK ==
  /\ \A t \in DOMAIN heap :
        /\ t \in (0..NumTasks) \X Keys
        /\ heap[t] \in [val : Nat, aug : Nat, lch : Pointers(heap), rch : Pointers(heap)]
  /\ roots \in [0..NumTasks -> Pointers(heap)]
  /\ num_versions \in 0..NumTasks
  /\ modifier \in {"ready", "store", "augment", "push"}
  /\ current \in Tasks \cup {NoTask}
  /\ log \in Seq(Tasks)
  /\ versions \in Seq(1..NumTasks)
  /\ crashed \in BOOLEAN

\* The versions whose root is stored.
Stored == 0..Len(log)

(* Every stored version is the unique treap of its contents, so search     *)
(* paths stay short whatever the history (search_insert, search_delete).   *)
VersionsAreTreaps == \A v \in Stored : IsTreap(heap, roots[v])

(* A client only waits for num_versions_ >= ver, which the modifier counts *)
(* before it stores the root and the sums: when the client is past that,   *)
(* the root of its query is stored, every key of that version is found     *)
(* with its counter, and the sum over any range is right although it       *)
(* trusts the cached sums, while later versions are made of the same nodes.*)
QueriesAnswered ==
  \A c \in Clients : client[c] = "process" /\ num_versions >= ver(c) =>
     LET at == Contents(heap, Root(c))
     IN /\ ver(c) \in Stored
        /\ \A k \in Keys : at[k] > 0 =>
             LET t == find(heap, Root(c), k) IN t # nullptr /\ heap[t].val = at[k]
        /\ \A l, r \in Keys :
             l < r => range_estimate(heap, Root(c), l, r) = SumOf(at, {k \in Keys : l <= k /\ k <= r})

M == INSTANCE VersionedMap
       WITH versions <- [v \in 1..Len(log)+1 |-> Contents(heap, roots[v-1])],
            log <- IF modifier = "store" THEN Append(log, current) ELSE log

(* Path copying gives every transaction its own immutable version. *)
ImplementsVersionedMap == M!Spec
=============================================================================
