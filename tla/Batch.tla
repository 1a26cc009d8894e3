------------------------------- MODULE Batch --------------------------------
(***************************************************************************)
(* The batching backend (db/batch.hpp) over lib/pam.  The modifier buffers *)
(* updates of one type and turns a full buffer into a tree at the end of a *)
(* linked list; it links the tree first and counts it in num_versions_     *)
(* afterwards.  The clients are those of QueryProcessor.  Every client     *)
(* keeps a cursor in the list between queries and only follows next within *)
(* the count it has read.                                                  *)
(*                                                                         *)
(* A tree of lib/pam is what it stores for each key: the values the key    *)
(* had, each with the version it dates from.  A node the algorithms copy   *)
(* keeps its last value only (make_weak_copy); no query that finds this    *)
(* tree by its version looks at the earlier ones, so they are kept here.   *)
(***************************************************************************)
EXTENDS QueryProcessor

CONSTANTS Keys,      \* the keys
          NumTasks,  \* bound: the transactions of a workload
          BatchSize, \* batch_size_
          Contents0  \* the elements loaded by Init, as counts of the keys

NumTasksAssumption == NumTasks \in Nat
BatchSizeAssumption == BatchSize \in Nat \ {0}
Contents0Assumption == Contents0 \in [Keys -> Nat]

Operations == {"INSERT", "DELETE"}
NoTask == [op |-> "NoTask"]
Tasks == [op : Operations, key : Keys]

VARIABLES modifier,    \* the next step of the operation, or "ready"
          task,        \* the update it is in, or NoTask
          buffer_type, \* buffer_type_
          buffer,      \* buffer_[0..buffer_count_-1]
          version_committed, \* version_committed_
          roots,       \* the list from root0_ to root_
          num_versions, \* num_versions_
          log,         \* history: the updates; version_submitted_ is its length
          versions,    \* the versions the queries were pushed with
          cursor       \* cursor[c]: the locals of process_range_query_ in client c

listVars == <<buffer_type, buffer, version_committed, roots, num_versions, log>>
allVars == <<vars, modifier, task, listVars, versions, cursor>>
-----------------------------------------------------------------------------
(* lib/pam. *)

\* The positions of key k in a buffer, in order.
Positions(elems, k) == SelectSeq([i \in 1..Len(elems) |-> i], LAMBDA i : elems[i] = k)

LastVal(vals) == IF vals = <<>> THEN 0 ELSE Last(vals).val

build(c) == [k \in Keys |-> IF c[k] = 0 THEN <<>> ELSE <<[val |-> c[k], ver |-> 0]>>]

\* build_versioned: one value for each occurrence, counted within the buffer.
build_versioned(ver, elems) ==
  [k \in Keys |-> LET at == Positions(elems, k)
                  IN [j \in 1..Len(at) |-> [val |-> j, ver |-> ver + at[j] - 1]]]

update_values(vals, val_base) == [j \in 1..Len(vals) |-> [vals[j] EXCEPT !.val = @ + val_base]]

\* copy_merge of the old tree with that of the buffer.
inserted(t, ver, elems) ==
  LET t_ins == build_versioned(ver, elems)
  IN [k \in Keys |-> IF t_ins[k] = <<>> THEN t[k] ELSE update_values(t_ins[k], LastVal(t[k]))]

\* copy_subtract: a key of the buffer goes with all of its occurrences.
deleted(t, ver, elems) ==
  LET t_det == build_versioned(ver, elems)
  IN [k \in Keys |-> IF t_det[k] = <<>> THEN t[k] ELSE <<>>]

\* The value that was the last one at version v.
find_value(vals, v) ==
  LET past == SelectSeq(vals, LAMBDA x : x.ver <= v)
  IN LastVal(past)
-----------------------------------------------------------------------------
(* The cursor starts at root0_. *)
Cursor == [pc |-> "back", cur_vid |-> 0, last_vid |-> 0, cur_root |-> 1]

BackendInit ==
  /\ Init
  /\ modifier = "ready"
  /\ task = NoTask
  /\ buffer_type = "INSERT"
  /\ buffer = <<>>
  /\ version_committed = 0
  /\ roots = <<[ver |-> 0, t |-> build(Contents0)]>>
  /\ num_versions = 0
  /\ log = <<>>
  /\ versions = <<>>
  /\ cursor = [c \in Clients |-> Cursor]

(* Init starts the clients last. *)
InitCall == Start /\ UNCHANGED <<modifier, task, listVars, versions, cursor>>

\* Between two transactions, of which the workload has more.
NextTask == main = "push" /\ modifier = "ready" /\ Len(log) + num_queries < NumTasks

(* Insert and Delete: update_enbuffer_ flushes a buffer of the other type, *)
(* an empty one too.                                                       *)
Update(u) ==
  /\ NextTask
  /\ task' = u
  /\ modifier' = IF buffer_type # u.op THEN "flush_type" ELSE "append"
  /\ UNCHANGED <<vars, listVars, versions, cursor>>

(* The key goes into the buffer; a full buffer is flushed. *)
AppendKey ==
  /\ modifier = "append"
  /\ buffer' = Append(buffer, task.key)
  /\ log' = Append(log, task)
  /\ task' = NoTask
  /\ modifier' = IF Len(buffer') = BatchSize THEN "flush_full" ELSE "ready"
  /\ UNCHANGED <<vars, buffer_type, version_committed, roots, num_versions, versions, cursor>>

\* do_update_ has linked a root and not counted it.
Linked == num_versions + 1 < Len(roots)

(* do_update_ up to the new end of the list ... *)
Link ==
  LET apply(t) == IF buffer_type = "INSERT" THEN inserted(t, version_committed + 1, buffer)
                                            ELSE deleted(t, version_committed + 1, buffer)
  IN /\ modifier \in {"flush_type", "flush_full", "flush_close"}
     /\ ~Linked
     /\ version_committed' = version_committed + Len(buffer)
     /\ buffer' = <<>>
     /\ roots' = Append(roots, [ver |-> version_committed', t |-> apply(Last(roots).t)])
     /\ UNCHANGED <<vars, modifier, task, buffer_type, num_versions, log, versions, cursor>>

(* ... and the count of it, after which its caller goes on. *)
Publish ==
  /\ Linked
  /\ num_versions' = num_versions + 1
  /\ \/ /\ modifier = "flush_type"
        /\ buffer_type' = task.op
        /\ modifier' = "append"
     \/ /\ modifier = "flush_full"
        /\ modifier' = "ready"
        /\ UNCHANGED buffer_type
     \/ /\ modifier = "flush_close"
        /\ modifier' = "stop"
        /\ UNCHANGED buffer_type
  /\ UNCHANGED <<vars, task, buffer, version_committed, roots, log, versions, cursor>>

(* A query is pushed with the number of updates before it. *)
Query ==
  /\ NextTask
  /\ Push
  /\ versions' = Append(versions, Len(log))
  /\ UNCHANGED <<modifier, task, listVars, cursor>>

\* Mutant: Close leaves the updates that are still buffered.
CloseUnflushed ==
  /\ main = "push" /\ modifier = "ready"
  /\ modifier' = "stop"
  /\ UNCHANGED <<vars, task, listVars, versions, cursor>>

(* Close, after any number of transactions, flushes the buffer first ... *)
Close ==
  /\ main = "push" /\ modifier = "ready"
  /\ modifier' = IF buffer # <<>> THEN "flush_close" ELSE "stop"
  /\ UNCHANGED <<vars, task, listVars, versions, cursor>>

(* ... and stops the clients then, when it has deleted parlay's scheduler. *)
CloseStop == modifier = "stop" /\ Stop /\ UNCHANGED <<modifier, task, listVars, versions, cursor>>
CloseReturn == Join /\ UNCHANGED <<modifier, task, listVars, versions, cursor>>

Modifier ==
  \/ InitCall \/ (\E u \in Tasks : Update(u)) \/ AppendKey \/ Link \/ Publish
  \/ Query \/ Close \/ CloseStop \/ CloseReturn
-----------------------------------------------------------------------------
\* The version of client c's query.
ver(c) == versions[q[c]]

(* process_range_query_ in client c, which has a query.                    *)
(* The root before the cursor's is new enough.  As the queue is in order,  *)
(* a client never gets an older version than before: this does not happen. *)
PrevWillDo(c) ==
  LET x == cursor[c] IN x.cur_root # 1 /\ ver(c) <= roots[x.cur_root - 1].ver

Back(c) ==
  /\ client[c] = "process" /\ cursor[c].pc = "back"
  /\ cursor' = [cursor EXCEPT ![c] =
       IF PrevWillDo(c) THEN [@ EXCEPT !.cur_vid = @ - 1, !.cur_root = @ - 1]
                        ELSE [@ EXCEPT !.pc = "forward"]]
  /\ UNCHANGED <<vars, modifier, task, listVars, versions>>

\* The cursor's root is new enough.
WillDo(c) == ver(c) <= roots[cursor[c].cur_root].ver

\* The next root may be read (mutant: when there is one).
HasNext(x) == x.cur_root < Len(roots)
MayFollow(x) == x.cur_vid < x.last_vid

Forward(c) ==
  /\ client[c] = "process" /\ cursor[c].pc = "forward"
  /\ cursor' = [cursor EXCEPT ![c] =
       IF WillDo(c) THEN [@ EXCEPT !.pc = "answer"]
       ELSE IF MayFollow(@) THEN [@ EXCEPT !.cur_vid = @ + 1, !.cur_root = @ + 1]
       ELSE [@ EXCEPT !.last_vid = num_versions]]
  /\ UNCHANGED <<vars, modifier, task, listVars, versions>>

\* find(k) of the query in client c, 0 for a key that is not there.
find(c, k) == find_value(roots[cursor[c].cur_root].t[k], ver(c))

(* The answer is read from the tree, and the cursor stays where it is. *)
Answer(c) ==
  /\ cursor[c].pc = "answer" /\ Process(c)
  /\ cursor' = [cursor EXCEPT ![c].pc = "back"]
  /\ UNCHANGED <<modifier, task, listVars, versions>>

ClientStep(c) ==
  \/ Loop(c) /\ UNCHANGED <<modifier, task, listVars, versions, cursor>>
  \/ Back(c) \/ Forward(c) \/ Answer(c)

BackendStopped == main = "stopped" /\ UNCHANGED allVars

BackendNext == Modifier \/ (\E c \in Clients : ClientStep(c)) \/ BackendStopped

(* Every thread is run, and main, whose workload is finite, calls Close.   *)
BackendSpec ==
  /\ BackendInit /\ [][BackendNext]_allVars
  /\ WF_allVars(Modifier)
  /\ \A c \in Clients : WF_allVars(ClientStep(c))
-----------------------------------------------------------------------------
BackendTypeOK ==
  /\ modifier \in {"ready", "append", "flush_type", "flush_full", "flush_close", "stop"}
  /\ task \in Tasks \cup {NoTask}
  /\ buffer_type \in Operations
  /\ buffer \in Seq(Keys) /\ Len(buffer) <= BatchSize
  /\ version_committed \in 0..NumTasks
  /\ \A i \in 1..Len(roots) : roots[i].ver \in 0..NumTasks
  /\ num_versions \in 0..Len(roots)
  /\ log \in Seq(Tasks)
  /\ versions \in Seq(0..NumTasks)
  /\ cursor \in [Clients -> [pc : {"back", "forward", "answer"}, cur_vid : 0..Len(roots),
                             last_vid : 0..Len(roots), cur_root : 1..Len(roots)]]

(* A client never stands on a root that do_update_ has linked and not yet  *)
(* counted: such a root's fields are still being written.                  *)
CursorPublished == \A c \in Clients : cursor[c].cur_root <= num_versions + 1

(* The tree a query is answered from is the first one that holds its       *)
(* version, wherever the cursor stood before and however the list grew.    *)
RightBatch ==
  \A c \in Clients : cursor[c].pc = "answer" =>
     LET i == cursor[c].cur_root
     IN ver(c) <= roots[i].ver /\ (i > 1 => roots[i-1].ver < ver(c))

\* What the first v updates make of the loaded elements: a delete removes every
\* occurrence of its key.
Apply(c, u) == [c EXCEPT ![u.key] = IF u.op = "INSERT" THEN @ + 1 ELSE 0]
Replay(v) ==
  LET after[i \in 0..Len(log)] == IF i = 0 THEN Contents0 ELSE Apply(after[i-1], log[i])
  IN after[v]

(* At the end of a batch the answers are those of the updates so far, over *)
(* any sequence of batches of both types, empty ones included.             *)
BatchEndsAnswered ==
  \A c \in Clients :
     cursor[c].pc = "answer" /\ ver(c) = roots[cursor[c].cur_root].ver =>
        \A k \in Keys : find(c, k) = Replay(ver(c))[k]

(* A query inside a batch is answered for its own moment: the versions     *)
(* kept with the values give the count of every key at that version.       *)
MomentsAnswered ==
  \A c \in Clients : cursor[c].pc = "answer" =>
     \A k \in Keys : find(c, k) = Replay(ver(c))[k]

(* Close returns: the client that waits for a version whose updates are in *)
(* the buffer gets it, because Close flushes before it waits for clients.  *)
CloseReturns == <>(main = "stopped")
=============================================================================
