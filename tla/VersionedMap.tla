---------------------------- MODULE VersionedMap ----------------------------
(***************************************************************************)
(* What every backend promises its users (db/include/interface.hpp): one   *)
(* version for each transaction, in the order they were issued, each the   *)
(* result of the updates up to it, and never changed once it is there.     *)
(***************************************************************************)
EXTENDS Integers, Sequences

CONSTANTS Keys,      \* the keys
          NumTasks,  \* num_tasks_: the number of transactions
          Contents0  \* Contents0[k]: how often k was loaded by Init

VARIABLES log,      \* the transactions issued so far
          versions  \* versions[v+1]: the contents of version v

vars == <<log, versions>>

Tasks == [op : {"OP_NONE"}, key : {0}] \cup [op : {"OP_INSERT", "OP_DELETE"}, key : Keys]

\* An insert adds one occurrence of its key, a delete removes one if there is
\* one, and a query changes nothing.
Apply(c, task) ==
  IF task.op = "OP_INSERT" THEN [c EXCEPT ![task.key] = @ + 1]
  ELSE IF task.op = "OP_DELETE" /\ c[task.key] > 0 THEN [c EXCEPT ![task.key] = @ - 1]
  ELSE c

\* The contents after the first n transactions of l.
Replay(l, n) ==
  LET after[i \in 0..Len(l)] == IF i = 0 THEN Contents0 ELSE Apply(after[i-1], l[i])
  IN after[n]

Init == log = <<>> /\ versions = <<Contents0>>

Issue ==
  /\ Len(log) < NumTasks
  /\ \E task \in Tasks : log' = Append(log, task)
  /\ UNCHANGED versions

\* The next issued transactions become visible together, up to number n.
Commit(n) ==
  /\ Len(versions) <= n
  /\ versions' = versions \o [i \in 1..n+1-Len(versions) |-> Replay(log, Len(versions) + i - 1)]
  /\ UNCHANGED log

Next == Issue \/ \E n \in 1..Len(log) : Commit(n)

Spec == Init /\ [][Next]_vars
=============================================================================
