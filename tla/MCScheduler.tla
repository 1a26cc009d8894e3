---------------------------- MODULE MCScheduler -----------------------------
(* Scheduler for TLC. *)
EXTENDS Scheduler

Insert(k) == [op |-> "OP_INSERT", key |-> k]
Delete(k) == [op |-> "OP_DELETE", key |-> k]
Query == [op |-> "OP_NONE", key |-> 0]

\* Priorities that rise and fall with the keys.  The tree of the other keys has
\* the path 2, 6, 3, 4, and key 5 belongs between 3 and 4.
MCHash == [k \in Keys |-> CASE k = 1 -> 5 [] k = 2 -> 7 [] k = 3 -> 4
                            [] k = 4 -> 2 [] k = 5 -> 3 [] k = 6 -> 6]
MCContents0 == [k \in Keys |-> IF k = 5 THEN 0 ELSE 1]

\* Transactions that meet on the path while the earlier ones are still on their
\* way down: a counter changed at its end, a node spliced in above uncommitted
\* ones, nodes removed and put back at its end, inside it and at the root.
MCWorkloads ==
  { <<Insert(4), Insert(4), Insert(5)>>,
    <<Insert(4), Insert(5), Delete(4)>>,
    <<Insert(5), Delete(5), Insert(4)>>,
    <<Insert(4), Delete(3), Insert(3)>>,
    <<Delete(2), Delete(5), Insert(2)>>,
    <<Delete(4), Query,     Delete(4)>>,
    <<Insert(6), Delete(2), Insert(4)>> }

\* Transactions for the second pipe: its step restructures, and it concatenates.
PipeWorkloads ==
  { <<Insert(4), Delete(3), Insert(5)>>,
    <<Delete(2), Insert(4), Delete(6)>>,
    <<Insert(3), Delete(4), Insert(2)>> }

\* Every combination at the end of the path, with queries between.
PathWorkloads == [1..NumTasks -> {Insert(5), Delete(4), Query}]
=============================================================================
