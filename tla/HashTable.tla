----------------------------- MODULE HashTable -----------------------------
(***************************************************************************)
(* The phase-concurrent hash table (parlay/hash_table.h): linear probing   *)
(* in which a key of higher priority bumps one of lower priority along.    *)
(* Within a phase the threads insert, update or delete concurrently, with  *)
(* a read of a cell and an exchange as the atomic steps; phases do not     *)
(* overlap.  Keys are numbers, a larger one has priority; an element is a  *)
(* key and a value.                                                        *)
(***************************************************************************)
EXTENDS Integers, Sequences, SequencesExt, FiniteSets, FiniteSetsExt, TLC

CONSTANTS Threads, m,      \* m: the number of cells
          Keys, Vals,
          hash,            \* hash[k], modulo m: firstIndex
          Phases,          \* bound: the phases, in order, each "insert", "update" or "delete"
          MaxCalls         \* bound: calls in a phase

Cells == 0 .. m - 1
empty == <<0, 0>>
Elements == Keys \X Vals
getKey(e) == e[1]

VARIABLES TA,     \* TA[i]: an element or empty
          phase,  \* the phases left
          calls,  \* calls made in this phase
          thread, \* thread[t]: the locals of its operation
          wanted  \* history: the elements there should be, key -> value
vars == <<TA, phase, calls, thread, wanted>>

firstIndex(k) == hash[k] % m
incrementIndex(h) == IF h + 1 = m THEN 0 ELSE h + 1
decrementIndex(h) == IF h = 0 THEN m - 1 ELSE h - 1
lessIndex(a, b) == IF a < b THEN 2 * (b - a) < m ELSE 2 * (a - b) > m
cmp(k, c) == IF c = empty THEN 1 ELSE k - getKey(c)

(* The caller's structure: an equal key replaces by a larger value, an       *)
(* update adds.                                                              *)
replaceQ(v, c) == Head(phase) = "update" \/ v[2] > c[2]
updated(c, v) == IF Head(phase) = "update" THEN <<v[1], c[2] + v[2]>> ELSE v

Idle == [pc |-> "idle", v |-> empty, i |-> 0, j |-> 0, c |-> empty, jj |-> 0, x |-> empty, jjj |-> 0]
Init ==
  /\ TA = [i \in Cells |-> empty] /\ phase = Phases /\ calls = 0
  /\ thread = [t \in Threads |-> Idle] /\ wanted = <<>>

To(t, r) == thread' = [thread EXCEPT ![t] = r]
Cas(i, old, e) == TA[i] = old /\ TA' = [TA EXCEPT ![i] = e]
Fails(i, old) == TA[i] # old /\ UNCHANGED TA
Quiet == \A t \in Threads : thread[t].pc = "idle"
-----------------------------------------------------------------------------
(* insert and update. *)
CallInsert(t, e) ==
  /\ phase # <<>> /\ Head(phase) # "delete" /\ thread[t].pc = "idle" /\ calls < MaxCalls
  /\ To(t, [Idle EXCEPT !.pc = "read", !.v = e, !.i = firstIndex(getKey(e))])
  /\ calls' = calls + 1
  /\ wanted' = LET k == getKey(e) IN
       IF k \notin DOMAIN wanted THEN (k :> e[2]) @@ wanted
       ELSE IF Head(phase) = "update" THEN [wanted EXCEPT ![k] = @ + e[2]]
       ELSE [wanted EXCEPT ![k] = Max({@, e[2]})]
  /\ UNCHANGED <<TA, phase>>
Read(t) ==
  /\ thread[t].pc = "read"
  /\ To(t, [thread[t] EXCEPT !.pc = "act", !.c = TA[thread[t].i]])
  /\ UNCHANGED <<TA, phase, calls, wanted>>
\* A failed exchange reads the cell again.
Retry(t) == Fails(thread[t].i, thread[t].c) /\ To(t, [thread[t] EXCEPT !.pc = "read"])
\* An empty cell, or an equal key that is to be replaced.
Place(t) ==
  LET r == thread[t] IN
  /\ r.pc = "act" /\ (r.c = empty \/ (cmp(getKey(r.v), r.c) = 0 /\ replaceQ(r.v, r.c)))
  /\ \/ /\ Cas(r.i, r.c, IF r.c = empty THEN r.v ELSE updated(r.c, r.v))
        /\ To(t, Idle)
     \/ Retry(t)
  /\ UNCHANGED <<phase, calls, wanted>>
\* An equal key that stays.
Keep(t) ==
  LET r == thread[t] IN
  /\ r.pc = "act" /\ r.c # empty /\ cmp(getKey(r.v), r.c) = 0 /\ ~replaceQ(r.v, r.c)
  /\ To(t, Idle)
  /\ UNCHANGED <<TA, phase, calls, wanted>>
\* A key of higher priority: past it.
Pass(t) ==
  LET r == thread[t] IN
  /\ r.pc = "act" /\ r.c # empty /\ cmp(getKey(r.v), r.c) < 0
  /\ To(t, [r EXCEPT !.pc = "read", !.i = incrementIndex(r.i)])
  /\ UNCHANGED <<TA, phase, calls, wanted>>
\* One of lower priority: it is bumped, and inserted further on.
Bump(t) ==
  LET r == thread[t] IN
  /\ r.pc = "act" /\ r.c # empty /\ cmp(getKey(r.v), r.c) > 0
  /\ \/ /\ Cas(r.i, r.c, r.v)
        /\ To(t, [r EXCEPT !.pc = "read", !.v = r.c, !.i = incrementIndex(r.i)])
     \/ Retry(t)
  /\ UNCHANGED <<phase, calls, wanted>>
-----------------------------------------------------------------------------
(* deleteVal; v is an element of the key that is being deleted. *)
deleting == <<phase, calls, wanted>>
CallDelete(t, k) ==
  /\ phase # <<>> /\ Head(phase) = "delete" /\ thread[t].pc = "idle" /\ calls < MaxCalls
  /\ To(t, [Idle EXCEPT !.pc = "first", !.v = <<k, 0>>, !.i = firstIndex(k), !.j = firstIndex(k)])
  /\ calls' = calls + 1
  /\ wanted' = [l \in DOMAIN wanted \ {k} |-> wanted[l]]
  /\ UNCHANGED <<TA, phase>>
\* To the first cell whose key is not of higher priority; nothing there, nothing to do.
Scan(t) ==
  LET r == thread[t]
      c == TA[r.j] IN
  /\ r.pc \in {"first", "scan"}
  /\ To(t, IF r.pc = "first" /\ c = empty THEN Idle
           ELSE IF cmp(getKey(r.v), c) < 0 THEN [r EXCEPT !.pc = "scan", !.j = incrementIndex(r.j)]
           ELSE [r EXCEPT !.pc = "loop", !.c = c])
  /\ UNCHANGED <<TA, deleting>>
\* Back towards the first index, until the key is met.
Back(t) ==
  LET r == thread[t] IN
  /\ r.pc = "loop" /\ cmp(getKey(r.v), r.c) # 0
  /\ To(t, IF r.j = r.i THEN Idle
           ELSE [r EXCEPT !.j = decrementIndex(r.j), !.c = TA[decrementIndex(r.j)]])
  /\ UNCHANGED <<TA, deleting>>
\* The replacement: the first element beyond that may be moved to j, or none.
Found(t) ==
  LET r == thread[t] IN
  /\ r.pc = "loop" /\ cmp(getKey(r.v), r.c) = 0
  /\ To(t, [r EXCEPT !.pc = "seek", !.jj = incrementIndex(r.j), !.x = TA[incrementIndex(r.j)]])
  /\ UNCHANGED <<TA, deleting>>
Blocked(j, x) == x # empty /\ lessIndex(j, firstIndex(getKey(x)))
Seek(t) ==
  LET r == thread[t]
      next == incrementIndex(r.jj) IN
  /\ r.pc = "seek"
  /\ To(t, IF Blocked(r.j, r.x) THEN [r EXCEPT !.jj = next, !.x = TA[next]]
           ELSE [r EXCEPT !.pc = "again", !.jjj = decrementIndex(r.jj)])
  /\ UNCHANGED <<TA, deleting>>
\* What others have moved down in the meantime is looked at again.
Again(t) ==
  LET r == thread[t]
      y == TA[r.jjj]
      back == [r EXCEPT !.jjj = decrementIndex(r.jjj)] IN
  /\ r.pc = "again"
  /\ To(t, IF r.jjj = r.j THEN [r EXCEPT !.pc = "cas"]
           ELSE IF Blocked(r.j, y) THEN back
           ELSE [back EXCEPT !.x = y, !.jj = r.jjj])
  /\ UNCHANGED <<TA, deleting>>
\* It is copied to j, and one of the two copies is deleted next.
Copy(t) ==
  LET r == thread[t] IN
  /\ r.pc = "cas"
  /\ \/ /\ Cas(r.j, r.c, r.x)
        /\ To(t, IF r.x = empty THEN Idle
                 ELSE [r EXCEPT !.pc = "reread", !.v = r.x, !.j = r.jj, !.i = firstIndex(getKey(r.x))])
     \/ Fails(r.j, r.c) /\ To(t, [r EXCEPT !.pc = "reread"])
  /\ UNCHANGED deleting
Reread(t) ==
  /\ thread[t].pc = "reread"
  /\ To(t, [thread[t] EXCEPT !.pc = "loop", !.c = TA[thread[t].j]])
  /\ UNCHANGED <<TA, deleting>>
-----------------------------------------------------------------------------
NextPhase ==
  /\ phase # <<>> /\ calls = MaxCalls /\ Quiet
  /\ phase' = Tail(phase) /\ calls' = 0
  /\ UNCHANGED <<TA, thread, wanted>>
Step(t) ==
  \/ \E e \in Elements : CallInsert(t, e)
  \/ Read(t) \/ Place(t) \/ Keep(t) \/ Pass(t) \/ Bump(t)
  \/ \E k \in Keys : CallDelete(t, k)
  \/ Scan(t) \/ Back(t) \/ Found(t) \/ Seek(t) \/ Again(t) \/ Copy(t) \/ Reread(t)
Next == (\E t \in Threads : Step(t)) \/ NextPhase \/ (phase = <<>> /\ UNCHANGED vars)
Spec == Init /\ [][Next]_vars /\ \A t \in Threads : WF_vars(Step(t) /\ thread[t].pc # "idle")

(* find, which stops at a key of lower priority, and count.  In a table that *)
(* is not in order the search ends after m cells.                            *)
find(k) ==
  LET at(d) == TA[(firstIndex(k) + d) % m]
      stops == {d \in Cells : cmp(k, at(d)) >= 0}
  IN  IF stops = {} \/ cmp(k, at(Min(stops))) > 0 THEN empty ELSE at(Min(stops))
count == Cardinality({i \in Cells : TA[i] # empty})
-----------------------------------------------------------------------------
(* Between operations the table holds what was inserted and not deleted,     *)
(* each key once with the value all the calls together give it, and find     *)
(* finds it: no interleaving of bumps loses an element or leaves a copy. *)
FindsExactly ==
  Quiet => /\ \A k \in Keys : find(k) = IF k \in DOMAIN wanted THEN <<k, wanted[k]>> ELSE empty
           /\ count = Cardinality(DOMAIN wanted)

(* "History independent": the table is in the one order its elements have,   *)
(* every cell from a key's first index to its own being held by keys of      *)
(* higher priority. *)
HistoryIndependent ==
  Quiet => \A i \in Cells : TA[i] # empty =>
    LET h == firstIndex(getKey(TA[i])) IN
    \A d \in 0 .. ((i - h) % m) - 1 : cmp(getKey(TA[i]), TA[(h + d) % m]) < 0

(* Every operation ends: a thread whose exchange fails, or whose element is  *)
(* moved from under it, does not go round for ever. *)
CallsReturn == \A t \in Threads : []<>(thread[t].pc = "idle")
=============================================================================
