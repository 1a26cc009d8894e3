----------------------------- MODULE ProducerHash -----------------------------
(***************************************************************************)
(* How a thread that enqueues without a token finds its ImplicitProducer in *)
(* lib/moodycamel/concurrentqueue.h: a lock-free hash of thread ids that    *)
(* grows by chaining a larger table in front of the old ones, a thread      *)
(* moving itself to the new table the next time it looks; and the recycling *)
(* of the producers of threads that have exited.                            *)
(*                                                                         *)
(* A search for one's own id is one step: only the thread itself puts its   *)
(* id into a table or takes it out; a call that finds it in the current     *)
(* table changes nothing and is left out. Each CAS on a slot is one step.   *)
(***************************************************************************)
EXTENDS Integers, FiniteSets, Sequences

CONSTANTS Threads, nullptr,
          Hash,               \* hash_thread_id
          InitialCapacity,    \* INITIAL_IMPLICIT_PRODUCER_HASH_SIZE
          MaxExits,           \* bound on the threads that exit
          MayFail             \* memory may run out

Empty == "invalid_thread_id"
Reusable == "invalid_thread_id2"

HashAssumption ==
  /\ Hash \in [Threads -> Nat] /\ InitialCapacity \in Nat \ {0}
  /\ nullptr \notin Nat /\ MaxExits \in Nat

VARIABLES hashes,      \* the tables, oldest first: slot -> key and value
          hashCount,   \* implicitProducerHashCount
          resizing,    \* implicitProducerHashResizeInProgress
          inactive,    \* the producers free for recycling
          created,     \* producerCount: they are numbered as they join the list
          exits,       \* history: how many threads have exited
          pc, main, count, index, prod,   \* locals
          alive        \* alive[t]: the producer of t, registered for its exit

vars == <<hashes, hashCount, resizing, inactive, created, exits, pc, main, count, index, prod, alive>>
locals == <<main, count, index, prod>>

Capacity(h) == Cardinality(DOMAIN hashes[h])
Producers == 1 .. created
Table(n) == [i \in 0 .. n - 1 |-> [key |-> Empty, value |-> nullptr]]

TypeOK ==
  /\ \A h \in DOMAIN hashes : \A i \in DOMAIN hashes[h] :
       /\ hashes[h][i].key \in Threads \cup {Empty, Reusable}
       /\ hashes[h][i].value \in Producers \cup {nullptr}
  /\ hashCount \in Nat /\ resizing \in BOOLEAN
  /\ inactive \subseteq Producers /\ created \in Nat
  /\ pc \in [Threads -> {"idle", "lazy", "count", "tryResize", "resize",
                         "reload", "create", "insert", "exit", "retire"}]
  /\ main \in [Threads -> 0 .. Len(hashes)] /\ count \in [Threads -> Nat]
  /\ prod \in [Threads -> Producers \cup {nullptr}] /\ alive \in [Threads -> Producers \cup {nullptr}]

Init ==
  /\ hashes = <<Table(InitialCapacity)>> /\ hashCount = 0 /\ resizing = FALSE
  /\ inactive = {} /\ created = 0 /\ exits = 0
  /\ pc = [t \in Threads |-> "idle"] /\ main = [t \in Threads |-> 0]
  /\ count = main /\ index = main
  /\ prod = [t \in Threads |-> nullptr] /\ alive = prod

Go(t, from, to) == pc[t] = from /\ pc' = [pc EXCEPT ![t] = to]
Return(t) == /\ main' = [main EXCEPT ![t] = 0] /\ count' = [count EXCEPT ![t] = 0]
             /\ index' = [index EXCEPT ![t] = 0] /\ prod' = [prod EXCEPT ![t] = nullptr]

Probe(h, t, k) == (Hash[t] + k) % Capacity(h)
(* t is met in table h before an empty slot. *)
FoundAt(h, t) ==
  {i \in DOMAIN hashes[h] :
     /\ hashes[h][i].key = t
     /\ \A k \in 0 .. ((i - Hash[t]) % Capacity(h)) - 1 : hashes[h][Probe(h, t, k)].key # Empty}
Tables(t) == {h \in DOMAIN hashes : FoundAt(h, t) # {}}

(* get_or_add_implicit_producer looks for the id from the current table     *)
(* back. *)
Call(t) ==
  LET h == CHOOSE x \in Tables(t) : \A y \in Tables(t) : y <= x
      v == hashes[h][CHOOSE i \in FoundAt(h, t) : TRUE].value IN
  /\ pc[t] = "idle" /\ Len(hashes) \notin Tables(t)
  /\ main' = [main EXCEPT ![t] = Len(hashes)]
  /\ \/ /\ Tables(t) # {}
        /\ Go(t, "idle", "lazy")
        /\ prod' = [prod EXCEPT ![t] = v] /\ index' = [index EXCEPT ![t] = Hash[t]]
     \/ /\ Tables(t) = {}
        /\ Go(t, "idle", "count")
        /\ UNCHANGED <<prod, index>>
  /\ UNCHANGED <<hashes, hashCount, resizing, inactive, created, exits, count, alive>>

(* CAS slot index of t's main table from one of keys to t, or probe on. *)
Slot(t) == index[t] % Capacity(main[t])
Put(t, keys) ==
  IF hashes[main[t]][Slot(t)].key \in keys
  THEN hashes' = [hashes EXCEPT ![main[t]][Slot(t)] = [key |-> t, value |-> prod[t]]]
  ELSE UNCHANGED hashes
CanPut(t) == hashes[main[t]][Slot(t)].key \in {Empty, Reusable}

(* Found in an older table: add it to the current one too. *)
LazyAdd(t) ==
  /\ pc[t] = "lazy" /\ Put(t, {Empty, Reusable})
  /\ IF CanPut(t) THEN Go(t, "lazy", "idle") /\ Return(t)
     ELSE Go(t, "lazy", "lazy") /\ index' = [index EXCEPT ![t] = @ + 1] /\ UNCHANGED <<main, count, prod>>
  /\ UNCHANGED <<hashCount, resizing, inactive, created, exits, alive>>

Count(t) ==
  /\ Go(t, "count", "tryResize")
  /\ hashCount' = hashCount + 1
  /\ count' = [count EXCEPT ![t] = hashCount + 1]
  /\ UNCHANGED <<hashes, resizing, inactive, created, exits, main, index, prod, alive>>

HalfFull(t) == count[t] >= Capacity(main[t]) \div 2

(* Less than three quarters full: use this table anyway. *)
Room(c, n) == IF c < (n \div 2) + (n \div 4) THEN "create" ELSE "reload"
TryResize(t) ==
  /\ Go(t, "tryResize", IF HalfFull(t) /\ ~resizing THEN "resize"
                        ELSE Room(count[t], Capacity(main[t])))
  /\ resizing' = (resizing \/ HalfFull(t))
  /\ main' = [main EXCEPT ![t] = IF HalfFull(t) /\ ~resizing THEN Len(hashes) ELSE @]
  /\ UNCHANGED <<hashes, hashCount, inactive, created, exits, count, index, prod, alive>>

(* With the lock: allocate, unless somebody has already. *)
NewCapacity(n, c) ==
  LET f[k \in 0 .. c] == IF c >= (2 * n * 2 ^ k) \div 2 THEN f[k + 1] ELSE 2 * n * 2 ^ k IN f[0]
ResizeBug(t) ==
  LET n == NewCapacity(Capacity(main[t]), count[t]) IN
  /\ Go(t, "resize", "create")
  /\ hashes' = [hashes EXCEPT ![main[t]] = Table(n)]
  /\ resizing' = FALSE
  /\ UNCHANGED <<hashCount, inactive, created, exits, locals, alive>>
Resize(t) ==
  LET n == NewCapacity(Capacity(main[t]), count[t]) IN
  /\ pc[t] = "resize"
  /\ \/ /\ HalfFull(t)
        /\ Go(t, "resize", Room(count[t], n))
        /\ hashes' = Append(hashes, Table(n))
        /\ main' = [main EXCEPT ![t] = Len(hashes) + 1]
     \/ /\ ~HalfFull(t)
        /\ Go(t, "resize", Room(count[t], Capacity(main[t])))
        /\ UNCHANGED <<hashes, main>>
  /\ resizing' = FALSE
  /\ UNCHANGED <<hashCount, inactive, created, exits, count, index, prod, alive>>
ResizeFails(t) ==
  /\ MayFail /\ pc[t] = "resize" /\ HalfFull(t)
  /\ Go(t, "resize", "idle") /\ Return(t)
  /\ hashCount' = hashCount - 1 /\ resizing' = FALSE
  /\ UNCHANGED <<hashes, inactive, created, exits, alive>>

Reload(t) ==
  /\ Go(t, "reload", "tryResize")
  /\ main' = [main EXCEPT ![t] = Len(hashes)]
  /\ UNCHANGED <<hashes, hashCount, resizing, inactive, created, exits, count, index, prod, alive>>

(* recycle_or_create_producer, add_producer, and the registration for the   *)
(* thread's exit. *)
Recycled == CHOOSE p \in inactive : \A q \in inactive : q <= p
Create(t) ==
  /\ Go(t, "create", "insert")
  /\ LET p == IF inactive = {} THEN created + 1 ELSE Recycled IN
       /\ prod' = [prod EXCEPT ![t] = p] /\ alive' = [alive EXCEPT ![t] = p]
       /\ created' = IF inactive = {} THEN p ELSE created
       /\ inactive' = inactive \ {p}
  /\ index' = [index EXCEPT ![t] = Hash[t]]
  /\ UNCHANGED <<hashes, hashCount, resizing, exits, main, count>>
CreateFails(t) ==
  /\ MayFail /\ inactive = {}
  /\ Go(t, "create", "idle") /\ Return(t)
  /\ hashCount' = hashCount - 1
  /\ UNCHANGED <<hashes, resizing, inactive, created, exits, alive>>

(* A reusable slot has been counted before. *)
Insert(t) ==
  /\ pc[t] = "insert" /\ Put(t, {Empty, Reusable})
  /\ IF CanPut(t) THEN Go(t, "insert", "idle") /\ Return(t)
     ELSE Go(t, "insert", "insert") /\ index' = [index EXCEPT ![t] = @ + 1] /\ UNCHANGED <<main, count, prod>>
  /\ hashCount' = IF hashes[main[t]][Slot(t)].key = Reusable THEN hashCount - 1 ELSE hashCount
  /\ UNCHANGED <<resizing, inactive, created, exits, alive>>

(* implicit_producer_thread_exited: from the current table back, replace    *)
(* the thread's id; then the producer may be recycled. *)
Exit(t) ==
  /\ Go(t, "idle", "exit") /\ alive[t] # nullptr /\ exits < MaxExits
  /\ exits' = exits + 1
  /\ main' = [main EXCEPT ![t] = Len(hashes)]
  /\ UNCHANGED <<hashes, hashCount, resizing, inactive, created, count, index, prod, alive>>
Remove(t) ==
  /\ Go(t, "exit", IF main[t] = 1 THEN "retire" ELSE "exit")
  /\ hashes' = [hashes EXCEPT ![main[t]] =
       [i \in DOMAIN @ |-> IF i \in FoundAt(main[t], t) THEN [@[i] EXCEPT !.key = Reusable] ELSE @[i]]]
  /\ main' = [main EXCEPT ![t] = @ - 1]
  /\ UNCHANGED <<hashCount, resizing, inactive, created, exits, count, index, prod, alive>>
Retire(t) ==
  /\ Go(t, "retire", "idle")
  /\ inactive' = inactive \cup {alive[t]}
  /\ alive' = [alive EXCEPT ![t] = nullptr]
  /\ Return(t)
  /\ UNCHANGED <<hashes, hashCount, resizing, created, exits>>

Step(t) ==
  \/ LazyAdd(t) \/ Count(t) \/ TryResize(t) \/ Resize(t) \/ ResizeFails(t)
  \/ Reload(t) \/ Create(t) \/ CreateFails(t) \/ Insert(t) \/ Remove(t) \/ Retire(t)
Next == \E t \in Threads : Call(t) \/ Exit(t) \/ Step(t)

Spec == Init /\ [][Next]_vars
FairSpec == Spec /\ \A t \in Threads : WF_vars(Step(t))
-----------------------------------------------------------------------------
Registered(t) == alive[t] # nullptr /\ pc[t] \notin {"insert", "exit", "retire"}

(* A producer belongs to one live thread, whoever recycles it when. *)
ProducerOfOneThread ==
  \A t, u \in Threads : t # u /\ alive[t] # nullptr => alive[t] # alive[u] /\ alive[t] \notin inactive

(* A thread that has registered finds its own producer again, through all   *)
(* resizes and whatever other threads insert, move and remove: it is never  *)
(* given a second one, so its elements stay in one sub-queue, in order. *)
FoundAgain ==
  \A t \in Threads : Registered(t) =>
    \E h \in DOMAIN hashes : \E i \in FoundAt(h, t) : hashes[h][i].value = alive[t]

(* No table keeps the id of a thread that is gone, where a new thread with  *)
(* the same id would find a producer that is not its own. *)
NoStaleIds ==
  \A h \in DOMAIN hashes : \A i \in DOMAIN hashes[h] :
    hashes[h][i].key \in Threads => alive[hashes[h][i].key] = hashes[h][i].value

(* "Not an infinite loop because at least one slot is free in the hash      *)
(* table": in every table, at any time. *)
SlotFree == \A h \in DOMAIN hashes : \E i \in DOMAIN hashes[h] : hashes[h][i].key = Empty

Returned(t) == pc[t] = "idle"

(* Every call returns: nobody probes or waits for a resize for ever. *)
CallsReturn == \A t \in Threads : []<>Returned(t)
=============================================================================
