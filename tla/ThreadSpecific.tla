--------------------------- MODULE ThreadSpecific ---------------------------
(***************************************************************************)
(* Thread IDs and thread-specific storage (parlay/internal/                *)
(* thread_id_pool.h, parlay/thread_specific.h).  A thread takes an ID from *)
(* a lock-free list of those of dead threads, or a new one, and gives it   *)
(* back when it dies; a mutex keeps two threads from popping at a time.    *)
(* An ID is a place in a list of chunks of P, P, 2P, 4P ... elements that  *)
(* grows under another mutex while threads use it.                         *)
(***************************************************************************)
EXTENDS Integers, Sequences, SequencesExt, FiniteSets, FiniteSetsExt, TLAPS

CONSTANTS Threads,   \* the threads that may live at a time
          ChunkSize, \* thread_list_chunk_size, P
          MaxBirths  \* bound: threads started over time

null == -1
free == 0 \* a mutex nobody holds

ChunkSizeAssumption == ChunkSize \in Nat \ {0} /\ free \notin Threads

VARIABLES num_ids,   \* num_thread_ids
          available, \* available_ids, the head of the list
          next,      \* next[id], the list
          m,         \* the mutex of acquire
          chunks,    \* chunks[c]: its elements, [arg, used]
          growing,   \* growing_mutex
          thread,    \* thread[t]: [pc, id, cur, nx]
          births
vars == <<num_ids, available, next, m, chunks, growing, thread, births>>
pool == <<num_ids, available, next, m>>
storage == <<chunks, growing>>
-----------------------------------------------------------------------------
(* Where the element of an ID is. *)
get_chunk_size(c) == IF c = 0 THEN ChunkSize ELSE ChunkSize * 2^(c - 1)
compute_chunk_id(id) == CHOOSE c \in 0 .. id : ChunkSize * 2^c > id /\ \A d \in 0 .. c - 1 : ChunkSize * 2^d <= id
compute_chunk_position(id, c) == IF c = 0 THEN id ELSE id - ChunkSize * 2^(c - 1)
At(id) == [chunk |-> compute_chunk_id(id), position |-> compute_chunk_position(id, compute_chunk_id(id))]

\* The elements of a new chunk, each given the ID it is for; the first chunk's ID is
\* the position.
Construct(c) == [i \in 0 .. get_chunk_size(c) - 1 |->
                   [arg |-> IF c = 0 THEN i ELSE get_chunk_size(c) + i, used |-> FALSE]]

\* The chunks, those of S newly built.
With(S) == [c \in S \cup DOMAIN chunks |-> IF c \in S THEN Construct(c) ELSE chunks[c]]

(* Iterators: += and -= walk over whole chunks. *)
Advance(it, n) ==
  LET walk[c \in Nat, p \in Nat] == IF p >= get_chunk_size(c) THEN walk[c + 1, p - get_chunk_size(c)]
                                    ELSE [chunk |-> c, position |-> p]
  IN  walk[it.chunk, it.position + n]
Retreat(it, n) ==
  LET walk[c \in Nat, p \in Int] == IF p < 0 THEN walk[c - 1, p + get_chunk_size(c - 1)]
                                    ELSE [chunk |-> c, position |-> p]
  IN  walk[it.chunk, it.position - n]
Distance(it, other) ==
  it.position - other.position + MapThenSumSet(get_chunk_size, other.chunk .. it.chunk - 1)
-----------------------------------------------------------------------------
Init ==
  /\ num_ids = 0 /\ available = null /\ next = <<>> /\ m = free
  /\ chunks = [c \in {0} |-> Construct(c)] /\ growing = free
  /\ thread = [t \in Threads |-> [pc |-> "dead", id |-> null, cur |-> null, nx |-> null]]
  /\ births = 0

To(t, pc) == [thread EXCEPT ![t].pc = pc]
Own(t, id) == [thread EXCEPT ![t].pc = "idle", ![t].id = id]

(* A thread is born; its first call of get_thread_id acquires an ID. *)
Born(t) ==
  /\ thread[t].pc = "dead" /\ births < MaxBirths
  /\ births' = births + 1
  /\ thread' = To(t, IF available # null THEN "lock" ELSE "new")
  /\ UNCHANGED <<pool, storage>>
Lock(t) ==
  /\ thread[t].pc = "lock" /\ m = free
  /\ m' = t
  /\ thread' = [thread EXCEPT ![t].pc = "next", ![t].cur = available]
  /\ UNCHANGED <<num_ids, available, next, storage, births>>
\* current->next, read before the exchange; without a current the list was emptied.
ReadNext(t) ==
  /\ thread[t].pc = "next"
  /\ IF thread[t].cur = null
     THEN m' = free /\ thread' = To(t, "new")
     ELSE thread' = [thread EXCEPT ![t].pc = "pop", ![t].nx = next[thread[t].cur]] /\ UNCHANGED m
  /\ UNCHANGED <<num_ids, available, next, storage, births>>
Pop(t) ==
  /\ thread[t].pc = "pop"
  /\ IF available = thread[t].cur
     THEN available' = thread[t].nx /\ m' = free /\ thread' = Own(t, thread[t].cur)
     ELSE thread' = [thread EXCEPT ![t].pc = "next", ![t].cur = available] /\ UNCHANGED <<available, m>>
  /\ UNCHANGED <<num_ids, next, storage, births>>
\* (mutant: a load and a store instead of the fetch_add)
NewIdBug(t) ==
  LET id == thread[t].cur IN
  /\ thread[t].pc = "new"
  /\ IF id = null
     THEN thread' = [thread EXCEPT ![t].cur = num_ids] /\ UNCHANGED <<num_ids, next>>
     ELSE /\ num_ids' = id + 1 /\ thread' = Own(t, id)
          /\ next' = [i \in 0 .. id |-> IF i = id THEN null ELSE next[i]]
  /\ UNCHANGED <<available, m, storage, births>>
NewId(t) ==
  /\ thread[t].pc = "new"
  /\ num_ids' = num_ids + 1 /\ next' = [id \in 0 .. num_ids |-> IF id = num_ids THEN null ELSE next[id]]
  /\ thread' = Own(t, num_ids)
  /\ UNCHANGED <<available, m, storage, births>>

(* It dies: relinquish. *)
Die(t) ==
  /\ thread[t].pc = "idle"
  /\ next' = [next EXCEPT ![thread[t].id] = available]
  /\ thread' = To(t, "push")
  /\ UNCHANGED <<num_ids, available, m, storage, births>>
PushId(t) ==
  LET id == thread[t].id IN
  /\ thread[t].pc = "push"
  /\ IF available = next[id]
     THEN /\ available' = id /\ thread' = [thread EXCEPT ![t].pc = "dead", ![t].id = null]
          /\ UNCHANGED next
     ELSE next' = [next EXCEPT ![id] = available] /\ UNCHANGED <<available, thread>>
  /\ UNCHANGED <<num_ids, m, storage, births>>

(* get: the element of the thread's ID, which the thread then uses. *)
Get(t) ==
  LET at == At(thread[t].id) IN
  /\ thread[t].pc = "idle"
  /\ IF at.chunk > 0 /\ at.chunk \notin DOMAIN chunks
     THEN thread' = To(t, "ensure") /\ UNCHANGED chunks
     ELSE chunks' = [chunks EXCEPT ![at.chunk][at.position].used = TRUE] /\ UNCHANGED thread
  /\ UNCHANGED <<pool, growing, births>>
(* ensure_chunk_exists, which looks again under the mutex (mutant: it does  *)
(* not). *)
EnsureBug(t) ==
  /\ thread[t].pc = "ensure" /\ growing = free
  /\ growing' = t /\ thread' = To(t, "grow")
  /\ UNCHANGED <<pool, chunks, births>>
Ensure(t) ==
  /\ thread[t].pc = "ensure" /\ growing = free
  /\ IF At(thread[t].id).chunk \in DOMAIN chunks
     THEN thread' = To(t, "idle") /\ UNCHANGED growing
     ELSE growing' = t /\ thread' = To(t, "grow")
  /\ UNCHANGED <<pool, chunks, births>>
Grow(t) ==
  LET c == At(thread[t].id).chunk IN
  /\ thread[t].pc = "grow"
  /\ chunks' = With({c})
  /\ growing' = free /\ thread' = To(t, "idle")
  /\ UNCHANGED <<pool, births>>

(* for_each: chunk by chunk up to the number of IDs there are, building the *)
(* chunks that are missing. *)
Visit(cs, n) ==
  SubSeq(FlattenSeq([j \in 1 .. At(n - 1).chunk + 1 |->
                       [i \in 1 .. get_chunk_size(j - 1) |-> cs[j - 1][i - 1].arg]]), 1, n)
ForEach(t) ==
  LET missing == (0 .. At(num_ids - 1).chunk) \ DOMAIN chunks IN
  /\ thread[t].pc = "idle" /\ growing = free /\ missing # {}
  /\ chunks' = With(missing)
  /\ UNCHANGED <<pool, growing, thread, births>>

Step(t) ==
  \/ Born(t) \/ Lock(t) \/ ReadNext(t) \/ Pop(t) \/ NewId(t) \/ Die(t) \/ PushId(t)
  \/ Get(t) \/ Ensure(t) \/ Grow(t) \/ ForEach(t)
Over == births = MaxBirths /\ (\A t \in Threads : thread[t].pc = "dead") /\ UNCHANGED vars
Next == (\E t \in Threads : Step(t)) \/ Over
Spec == Init /\ [][Next]_vars
-----------------------------------------------------------------------------
TypeOK ==
  /\ num_ids \in 0 .. MaxBirths /\ available \in null .. num_ids - 1
  /\ m \in Threads \cup {free} /\ growing \in Threads \cup {free}
  /\ \A t \in Threads : thread[t].id \in null .. num_ids - 1

(* "Thread IDs are guaranteed to be unique for all live threads", however   *)
(* the births and deaths interleave. *)
UniqueIds ==
  \A s, t \in Threads : thread[s].id # null /\ thread[s].id = thread[t].id => s = t

(* The destructor counts the IDs in the list: when all threads are dead     *)
(* every ID is there, once. *)
AllIdsReturned ==
  (\A t \in Threads : thread[t].pc = "dead") =>
    LET walk[i \in 0 .. num_ids] == IF i = 0 THEN available
                                    ELSE IF walk[i - 1] = null THEN null ELSE next[walk[i - 1]]
    IN  {walk[i] : i \in 0 .. num_ids - 1} = 0 .. num_ids - 1 /\ walk[num_ids] = null

(* "There is a unique object for each active thread", made for the          *)
(* thread's ID: the elements an iteration meets are those of the IDs, each  *)
(* once, in order. *)
EachIdItsElement ==
  /\ \A id \in 0 .. num_ids - 1 :
       At(id).chunk \in DOMAIN chunks => chunks[At(id).chunk][At(id).position].arg = id
  /\ num_ids > 0 /\ (0 .. At(num_ids - 1).chunk) \subseteq DOMAIN chunks =>
       Visit(chunks, num_ids) = [i \in 1 .. num_ids |-> i - 1]

KeepsElements ==
  \A c \in DOMAIN chunks : \A i \in DOMAIN chunks[c] : chunks[c][i].used => chunks'[c][i].used

(* "The list elements are not destroyed" while the list grows: no thread's  *)
(* element is replaced by a fresh one. *)
ElementsKept == [][KeepsElements]_vars

(* Iterators move as if over one sequence, across chunks in both            *)
(* directions: from the end, whose position is that of the next ID. *)
IteratorsExact ==
  \A i \in {num_ids}, n \in 0 .. MaxBirths :
    /\ Advance(At(i), n) = At(i + n)
    /\ Retreat(At(i + n), n) = At(i)
    /\ Distance(At(i + n), At(i)) = n
-----------------------------------------------------------------------------
(* UniqueIds for any number of threads and births. The list of IDs is safe  *)
(* because only the holder of the mutex takes an ID from it: what it has    *)
(* read of the head's next stays true, since the next of an ID is written   *)
(* only by its owner. So an ID that is pushed and popped again in between   *)
(* cannot mislead the exchange.                                             *)
Unowned == {i \in 0 .. num_ids - 1 : \A t \in Threads : thread[t].id # i}
IdsBelow(n) == null .. n - 1
Pcs == {"dead", "lock", "next", "pop", "new", "idle", "push", "ensure", "grow"}
Records(n) == [pc : Pcs, id : IdsBelow(n), cur : IdsBelow(n), nx : IdsBelow(n)]
Living == {"idle", "push", "ensure", "grow"}
Popping == {"next", "pop"}
Types ==
  /\ num_ids \in Nat /\ next \in [0 .. num_ids - 1 -> IdsBelow(num_ids)]
  /\ thread \in [Threads -> Records(num_ids)]
  /\ \A t \in Threads : thread[t].pc \in Living <=> thread[t].id # null
\* The head and the nexts of the unowned IDs are unowned, and each is met once.
ListInv ==
  /\ available \in Unowned \cup {null}
  /\ \A i \in Unowned : next[i] \in Unowned \cup {null} /\ (next[i] = available => available = null)
  /\ \A i, j \in Unowned : next[i] = next[j] /\ next[i] # null => i = j
\* What the holder of the mutex knows.
HolderInv ==
  \A t \in Threads :
    /\ thread[t].pc \in Popping => m = t /\ thread[t].cur \in Unowned \cup {null}
    /\ thread[t].pc = "pop" => thread[t].cur \in Unowned /\ thread[t].nx = next[thread[t].cur]
IInv == Types /\ UniqueIds /\ ListInv /\ HolderInv

LEMMA IInvInit == ASSUME ChunkSizeAssumption, Init PROVE IInv
<1> USE DEF Init, null
<1>1. Types BY DEF Types, Pcs, IdsBelow, Records, Living
<1>2. Unowned = {} BY DEF Unowned
<1> QED BY <1>1, <1>2 DEF IInv, UniqueIds, ListInv, HolderInv, Popping

\* The effect of a step on one thread's fields.
Sets(t, pc, id, cur, nx) ==
  /\ thread' \in [Threads -> Records(num_ids')]
  /\ thread'[t].pc = pc /\ thread'[t].id = id /\ thread'[t].cur = cur /\ thread'[t].nx = nx
  /\ \A u \in Threads : u # t => thread'[u] = thread[u]

\* A step that moves one thread and leaves the IDs and the list alone.
LEMMA MoveStep ==
  ASSUME ChunkSizeAssumption, IInv, UNCHANGED <<num_ids, available, next>>, NEW t \in Threads,
         NEW p, NEW c, NEW n, Sets(t, p, thread[t].id, c, n),
         p \in Living <=> thread[t].id # null,
         p \in Popping => m' = t /\ c \in Unowned \cup {null},
         p = "pop" => c \in Unowned /\ n = next[c],
         \A u \in Threads \ {t} : thread[u].pc \in Popping => m' = m
  PROVE  IInv'
<1>1. /\ thread'[t].pc = p /\ thread'[t].id = thread[t].id /\ thread'[t].cur = c /\ thread'[t].nx = n
      /\ \A u \in Threads : u # t => thread'[u] = thread[u]
  BY DEF Sets
<1>2. \A u \in Threads : thread'[u].id = thread[u].id BY <1>1
<1>3. Types'
  <2>1. \A u \in Threads : thread'[u].pc \in Living <=> thread'[u].id # null BY <1>1 DEF IInv, Types
  <2> QED BY <2>1 DEF IInv, Types, Sets, null
<1>4. Unowned' = Unowned BY <1>2 DEF Unowned
<1>5. UniqueIds' BY <1>2 DEF UniqueIds, IInv, null
<1>6. ListInv' BY <1>4 DEF ListInv, IInv, null
<1>7. HolderInv' BY <1>1, <1>4 DEF HolderInv, IInv, null
<1> QED BY <1>3, <1>5, <1>6, <1>7 DEF IInv

\* A step that leaves the IDs alone.
LEMMA SameStep ==
  ASSUME ChunkSizeAssumption, IInv, UNCHANGED pool, NEW t \in Threads, thread[t].pc \in Living,
         NEW p \in Living, thread' = To(t, p)
  PROVE  IInv'
<1>1. p \in Pcs /\ p \notin Popping /\ p # "pop" BY DEF Living, Pcs, Popping
<1>2. Sets(t, p, thread[t].id, thread[t].cur, thread[t].nx)
  BY <1>1 DEF IInv, Types, Records, To, Sets, pool
<1>3. thread[t].id # null BY DEF IInv, Types
<1> QED BY <1>1, <1>2, <1>3, MoveStep DEF pool

LEMMA BornStep == ASSUME ChunkSizeAssumption, IInv, NEW t \in Threads, Born(t) PROVE IInv'
<1> DEFINE p == IF available # null THEN "lock" ELSE "new"
<1>1. p \in Pcs /\ p \notin Living /\ p \notin Popping /\ p # "pop" BY DEF Living, Pcs, Popping
<1>2. thread' = To(t, p) BY DEF Born
<1> HIDE DEF p
<1>3. Sets(t, p, thread[t].id, thread[t].cur, thread[t].nx)
  BY <1>1, <1>2 DEF IInv, Types, Records, To, Sets, pool, Born
<1>4. thread[t].id = null BY DEF IInv, Types, Born, Living
<1> QED BY <1>1, <1>3, <1>4, MoveStep DEF pool, Born

LEMMA LockStep == ASSUME ChunkSizeAssumption, IInv, NEW t \in Threads, Lock(t) PROVE IInv'
<1>1. "next" \in Pcs /\ "next" \notin Living BY DEF Living, Pcs
<1>2. available \in Unowned \cup {null} /\ available \in IdsBelow(num_ids)
  BY DEF IInv, Types, ListInv, Unowned, IdsBelow, null
<1>3. Sets(t, "next", thread[t].id, available, thread[t].nx)
  BY <1>1, <1>2 DEF IInv, Types, Records, Sets, Lock
<1>4. thread[t].id = null BY DEF IInv, Types, Lock, Living
<1>5. \A u \in Threads : thread[u].pc \notin Popping BY DEF IInv, HolderInv, Lock, ChunkSizeAssumption
<1> QED BY <1>1, <1>2, <1>3, <1>4, <1>5, MoveStep DEF Lock

\* Only the holder of the mutex is in the middle of a pop.
LEMMA OneHolder ==
  ASSUME IInv, NEW t \in Threads, thread[t].pc \in Popping
  PROVE  /\ m = t /\ thread[t].id = null /\ thread[t].cur \in Unowned \cup {null}
         /\ \A u \in Threads : thread[u].pc \in Popping => u = t
BY DEF IInv, Types, HolderInv, Popping, Living

LEMMA ReadNextStep == ASSUME ChunkSizeAssumption, IInv, NEW t \in Threads, ReadNext(t) PROVE IInv'
<1>1. {"new", "pop"} \subseteq Pcs /\ {"new", "pop"} \cap Living = {} /\ "new" \notin Popping
  BY DEF Living, Pcs, Popping
<1>2. /\ m = t /\ thread[t].id = null /\ thread[t].cur \in Unowned \cup {null}
      /\ \A u \in Threads : thread[u].pc \in Popping => u = t
  BY OneHolder DEF ReadNext, Popping
<1>3. CASE thread[t].cur = null
  <2>1. thread' = To(t, "new") /\ num_ids' = num_ids BY <1>3 DEF ReadNext
  <2>2. Sets(t, "new", thread[t].id, thread[t].cur, thread[t].nx)
    BY <2>1, <1>1 DEF IInv, Types, Records, Sets, To
  <2> QED BY <1>1, <1>2, <2>2, MoveStep DEF ReadNext
<1>4. CASE thread[t].cur # null
  <2> DEFINE n == next[thread[t].cur]
  <2>1. thread' = [thread EXCEPT ![t].pc = "pop", ![t].nx = n] /\ num_ids' = num_ids /\ m' = t
    BY <1>2, <1>4 DEF ReadNext
  <2>2. thread[t].cur \in Unowned /\ n \in IdsBelow(num_ids) BY <1>2, <1>4 DEF IInv, Types, Unowned
  <2>3. Sets(t, "pop", thread[t].id, thread[t].cur, n)
    <3> HIDE DEF n
    <3> QED BY <2>1, <2>2, <1>1 DEF IInv, Types, Records, Sets
  <2> QED BY <1>1, <1>2, <2>1, <2>2, <2>3, MoveStep DEF ReadNext
<1> QED BY <1>3, <1>4

\* What the holder knows stays true when no ID is taken from the list.
LEMMA HolderKept ==
  ASSUME IInv,
         \A u \in Threads : thread'[u].pc \in Popping =>
           thread'[u] = thread[u] /\ m' = m /\ Unowned \subseteq Unowned',
         \A i \in Unowned : next'[i] = next[i]
  PROVE  HolderInv'
<1> SUFFICES ASSUME NEW u \in Threads, thread'[u].pc \in Popping
             PROVE  /\ m' = u /\ thread'[u].cur \in Unowned' \cup {null}
                    /\ thread'[u].pc = "pop" => thread'[u].cur \in Unowned' /\ thread'[u].nx = next'[thread'[u].cur]
  BY DEF HolderInv, Popping, null
<1>1. thread'[u] = thread[u] /\ m' = m /\ Unowned \subseteq Unowned' OBVIOUS
<1>2. /\ m = u /\ thread[u].cur \in Unowned \cup {null}
      /\ thread[u].pc = "pop" => thread[u].cur \in Unowned /\ thread[u].nx = next[thread[u].cur]
  BY <1>1 DEF IInv, HolderInv
<1> QED BY <1>1, <1>2

LEMMA PopStep == ASSUME ChunkSizeAssumption, IInv, NEW t \in Threads, Pop(t) PROVE IInv'
<1> DEFINE c == thread[t].cur
<1>1. {"idle", "next"} \subseteq Pcs /\ "next" \notin Living /\ "idle" \in Living /\ "idle" \notin Popping
  BY DEF Living, Pcs, Popping
<1>2. /\ m = t /\ thread[t].id = null /\ c \in Unowned /\ thread[t].nx = next[c]
      /\ \A u \in Threads : thread[u].pc \in Popping => u = t
  BY OneHolder DEF Pop, Popping, IInv, HolderInv
<1>3. CASE available = c
  <2>1. /\ thread' = Own(t, c) /\ num_ids' = num_ids /\ next' = next /\ available' = next[c] /\ c \in IdsBelow(num_ids)
    BY <1>2, <1>3 DEF Pop, Unowned, IdsBelow, IInv, Types, null
  <2> HIDE DEF c
  <2>2. Sets(t, "idle", c, thread[t].cur, thread[t].nx)
    BY <2>1, <1>1 DEF IInv, Types, Records, Sets, Own
  <2>3. /\ thread'[t].pc = "idle" /\ thread'[t].id = c
        /\ \A u \in Threads : u # t => thread'[u] = thread[u]
    BY <2>2 DEF Sets
  <2>4. Types'
    <3>1. c # null BY <1>2 DEF Unowned, null, IInv, Types
    <3>2. \A u \in Threads : thread'[u].pc \in Living <=> thread'[u].id # null
      BY <1>1, <2>3, <3>1 DEF IInv, Types
    <3> QED BY <2>1, <2>2, <3>2 DEF IInv, Types, Sets, null
  <2>5. UniqueIds' BY <2>3, <1>2 DEF UniqueIds, IInv, Unowned, null
  <2>6. Unowned' = Unowned \ {c} BY <2>1, <2>3, <1>2 DEF Unowned, null
  <2>7. ListInv'
    <3> DEFINE U == Unowned
    <3>1. /\ next[c] \in U \cup {null} /\ c # null
          /\ \A i \in U : next[i] \in U \cup {null} /\ next[i] # c
          /\ \A i, j \in U : next[i] = next[j] /\ next[i] # null => i = j
      BY <1>2, <1>3 DEF IInv, ListInv, Unowned, Types, null
    <3> HIDE DEF U
    <3>2. next[c] \in (U \ {c}) \cup {null} BY <3>1, <1>2 DEF U
    <3>3. \A i \in U \ {c} : next[i] \in (U \ {c}) \cup {null} /\ (next[i] = next[c] => next[c] = null)
      BY <3>1, <1>2 DEF U
    <3>4. Unowned' = U \ {c} BY <2>6 DEF U
    <3>5. null' = null BY DEF null
    <3> QED BY <2>1, <3>1, <3>2, <3>3, <3>4, <3>5 DEF ListInv
  <2>8. HolderInv'
    <3>1. \A u \in Threads : thread'[u].pc \notin Popping BY <1>1, <1>2, <2>3
    <3> QED BY <2>1, <3>1, HolderKept
  <2> QED BY <2>4, <2>5, <2>7, <2>8 DEF IInv
<1>4. CASE available # c
  <2>1. available \in Unowned \cup {null} /\ available \in IdsBelow(num_ids)
    BY DEF IInv, Types, ListInv, Unowned, IdsBelow, null
  <2>2. thread' = [thread EXCEPT ![t].pc = "next", ![t].cur = available] /\ m' = m /\ available' = available
    BY <1>4 DEF Pop
  <2>3. Sets(t, "next", thread[t].id, available, thread[t].nx)
    BY <1>1, <2>1, <2>2 DEF IInv, Types, Records, Sets, Pop
  <2> QED BY <1>1, <1>2, <2>1, <2>2, <2>3, MoveStep DEF Pop
<1> QED BY <1>3, <1>4

LEMMA NewIdStep == ASSUME ChunkSizeAssumption, IInv, NEW t \in Threads, NewId(t) PROVE IInv'
<1>1. "idle" \in Pcs /\ "idle" \in Living /\ "idle" \notin Popping BY DEF Living, Pcs, Popping
<1>2. num_ids \in Nat /\ thread[t].id = null /\ thread \in [Threads -> Records(num_ids)]
  BY DEF IInv, Types, NewId, Living
<1>3. num_ids' = num_ids + 1 /\ thread' = Own(t, num_ids) BY DEF NewId
<1>4. IdsBelow(num_ids) \subseteq IdsBelow(num_ids + 1) /\ num_ids \in IdsBelow(num_ids + 1) /\ num_ids # null
  BY <1>2 DEF IdsBelow, null
<1>5. Sets(t, "idle", num_ids, thread[t].cur, thread[t].nx)
  <2> DEFINE S == IdsBelow(num_ids)  T == IdsBelow(num_ids + 1)
  <2>1. S \subseteq T /\ num_ids \in T BY <1>4
  <2>2. thread \in [Threads -> [pc : Pcs, id : S, cur : S, nx : S]] BY <1>2 DEF Records
  <2>3. thread' = [thread EXCEPT ![t].pc = "idle", ![t].id = num_ids] BY <1>3 DEF Own
  <2>4. Records(num_ids') = [pc : Pcs, id : T, cur : T, nx : T] BY <1>3 DEF Records
  <2> HIDE DEF S, T
  <2> QED BY <1>1, <2>1, <2>2, <2>3, <2>4 DEF Sets
<1>6. /\ thread'[t].pc = "idle" /\ thread'[t].id = num_ids
      /\ \A u \in Threads : u # t => thread'[u] = thread[u]
  BY <1>5 DEF Sets
<1>7. \A u \in Threads : thread[u].id \in IdsBelow(num_ids) BY <1>2 DEF Records
<1>8. Types'
  <2>1. next' \in [0 .. num_ids -> IdsBelow(num_ids + 1)]
    <3>1. next \in [0 .. num_ids - 1 -> IdsBelow(num_ids)] BY DEF IInv, Types
    <3>2. null \in IdsBelow(num_ids + 1) BY <1>2 DEF IdsBelow, null
    <3>3. \A i \in 0 .. num_ids : i # num_ids => i \in 0 .. num_ids - 1 BY <1>2
    <3>4. \A i \in 0 .. num_ids : (IF i = num_ids THEN null ELSE next[i]) \in IdsBelow(num_ids + 1)
      BY <3>1, <3>2, <3>3, <1>4
    <3> QED BY <3>4 DEF NewId
  <2>2. (num_ids + 1) - 1 = num_ids /\ num_ids + 1 \in Nat BY <1>2
  <2>3. \A u \in Threads : thread'[u].pc \in Living <=> thread'[u].id # null
    BY <1>1, <1>4, <1>6 DEF IInv, Types
  <2> QED BY <1>3, <1>5, <2>1, <2>2, <2>3 DEF Types, Sets, null
<1>9. \A u \in Threads : thread[u].id # num_ids BY <1>7, <1>2 DEF IdsBelow, null
<1>10. UniqueIds' BY <1>6, <1>9 DEF UniqueIds, IInv, null
<1>11. Unowned' = Unowned
  <2>1. \A i \in 0 .. num_ids : i = num_ids \/ i \in 0 .. num_ids - 1 BY <1>2
  <2>2. \A i \in 0 .. num_ids - 1 : i # num_ids /\ i \in 0 .. num_ids /\ i # null BY <1>2 DEF null
  <2>3. Unowned' = {i \in 0 .. num_ids : \A u \in Threads : thread'[u].id # i} BY <1>2, <1>3 DEF Unowned
  <2>4. \A i \in 0 .. num_ids - 1 : (\A u \in Threads : thread'[u].id # i) <=> (\A u \in Threads : thread[u].id # i)
    BY <1>2, <1>6, <2>2
  <2> QED BY <1>6, <2>1, <2>2, <2>3, <2>4 DEF Unowned
<1>12. \A i \in Unowned : next'[i] = next[i] /\ i # null
  BY <1>2 DEF Unowned, NewId, null
<1>13. ListInv' BY <1>11, <1>12 DEF ListInv, IInv, NewId, null
<1>14. HolderInv'
  <2>1. \A u \in Threads : thread'[u].pc \in Popping => thread'[u] = thread[u] BY <1>1, <1>6
  <2>2. m' = m BY DEF NewId
  <2> QED BY <1>11, <1>12, <2>1, <2>2, HolderKept
<1> QED BY <1>8, <1>10, <1>13, <1>14 DEF IInv

\* What a thread that owns an ID writes to its next disturbs nothing.
LEMMA OwnedNext ==
  ASSUME IInv, NEW t \in Threads, thread[t].id # null, next' = [next EXCEPT ![thread[t].id] = available]
  PROVE  /\ next' \in [0 .. num_ids - 1 -> IdsBelow(num_ids)]
         /\ thread[t].id \in 0 .. num_ids - 1 /\ next'[thread[t].id] = available
         /\ \A i \in Unowned : next'[i] = next[i]
<1>1. available \in IdsBelow(num_ids) BY DEF IInv, ListInv, Types, Unowned, IdsBelow, null
<1>2. thread[t].id \in 0 .. num_ids - 1 BY DEF IInv, Types, Records, IdsBelow, null
<1> QED BY <1>1, <1>2 DEF IInv, Types, Unowned

LEMMA DieStep == ASSUME ChunkSizeAssumption, IInv, NEW t \in Threads, Die(t) PROVE IInv'
<1>1. "push" \in Pcs /\ "push" \in Living /\ "push" \notin Popping BY DEF Living, Pcs, Popping
<1>2. thread[t].id # null BY DEF IInv, Types, Die, Living
<1>3. /\ next' \in [0 .. num_ids - 1 -> IdsBelow(num_ids)]
      /\ \A i \in Unowned : next'[i] = next[i]
  BY <1>2, OwnedNext DEF Die
<1>4. Sets(t, "push", thread[t].id, thread[t].cur, thread[t].nx)
  BY <1>1 DEF IInv, Types, Records, Sets, Die, To
<1>5. /\ thread'[t].pc = "push" /\ thread'[t].id = thread[t].id
      /\ \A u \in Threads : u # t => thread'[u] = thread[u]
  BY <1>4 DEF Sets
<1>6. \A u \in Threads : thread'[u].id = thread[u].id BY <1>5
<1>7. Types'
  <2>1. \A u \in Threads : thread'[u].pc \in Living <=> thread'[u].id # null
    BY <1>1, <1>2, <1>5 DEF IInv, Types
  <2> QED BY <1>3, <1>4, <2>1 DEF IInv, Types, Sets, Die, null
<1>8. UniqueIds' BY <1>6 DEF UniqueIds, IInv, null
<1>9. Unowned' = Unowned BY <1>6 DEF Unowned, Die
<1>10. ListInv' BY <1>3, <1>9 DEF ListInv, IInv, Die, null
<1>11. HolderInv'
  <2>1. \A u \in Threads : thread'[u].pc \in Popping => thread'[u] = thread[u] BY <1>1, <1>5
  <2>2. m' = m BY DEF Die
  <2> QED BY <1>3, <1>9, <2>1, <2>2, HolderKept
<1> QED BY <1>7, <1>8, <1>10, <1>11 DEF IInv

LEMMA PushStep == ASSUME ChunkSizeAssumption, IInv, NEW t \in Threads, PushId(t) PROVE IInv'
<1> DEFINE d == thread[t].id
<1>1. "dead" \in Pcs /\ "dead" \notin Living /\ "dead" \notin Popping BY DEF Living, Pcs, Popping
<1>2. d # null /\ num_ids \in Nat /\ d \in IdsBelow(num_ids) /\ null \in IdsBelow(num_ids)
  BY DEF IInv, Types, Records, PushId, Living, IdsBelow, null
<1>3. CASE available = next[d]
  <2>1. /\ available' = d /\ thread' = [thread EXCEPT ![t].pc = "dead", ![t].id = null]
        /\ next' = next /\ num_ids' = num_ids /\ m' = m
    BY <1>3 DEF PushId
  <2>2. Sets(t, "dead", null, thread[t].cur, thread[t].nx)
    BY <1>1, <1>2, <2>1 DEF IInv, Types, Records, Sets
  <2>3. /\ thread'[t].pc = "dead" /\ thread'[t].id = null
        /\ \A u \in Threads : u # t => thread'[u] = thread[u]
    BY <2>2 DEF Sets
  <2>4. Types'
    <3>1. \A u \in Threads : thread'[u].pc \in Living <=> thread'[u].id # null
      BY <1>1, <2>3 DEF IInv, Types
    <3> QED BY <2>1, <2>2, <3>1 DEF IInv, Types, Sets, null
  <2>5. UniqueIds' BY <2>3 DEF UniqueIds, IInv, null
  <2>6. Unowned' = Unowned \cup {d} /\ d \notin Unowned
    <3>1. d \in 0 .. num_ids - 1 BY <1>2 DEF IdsBelow, null
    <3>2. \A u \in Threads : thread[u].id = d => u = t BY <1>2 DEF IInv, UniqueIds
    <3>3. \A i \in 0 .. num_ids - 1 :
            (\A u \in Threads : thread'[u].id # i) <=> (i = d \/ \A u \in Threads : thread[u].id # i)
      BY <3>1, <3>2, <2>3 DEF null
    <3>4. Unowned' = {i \in 0 .. num_ids - 1 : \A u \in Threads : thread'[u].id # i} BY <2>1 DEF Unowned
    <3>5. Unowned' = {i \in 0 .. num_ids - 1 : i = d \/ \A u \in Threads : thread[u].id # i} BY <3>3, <3>4
    <3> HIDE DEF d
    <3>6. d \notin Unowned BY DEF Unowned, d
    <3> QED BY <3>1, <3>5, <3>6 DEF Unowned
  <2>7. ListInv'
    <3> DEFINE U == Unowned
    <3>1. /\ available \in U \cup {null}
          /\ \A i \in U : next[i] \in U \cup {null} /\ (next[i] = available => available = null)
          /\ \A i, j \in U : next[i] = next[j] /\ next[i] # null => i = j
      BY DEF IInv, ListInv
    <3> HIDE DEF U, d
    <3>2. Unowned' = U \cup {d} /\ d \notin U /\ null' = null BY <2>6 DEF U, null
    <3>3. \A i \in U \cup {d} : next[i] \in U \cup {d} \cup {null} /\ next[i] # d
      BY <3>1, <3>2, <1>2, <1>3
    <3>4. \A i, j \in U \cup {d} : next[i] = next[j] /\ next[i] # null => i = j
      BY <3>1, <1>3
    <3> QED BY <2>1, <3>2, <3>3, <3>4 DEF ListInv
  <2>8. HolderInv'
    <3>1. \A u \in Threads : thread'[u].pc \in Popping => thread'[u] = thread[u] BY <1>1, <2>3
    <3> QED BY <2>1, <2>6, <3>1, HolderKept
  <2> QED BY <2>4, <2>5, <2>7, <2>8 DEF IInv
<1>4. CASE available # next[d]
  <2>1. next' = [next EXCEPT ![thread[t].id] = available] /\ available' = available /\ thread' = thread
        /\ num_ids' = num_ids /\ m' = m
    BY <1>4 DEF PushId
  <2>2. /\ next' \in [0 .. num_ids - 1 -> IdsBelow(num_ids)]
        /\ \A i \in Unowned : next'[i] = next[i]
    BY <1>2, <2>1, OwnedNext
  <2>3. Unowned' = Unowned /\ UniqueIds' BY <2>1 DEF Unowned, IInv, UniqueIds, null
  <2>4. Types' BY <2>1, <2>2 DEF IInv, Types, null
  <2>5. ListInv' BY <2>1, <2>2, <2>3 DEF ListInv, IInv, null
  <2>6. HolderInv' BY <2>1, <2>2, <2>3, HolderKept
  <2> QED BY <2>3, <2>4, <2>5, <2>6 DEF IInv
<1> QED BY <1>3, <1>4

LEMMA IInvStutter ==
  ASSUME IInv, UNCHANGED <<pool, thread>> PROVE IInv'
BY DEF IInv, Types, UniqueIds, ListInv, HolderInv, Unowned, pool, null

LEMMA IInvStep == ASSUME ChunkSizeAssumption, IInv, [Next]_vars PROVE IInv'
<1>1. ASSUME NEW t \in Threads, Step(t) PROVE IInv'
  <2>1. CASE Get(t)
    <3>1. thread' = To(t, "ensure") \/ thread' = thread BY <2>1 DEF Get
    <3>2. thread[t].pc \in Living /\ "ensure" \in Living BY <2>1 DEF Get, Living
    <3>3. UNCHANGED pool BY <2>1 DEF Get
    <3> QED BY <3>1, <3>2, <3>3, SameStep, IInvStutter
  <2>2. CASE Ensure(t)
    <3>1. thread' = To(t, "idle") \/ thread' = To(t, "grow") BY <2>2 DEF Ensure
    <3>2. thread[t].pc \in Living /\ "idle" \in Living /\ "grow" \in Living BY <2>2 DEF Ensure, Living
    <3>3. UNCHANGED pool BY <2>2 DEF Ensure
    <3> QED BY <3>1, <3>2, <3>3, SameStep
  <2>3. CASE Grow(t)
    <3>1. thread' = To(t, "idle") /\ UNCHANGED pool BY <2>3 DEF Grow
    <3>2. thread[t].pc \in Living /\ "idle" \in Living BY <2>3 DEF Grow, Living
    <3> QED BY <3>1, <3>2, SameStep
  <2>4. CASE ForEach(t) BY <2>4, IInvStutter DEF ForEach
  <2> QED BY <1>1, <2>1, <2>2, <2>3, <2>4, BornStep, LockStep, ReadNextStep, PopStep, NewIdStep, DieStep,
             PushStep DEF Step
<1>2. CASE UNCHANGED vars BY <1>2, IInvStutter DEF vars, pool
<1>3. CASE Over BY <1>3, IInvStutter DEF Over, vars, pool
<1> QED BY <1>1, <1>2, <1>3 DEF Next

(* No two live threads have the same ID, for any number of threads and      *)
(* whatever the order of births and deaths. *)
THEOREM IdsUnique == ASSUME ChunkSizeAssumption PROVE Spec => []UniqueIds
<1>1. Init => IInv BY IInvInit
<1>2. IInv /\ [Next]_vars => IInv' BY IInvStep
<1>3. IInv => UniqueIds BY DEF IInv
<1> QED BY <1>1, <1>2, <1>3, PTL DEF Spec

(* ElementsKept. A thread that is about to build a chunk holds the mutex    *)
(* and looked under it, so the chunk is not there; nobody else builds one.  *)
ChunksInv == \A c \in DOMAIN chunks : \A i \in DOMAIN chunks[c] : "used" \in DOMAIN chunks[c][i]
GrowInv ==
  \A t \in Threads : thread[t].pc = "grow" => growing = t /\ At(thread[t].id).chunk \notin DOMAIN chunks
KeptInv == IInv /\ ChunksInv /\ GrowInv

LEMMA KeptInit == ASSUME ChunkSizeAssumption, Init PROVE KeptInv
<1>1. ChunksInv BY DEF Init, ChunksInv, Construct
<1>2. GrowInv BY DEF Init, GrowInv
<1> QED BY <1>1, <1>2, IInvInit DEF KeptInv

\* Building missing chunks keeps the ones there are.
LEMMA WithKeeps ==
  ASSUME ChunksInv, NEW S, S \cap DOMAIN chunks = {}, chunks' = With(S)
  PROVE  KeepsElements /\ ChunksInv' /\ DOMAIN chunks' = S \cup DOMAIN chunks
<1>1. DOMAIN chunks' = S \cup DOMAIN chunks BY DEF With
<1>2. \A c \in DOMAIN chunks : chunks'[c] = chunks[c] BY DEF With
<1>3. \A c \in S : chunks'[c] = Construct(c) BY DEF With
<1>4. \A c : \A i \in DOMAIN Construct(c) : "used" \in DOMAIN Construct(c)[i] BY DEF Construct
<1>5. ChunksInv' BY <1>1, <1>2, <1>3, <1>4 DEF ChunksInv
<1>6. KeepsElements BY <1>2 DEF KeepsElements
<1> QED BY <1>1, <1>5, <1>6

\* Using an element keeps them all.
LEMMA UseKeeps ==
  ASSUME ChunksInv, NEW c, NEW i, chunks' = [chunks EXCEPT ![c][i].used = TRUE]
  PROVE  KeepsElements /\ ChunksInv' /\ DOMAIN chunks' = DOMAIN chunks
<1>1. DOMAIN chunks' = DOMAIN chunks OBVIOUS
<1>2. \A d \in DOMAIN chunks : DOMAIN chunks'[d] = DOMAIN chunks[d] OBVIOUS
<1>3. \A d \in DOMAIN chunks : \A j \in DOMAIN chunks[d] : d # c \/ j # i => chunks'[d][j] = chunks[d][j]
  OBVIOUS
<1>4. c \in DOMAIN chunks /\ i \in DOMAIN chunks[c] =>
        DOMAIN chunks'[c][i] = DOMAIN chunks[c][i] /\ chunks'[c][i].used = TRUE
  BY DEF ChunksInv
<1>5. ChunksInv' BY <1>1, <1>2, <1>3, <1>4 DEF ChunksInv
<1>6. KeepsElements BY <1>3, <1>4 DEF KeepsElements
<1> QED BY <1>1, <1>5, <1>6

\* A step of one thread, which is not about to build a chunk after it.
LEMMA GrowKept ==
  ASSUME GrowInv, NEW t \in Threads, thread'[t].pc # "grow",
         \A u \in Threads : u # t => thread'[u] = thread[u] /\ (thread[u].pc = "grow" => growing' = growing),
         DOMAIN chunks' = DOMAIN chunks \/ \A u \in Threads : u # t => thread[u].pc # "grow"
  PROVE  GrowInv'
BY DEF GrowInv, At, compute_chunk_id, compute_chunk_position

LEMMA KeptStep ==
  ASSUME ChunkSizeAssumption, KeptInv, [Next]_vars PROVE KeptInv' /\ (KeepsElements \/ UNCHANGED vars)
<1>1. IInv' BY IInvStep DEF KeptInv
<1>2. ASSUME UNCHANGED chunks PROVE KeepsElements /\ ChunksInv'
  BY <1>2 DEF KeptInv, ChunksInv, KeepsElements
<1>3. ASSUME UNCHANGED <<storage, thread>> PROVE GrowInv'
  BY <1>3 DEF KeptInv, GrowInv, storage, At, compute_chunk_id, compute_chunk_position
<1>4. thread \in [Threads -> [pc : Pcs, id : IdsBelow(num_ids), cur : IdsBelow(num_ids), nx : IdsBelow(num_ids)]]
  BY DEF KeptInv, IInv, Types, Records
<1>5. ASSUME NEW t \in Threads, Step(t) PROVE ChunksInv' /\ GrowInv' /\ KeepsElements
  <2> DEFINE k == At(thread[t].id).chunk
  <2>1. \A u \in Threads : u # t => thread'[u] = thread[u]
    BY <1>4, <1>5 DEF Step, Born, Lock, ReadNext, Pop, NewId, Die, PushId, Get, Ensure, Grow, ForEach, To, Own
  <2>2. CASE Born(t) \/ Lock(t) \/ ReadNext(t) \/ Pop(t) \/ NewId(t) \/ Die(t) \/ PushId(t)
    <3>1. UNCHANGED storage
      BY <2>2 DEF Born, Lock, ReadNext, Pop, NewId, Die, PushId
    <3>2. thread'[t].pc # "grow"
      BY <1>4, <2>2 DEF Born, Lock, ReadNext, Pop, NewId, Die, PushId, To, Own
    <3>3. GrowInv' BY <2>1, <3>1, <3>2, GrowKept DEF storage, KeptInv
    <3> QED BY <1>2, <3>1, <3>3 DEF storage
  <2>3. CASE Get(t)
    <3>1. ChunksInv' /\ KeepsElements /\ DOMAIN chunks' = DOMAIN chunks
      BY <2>3, <1>2, UseKeeps DEF Get, KeptInv
    <3>2. thread'[t].pc # "grow" /\ growing' = growing BY <2>3, <1>4 DEF Get, To
    <3> QED BY <2>1, <3>1, <3>2, GrowKept DEF KeptInv
  <2>4. CASE Ensure(t)
    <3>1. chunks' = chunks /\ growing = free BY <2>4 DEF Ensure
    <3>2. \A u \in Threads : thread[u].pc # "grow"
      BY <3>1 DEF KeptInv, GrowInv, ChunkSizeAssumption
    <3>3. GrowInv'
      <4>1. CASE k \in DOMAIN chunks
        <5>1. thread'[t].pc # "grow" BY <2>4, <4>1, <1>4 DEF Ensure, To
        <5> QED BY <5>1, <2>1, <3>1, <3>2, GrowKept DEF KeptInv
      <4>2. CASE k \notin DOMAIN chunks
        <5>1. growing' = t /\ thread'[t].id = thread[t].id BY <2>4, <4>2, <1>4 DEF Ensure, To
        <5> QED BY <5>1, <4>2, <2>1, <3>1, <3>2 DEF GrowInv, At, compute_chunk_id, compute_chunk_position
      <4> QED BY <4>1, <4>2
    <3> QED BY <1>2, <3>1, <3>3
  <2>5. CASE Grow(t)
    <3>1. growing = t /\ k \notin DOMAIN chunks BY <2>5 DEF Grow, KeptInv, GrowInv
    <3>2. chunks' = With({k}) BY <2>5 DEF Grow
    <3> HIDE DEF k
    <3>3. ChunksInv' /\ KeepsElements BY <3>1, <3>2, WithKeeps DEF KeptInv
    <3>4. \A u \in Threads : u # t => thread[u].pc # "grow" BY <3>1 DEF KeptInv, GrowInv
    <3>5. thread'[t].pc # "grow" BY <2>5, <1>4 DEF Grow, To
    <3> QED BY <2>1, <3>3, <3>4, <3>5, GrowKept DEF KeptInv
  <2>6. CASE ForEach(t)
    <3> DEFINE M == (0 .. At(num_ids - 1).chunk) \ DOMAIN chunks
    <3>1. chunks' = With(M) /\ growing = free /\ thread' = thread BY <2>6 DEF ForEach
    <3>2. M \cap DOMAIN chunks = {} OBVIOUS
    <3> HIDE DEF M
    <3>3. ChunksInv' /\ KeepsElements BY <3>1, <3>2, WithKeeps DEF KeptInv
    <3>4. \A u \in Threads : thread[u].pc # "grow"
      BY <3>1 DEF KeptInv, GrowInv, ChunkSizeAssumption
    <3> QED BY <2>1, <3>1, <3>3, <3>4, GrowKept DEF KeptInv
  <2> QED BY <1>5, <2>2, <2>3, <2>4, <2>5, <2>6 DEF Step
<1>6. CASE UNCHANGED vars \/ Over
  <2>1. UNCHANGED chunks /\ UNCHANGED <<storage, thread>> BY <1>6 DEF Over, vars, storage
  <2> QED BY <1>1, <1>2, <1>3, <2>1 DEF KeptInv
<1> QED BY <1>1, <1>5, <1>6 DEF Next, KeptInv

(* No element a thread has used is ever replaced by a fresh one, however    *)
(* many threads grow the list at a time. *)
THEOREM ElementsStay == ASSUME ChunkSizeAssumption PROVE Spec => ElementsKept
<1>1. Init => KeptInv BY KeptInit
<1>2. KeptInv /\ [Next]_vars => KeptInv' /\ [KeepsElements]_vars BY KeptStep
<1> QED BY <1>1, <1>2, PTL DEF Spec, ElementsKept
=============================================================================
