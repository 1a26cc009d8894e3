------------------------------- MODULE FreeList -------------------------------
(***************************************************************************)
(* FreeList of lib/moodycamel/concurrentqueue.h: a lock-free stack of the   *)
(* blocks nobody uses. A node's word freeListRefs counts who may read its   *)
(* next pointer (the list itself counts for one) and has a top bit, should- *)
(* be-on-freelist, by which an adder leaves the adding to the last reader.  *)
(*                                                                         *)
(* Each thread takes a node with try_get and returns it with add, for ever. *)
(* One atomic access is one action; the load of freeListRefs in try_get and *)
(* the CAS behind it are one step, which may also fail.                     *)
(***************************************************************************)
EXTENDS Integers, FiniteSetTheorems, TLAPS

CONSTANTS Threads, Nodes, nullptr,
          Listed      \* the nodes that are on the list at first; the rest are held

FreeListAssumption ==
  nullptr \notin Nodes /\ Listed \subseteq Nodes /\ IsFiniteSet(Threads) /\ IsFiniteSet(Nodes)

VARIABLES freeListHead, freeListNext,
          refs, should,    \* the word freeListRefs: its count and its top bit
          pc,
          head, next,      \* locals of try_get; head also that of add_knowing...
          node,            \* prevHead of try_get, the parameter of add
          back,            \* head of the try_get from within which node is added
          held             \* the node try_get returned and add has not got yet

vars == <<freeListHead, freeListNext, refs, should, pc, head, next, node, back, held>>
Maybe == Nodes \cup {nullptr}

TypeOK ==
  /\ freeListHead \in Maybe /\ freeListNext \in [Nodes -> Maybe]
  /\ refs \in [Nodes -> 0 .. Cardinality(Threads) + 1] /\ should \in [Nodes -> BOOLEAN]
  /\ pc \in [Threads -> {"idle", "load", "ref", "next", "cas", "take", "drop",
                         "add", "putLoad", "putNext", "putRefs", "putCas", "putFail"}]
  /\ head \in [Threads -> Maybe] /\ next \in [Threads -> Maybe]
  /\ node \in [Threads -> Maybe] /\ back \in [Threads -> Maybe]
  /\ held \in [Threads -> Maybe]

IsStack(first, nxt, s) ==
  \E q \in [1 .. Cardinality(s) -> s] :
    /\ {q[i] : i \in DOMAIN q} = s /\ \A i, j \in DOMAIN q : q[i] = q[j] => i = j
    /\ first = IF s = {} THEN nullptr ELSE q[1]
    /\ nxt = [n \in Nodes |-> IF \E i \in DOMAIN q : i < Cardinality(s) /\ q[i] = n
                              THEN q[1 + CHOOSE i \in DOMAIN q : q[i] = n] ELSE nullptr]

Init ==
  /\ freeListHead \in Maybe /\ freeListNext \in [Nodes -> Maybe]
  /\ IsStack(freeListHead, freeListNext, Listed)
  /\ refs = [n \in Nodes |-> IF n \in Listed THEN 1 ELSE 0] /\ should = [n \in Nodes |-> FALSE]
  /\ held \in [Threads -> Maybe]
  /\ \A n \in Nodes : Cardinality({t \in Threads : held[t] = n}) = IF n \in Listed THEN 0 ELSE 1
  /\ pc = [t \in Threads |-> "idle"]
  /\ head = [t \in Threads |-> nullptr] /\ next = head /\ node = head /\ back = head

Go(t, from, to) == pc[t] = from /\ pc' = [pc EXCEPT ![t] = to]

Call(t) ==
  /\ Go(t, "idle", IF held[t] = nullptr THEN "load" ELSE "add")
  /\ UNCHANGED <<freeListHead, freeListNext, refs, should, head, next, node, back, held>>

(* try_get: the loop test is made with the head just loaded. *)
Load(t) ==
  /\ Go(t, "load", IF freeListHead = nullptr THEN "idle" ELSE "ref")
  /\ head' = [head EXCEPT ![t] = freeListHead]
  /\ UNCHANGED <<freeListHead, freeListNext, refs, should, next, node, back, held>>

(* refs + 1, unless the count is zero or the word changed under the CAS. *)
RefBug(t) ==
  /\ Go(t, "ref", "next") /\ refs' = [refs EXCEPT ![head[t]] = @ + 1]
  /\ UNCHANGED <<freeListHead, freeListNext, should, head, next, node, back, held>>
Ref(t) ==
  /\ \/ Go(t, "ref", "next") /\ refs[head[t]] # 0
        /\ refs' = [refs EXCEPT ![head[t]] = @ + 1]
     \/ Go(t, "ref", "load") /\ UNCHANGED refs
  /\ UNCHANGED <<freeListHead, freeListNext, should, head, next, node, back, held>>

ReadNext(t) ==
  /\ Go(t, "next", "cas")
  /\ next' = [next EXCEPT ![t] = freeListNext[head[t]]]
  /\ UNCHANGED <<freeListHead, freeListNext, refs, should, head, node, back, held>>

(* The CAS of the list's head; when it fails it loads the new head. *)
Cas(t) ==
  /\ Go(t, "cas", IF freeListHead = head[t] THEN "take" ELSE "drop")
  /\ freeListHead' = IF freeListHead = head[t] THEN next[t] ELSE freeListHead
  /\ node' = [node EXCEPT ![t] = head[t]]
  /\ head' = [head EXCEPT ![t] = freeListHead]
  /\ UNCHANGED <<freeListNext, refs, should, next, back, held>>

(* Got it: give up this thread's reference and the list's. *)
Take(t) ==
  /\ Go(t, "take", "idle")
  /\ refs' = [refs EXCEPT ![node[t]] = @ - 2]
  /\ held' = [held EXCEPT ![t] = node[t]]
  /\ UNCHANGED <<freeListHead, freeListNext, should, head, next, node, back>>

AgainWith(h) == IF h = nullptr THEN "idle" ELSE "ref"

(* Not got: give up the reference; the last one out adds a node whose add   *)
(* was left to it, then the loop goes on with the head the CAS loaded. *)
Drop(t) ==
  LET last == should[node[t]] /\ refs[node[t]] = 1 IN
  /\ Go(t, "drop", IF last THEN "putLoad" ELSE AgainWith(head[t]))
  /\ refs' = [refs EXCEPT ![node[t]] = @ - 1]
  /\ back' = [back EXCEPT ![t] = IF last THEN head[t] ELSE @]
  /\ UNCHANGED <<freeListHead, freeListNext, should, head, next, node, held>>

(* add: set the bit, and do the adding if nobody refers to the node. *)
Add(t) ==
  /\ Go(t, "add", IF refs[held[t]] = 0 /\ ~should[held[t]] THEN "putLoad" ELSE "idle")
  /\ should' = [should EXCEPT ![held[t]] = TRUE]
  /\ node' = [node EXCEPT ![t] = held[t]]
  /\ held' = [held EXCEPT ![t] = nullptr]
  /\ back' = [back EXCEPT ![t] = nullptr]
  /\ UNCHANGED <<freeListHead, freeListNext, refs, head, next>>

(* add_knowing_refcount_is_zero. *)
PutLoad(t) ==
  /\ Go(t, "putLoad", "putNext")
  /\ head' = [head EXCEPT ![t] = freeListHead]
  /\ UNCHANGED <<freeListHead, freeListNext, refs, should, next, node, back, held>>

PutNext(t) ==
  /\ Go(t, "putNext", "putRefs")
  /\ freeListNext' = [freeListNext EXCEPT ![node[t]] = head[t]]
  /\ UNCHANGED <<freeListHead, refs, should, head, next, node, back, held>>

PutRefs(t) ==
  /\ Go(t, "putRefs", "putCas")
  /\ refs' = [refs EXCEPT ![node[t]] = 1] /\ should' = [should EXCEPT ![node[t]] = FALSE]
  /\ UNCHANGED <<freeListHead, freeListNext, head, next, node, back, held>>

Return(t) == head' = [head EXCEPT ![t] = back[t]]

PutCas(t) ==
  \/ /\ Go(t, "putCas", AgainWith(back[t])) /\ freeListHead = head[t]
     /\ freeListHead' = node[t] /\ Return(t)
     /\ UNCHANGED <<freeListNext, refs, should, next, node, back, held>>
  \/ /\ Go(t, "putCas", "putFail") /\ freeListHead # head[t]
     /\ head' = [head EXCEPT ![t] = freeListHead]
     /\ UNCHANGED <<freeListHead, freeListNext, refs, should, next, node, back, held>>

(* The CAS failed: give up the list's reference and set the bit again in    *)
(* one fetch_add; only who brings the count to zero may try again. *)
PutFail(t) ==
  /\ Go(t, "putFail", IF refs[node[t]] = 1 THEN "putNext" ELSE AgainWith(back[t]))
  /\ refs' = [refs EXCEPT ![node[t]] = @ - 1] /\ should' = [should EXCEPT ![node[t]] = TRUE]
  /\ IF refs[node[t]] = 1 THEN UNCHANGED head ELSE Return(t)
  /\ UNCHANGED <<freeListHead, freeListNext, next, node, back, held>>

Step(t) ==
  \/ Load(t) \/ Ref(t) \/ ReadNext(t) \/ Cas(t) \/ Take(t) \/ Drop(t)
  \/ Add(t) \/ PutLoad(t) \/ PutNext(t) \/ PutRefs(t) \/ PutCas(t) \/ PutFail(t)
Next == \E t \in Threads : Call(t) \/ Step(t)

Spec == Init /\ [][Next]_vars
-----------------------------------------------------------------------------
(* The nodes on the list: those n steps or fewer from its head. *)
Reach[n \in Nat] ==
  IF n = 0 THEN {freeListHead} \ {nullptr}
  ELSE Reach[n - 1] \cup ({freeListNext[m] : m \in Reach[n - 1]} \ {nullptr})
OnList == Reach[Cardinality(Nodes)]

Referring(n) == {t \in Threads : \/ pc[t] \in {"next", "cas"} /\ head[t] = n
                                 \/ pc[t] \in {"take", "drop"} /\ node[t] = n}
Putting(n) == {t \in Threads : pc[t] \in {"putLoad", "putNext", "putRefs", "putCas", "putFail"}
                                 /\ node[t] = n}
Taking(n) == {t \in Threads : pc[t] = "take" /\ node[t] = n}
Holding(n) == {t \in Threads : held[t] = n}

(* A node is given to one thread at a time: it is held, being taken off, on *)
(* the list, or being added by one thread, and otherwise marked so that a   *)
(* thread that still refers to it will add it. None is handed out twice and *)
(* none is lost, however the readers, the adders and the failing CASes      *)
(* interleave. *)
EachNodeOnce ==
  \A n \in Nodes :
    Cardinality(Holding(n)) + Cardinality(Taking(n)) + Cardinality(Putting(n))
      + (IF n \in OnList THEN 1 ELSE 0)
      + (IF should[n] /\ Putting(n) = {} /\ Referring(n) # {} THEN 1 ELSE 0) = 1

(* No ABA: if the head a thread is about to replace is the current one, its *)
(* next pointer is still the one that thread has read ("we can read the     *)
(* next and not worry about it changing"). *)
NextStillValid ==
  \A t \in Threads :
    pc[t] = "cas" /\ freeListHead = head[t] => freeListNext[head[t]] = next[t]

(* The assertion in try_get, and that the count never wraps: who takes a    *)
(* node off finds its bit clear and both references there. *)
TakenCleanly ==
  \A t \in Threads : pc[t] = "take" => ~should[node[t]] /\ refs[node[t]] >= 2

-----------------------------------------------------------------------------
(***************************************************************************)
(* Proofs. Which nodes are on the list is not a variable, and what can be   *)
(* reached from its head is a recursive definition. The inductive invariant *)
(* therefore says that there is a set L of listed nodes, closed under next  *)
(* pointers that are all different and none of which leads to the head.     *)
(* A pop takes the head out of L, a push puts the new head in.              *)
(***************************************************************************)
Fresh == {"putLoad", "putNext", "putRefs"}      \* adding a node nobody refers to
Counted == {"take", "putCas", "putFail"}        \* having the list's reference

(* t has node n to itself. *)
Has(t, n) == held[t] = n \/ (pc[t] \in Fresh \cup Counted /\ node[t] = n)

(* A node is in the hands of one thread at a time, whatever the number of   *)
(* threads that read its next pointer.                                      *)
OneHolder == \A n \in Nodes : \A t, u \in Threads : Has(t, n) /\ Has(u, n) => t = u

Types ==
  /\ freeListHead \in Maybe /\ freeListNext \in [Nodes -> Maybe]
  /\ refs \in [Nodes -> Int] /\ should \in [Nodes -> BOOLEAN]
  /\ pc \in [Threads -> {"idle", "load", "ref", "next", "cas", "take", "drop",
                         "add", "putLoad", "putNext", "putRefs", "putCas", "putFail"}]
  /\ head \in [Threads -> Maybe] /\ next \in [Threads -> Maybe]
  /\ node \in [Threads -> Maybe] /\ back \in [Threads -> Maybe]
  /\ held \in [Threads -> Maybe]

LocalInv ==
  \A t \in Threads :
    /\ held[t] # nullptr => pc[t] \in {"idle", "add"}
    /\ pc[t] = "add" => held[t] # nullptr
    /\ pc[t] \in {"ref", "next", "cas"} => head[t] # nullptr
    /\ pc[t] \in {"drop"} \cup Fresh \cup Counted => node[t] # nullptr
    /\ pc[t] \in {"putRefs", "putCas"} => freeListNext[node[t]] = head[t]
    /\ pc[t] = "cas" => freeListNext[head[t]] = next[t]

ListInv(L) ==
  /\ L \subseteq Nodes /\ freeListHead \in L \cup {nullptr}
  /\ \A m \in L : freeListNext[m] # nullptr =>
       /\ freeListNext[m] \in L /\ freeListNext[m] # freeListHead
       /\ \A k \in L : freeListNext[k] = freeListNext[m] => k = m

HolderInv(L) == OneHolder /\ \A n \in L : \A t \in Threads : ~Has(t, n)

(* The bit is set unless the node is on the list, or somebody has it who is *)
(* not adding it; then a thread adds it or refers to it and will.           *)
MarkInv(L) ==
  /\ \A n \in Nodes : should[n] <=> n \notin L /\ \A t \in Threads : Has(t, n) => pc[t] \in Fresh
  /\ \A n \in Nodes : should[n] /\ Referring(n) = {} => \E t \in Threads : Has(t, n)
  /\ \A t \in Threads : pc[t] \in Fresh => Referring(node[t]) = {}

InList(L, n) == n \in L \/ \E t \in Threads : pc[t] \in Counted /\ node[t] = n

RefsInv(L) ==
  \A n \in Nodes : refs[n] = Cardinality(Referring(n)) + IF InList(L, n) THEN 1 ELSE 0

Inv(L) == Types /\ LocalInv /\ ListInv(L) /\ HolderInv(L) /\ MarkInv(L) /\ RefsInv(L)
IInv == \E L \in SUBSET Nodes : Inv(L)

LEMMA Count ==
  ASSUME FreeListAssumption, NEW n
  PROVE  /\ IsFiniteSet(Referring(n)) /\ Cardinality(Referring(n)) \in Nat
         /\ Cardinality(Referring(n)) <= Cardinality(Threads) /\ Cardinality(Threads) \in Nat
         /\ Cardinality(Referring(n)) = 0 <=> Referring(n) = {}
<1>1. Referring(n) \in SUBSET Threads BY DEF Referring
<1>2. IsFiniteSet(Referring(n)) /\ Cardinality(Referring(n)) <= Cardinality(Threads)
  BY <1>1, FS_Subset DEF FreeListAssumption
<1>3. Cardinality(Referring(n)) \in Nat /\ Cardinality(Threads) \in Nat
  BY <1>2, FS_CardinalityType DEF FreeListAssumption
<1>4. Cardinality(Referring(n)) = 0 <=> Referring(n) = {} BY <1>2, FS_EmptySet
<1> QED BY <1>2, <1>3, <1>4

(* A step that leaves list and word alone, and every thread in its role.   *)
LEMMA Quiet ==
  ASSUME NEW L, Inv(L), Types', LocalInv', UNCHANGED <<freeListHead, should, refs>>,
         \A m \in L : freeListNext'[m] = freeListNext[m],
         \A u \in Threads : pc'[u] \in Fresh <=> pc[u] \in Fresh,
         \A u \in Threads : pc'[u] \in Counted <=> pc[u] \in Counted,
         \A u \in Threads : pc[u] \in Fresh \cup Counted => node'[u] = node[u],
         held' = held, \A n \in Nodes : Referring(n)' = Referring(n)
  PROVE  Inv(L)'
<1> USE DEF Inv
<1>1. ListInv(L)' BY DEF ListInv
<1>2. \A u \in Threads : \A n \in Nodes : Has(u, n)' <=> Has(u, n) BY DEF Has
<1>3. HolderInv(L)' BY <1>2 DEF HolderInv, OneHolder, ListInv
<1>4. \A u \in Threads : pc[u] \in Fresh => node[u] \in Nodes BY DEF Types, LocalInv, Maybe
<1>5. MarkInv(L)' BY <1>2, <1>4 DEF MarkInv
<1>6. \A n \in Nodes : InList(L, n)' <=> InList(L, n) BY DEF InList
<1>7. RefsInv(L)' BY <1>6 DEF RefsInv
<1> QED BY <1>1, <1>3, <1>5, <1>7

LEMMA QuietStep ==
  ASSUME FreeListAssumption, NEW L, Inv(L), NEW t \in Threads,
         \/ Call(t) \/ Load(t) \/ ReadNext(t) \/ PutLoad(t) \/ PutNext(t)
         \/ Ref(t) /\ refs' = refs
         \/ Cas(t) /\ freeListHead # head[t]
         \/ PutCas(t) /\ freeListHead # head[t]
  PROVE  Inv(L)'
<1> USE DEF Inv, Types, Go, Maybe
<1>1. CASE Call(t)
  <2>1. Types' /\ LocalInv' BY <1>1 DEF LocalInv, Call, Fresh, Counted
  <2>2. \A n \in Nodes : Referring(n)' = Referring(n) BY <1>1 DEF Call, Referring
  <2> QED BY <1>1, <2>1, <2>2, Quiet DEF Call, Fresh, Counted
<1>2. CASE Load(t)
  <2>1. Types' /\ LocalInv' BY <1>2 DEF LocalInv, Load, Fresh, Counted
  <2>2. \A n \in Nodes : Referring(n)' = Referring(n) BY <1>2 DEF Load, Referring
  <2> QED BY <1>2, <2>1, <2>2, Quiet DEF Load, Fresh, Counted
<1>3. CASE Ref(t) /\ refs' = refs
  <2>1. pc' = [pc EXCEPT ![t] = "load"]
    BY <1>3 DEF Ref, LocalInv, FreeListAssumption
  <2>2. Types' /\ LocalInv' BY <1>3, <2>1 DEF LocalInv, Ref, Fresh, Counted
  <2>3. \A n \in Nodes : Referring(n)' = Referring(n) BY <1>3, <2>1 DEF Ref, Referring
  <2> QED BY <1>3, <2>1, <2>2, <2>3, Quiet DEF Ref, Fresh, Counted
<1>4. CASE ReadNext(t)
  <2>1. Types' /\ LocalInv' BY <1>4 DEF LocalInv, ReadNext, Fresh, Counted
  <2>2. \A n \in Nodes : Referring(n)' = Referring(n) BY <1>4 DEF ReadNext, Referring
  <2> QED BY <1>4, <2>1, <2>2, Quiet DEF ReadNext, Fresh, Counted
<1>5. CASE Cas(t) /\ freeListHead # head[t]
  <2>1. Types' /\ LocalInv' BY <1>5 DEF LocalInv, Cas, Fresh, Counted
  <2>2. \A n \in Nodes : Referring(n)' = Referring(n) BY <1>5 DEF Cas, Referring
  <2> QED BY <1>5, <2>1, <2>2, Quiet DEF Cas, Fresh, Counted
<1>6. CASE PutLoad(t)
  <2>1. Types' /\ LocalInv' BY <1>6 DEF LocalInv, PutLoad, Fresh, Counted
  <2>2. \A n \in Nodes : Referring(n)' = Referring(n) BY <1>6 DEF PutLoad, Referring
  <2> QED BY <1>6, <2>1, <2>2, Quiet DEF PutLoad, Fresh, Counted
<1>7. CASE PutNext(t)
  <2> DEFINE n == node[t]
  <2>1. n \in Nodes /\ Has(t, n) /\ Referring(n) = {}
    BY <1>7 DEF PutNext, LocalInv, Has, Fresh, MarkInv
  <2>2. n \notin L BY <2>1 DEF HolderInv
  <2>3. \A u \in Threads : ~(pc[u] = "cas" /\ head[u] = n) BY <2>1 DEF Referring
  <2>4. \A u \in Threads : pc[u] \in {"putRefs", "putCas"} => node[u] # n
    <3> SUFFICES ASSUME NEW u \in Threads, pc[u] \in {"putRefs", "putCas"}, node[u] = n PROVE FALSE
      OBVIOUS
    <3>1. Has(u, n) BY DEF Has, Fresh, Counted
    <3> QED BY <1>7, <2>1, <3>1 DEF HolderInv, OneHolder, PutNext
  <2>5. Types' BY <1>7 DEF PutNext
  <2>6. \A u \in Threads : (pc[u] = "cas" /\ head[u] \in Nodes) => freeListNext'[head[u]] = freeListNext[head[u]]
    BY <1>7, <2>3 DEF PutNext
  <2>7. LocalInv'
    BY <1>7, <2>1, <2>4, <2>6 DEF LocalInv, PutNext, Fresh, Counted
  <2>8. \A m \in Nodes : Referring(m)' = Referring(m) BY <1>7 DEF PutNext, Referring
  <2>9. \A m \in L : freeListNext'[m] = freeListNext[m] BY <1>7, <2>2 DEF PutNext
  <2> QED BY <1>7, <2>5, <2>7, <2>8, <2>9, Quiet DEF PutNext, Fresh, Counted
<1>8. CASE PutCas(t) /\ freeListHead # head[t]
  <2>1. Types' /\ LocalInv' BY <1>8 DEF LocalInv, PutCas, Fresh, Counted
  <2>2. \A n \in Nodes : Referring(n)' = Referring(n) BY <1>8 DEF PutCas, Referring
  <2> QED BY <1>8, <2>1, <2>2, Quiet DEF PutCas, Fresh, Counted
<1> QED BY <1>1, <1>2, <1>3, <1>4, <1>5, <1>6, <1>7, <1>8

(* One more reader: only of a node with a count, so of none that a thread   *)
(* is about to write the next pointer of.                                   *)
LEMMA RefStep ==
  ASSUME FreeListAssumption, NEW L, Inv(L), NEW t \in Threads, Ref(t), refs' # refs
  PROVE  Inv(L)'
<1> USE DEF Inv
<1> PICK n : n = head[t] OBVIOUS
<1>1. /\ pc[t] = "ref" /\ pc' = [pc EXCEPT ![t] = "next"] /\ refs[n] # 0
      /\ refs' = [refs EXCEPT ![n] = @ + 1]
      /\ UNCHANGED <<freeListHead, freeListNext, should, head, next, node, back, held>>
  BY DEF Ref, Go
<1>2. n \in Nodes BY <1>1 DEF Types, LocalInv, Maybe
<1>3. Referring(n)' = Referring(n) \cup {t} /\ t \notin Referring(n)
  BY <1>1 DEF Types, Referring
<1>4. \A m \in Nodes \ {n} : Referring(m)' = Referring(m) BY <1>1 DEF Types, Referring
<1>5. Types' /\ LocalInv' BY <1>1, <1>2 DEF Types, LocalInv, Fresh, Counted
<1>6. ListInv(L)' BY <1>1 DEF ListInv
<1>7. \A u \in Threads : \A m \in Nodes : Has(u, m)' <=> Has(u, m)
  BY <1>1 DEF Types, Has, Fresh, Counted
<1>8. HolderInv(L)' BY <1>7 DEF HolderInv, OneHolder, ListInv
<1>9. \A u \in Threads : pc'[u] \in Fresh <=> pc[u] \in Fresh BY <1>1 DEF Types, Fresh
<1>10. \A u \in Threads : pc'[u] \in Counted <=> pc[u] \in Counted BY <1>1 DEF Types, Counted
<1>11. \A m \in Nodes : InList(L, m)' <=> InList(L, m) BY <1>1, <1>10 DEF InList
<1>12. RefsInv(L)'
  <2>1. IsFiniteSet(Referring(n)) /\ Cardinality(Referring(n)) \in Nat BY Count
  <2>2. Cardinality(Referring(n) \cup {t}) = Cardinality(Referring(n)) + 1
    BY <1>3, <2>1, FS_AddElement
  <2>3. Cardinality(Referring(n)') = Cardinality(Referring(n)) + 1 BY <1>3, <2>2
  <2> QED BY <1>1, <1>2, <1>4, <1>11, <2>1, <2>3 DEF RefsInv, Types
<1>13. ASSUME NEW u \in Threads, pc[u] \in Fresh PROVE node[u] \in Nodes \ {n}
  <2> SUFFICES ASSUME node[u] = n PROVE FALSE BY <1>13 DEF Types, LocalInv, Maybe
  <2>1. Has(u, n) /\ Referring(n) = {} BY <1>13 DEF Has, MarkInv
  <2>2. Cardinality(Referring(n)) = 0 BY <2>1, Count
  <2>3. n \notin L BY <2>1 DEF HolderInv
  <2>4. \A w \in Threads : pc[w] \in Counted => node[w] # n
    BY <1>2, <1>13, <2>1 DEF HolderInv, OneHolder, Has, Fresh, Counted
  <2> QED BY <1>1, <1>2, <2>2, <2>3, <2>4 DEF RefsInv, InList
<1>14. MarkInv(L)'
  <2>1. \A m \in Nodes : should'[m] <=> m \notin L /\ \A u \in Threads : Has(u, m)' => pc'[u] \in Fresh
    BY <1>1, <1>7, <1>9 DEF MarkInv
  <2>2. \A m \in Nodes : should'[m] /\ Referring(m)' = {} => \E u \in Threads : Has(u, m)'
    BY <1>1, <1>3, <1>4, <1>7 DEF MarkInv
  <2>3. \A u \in Threads : pc'[u] \in Fresh => (Referring(node[u]) = {})'
    BY <1>1, <1>4, <1>9, <1>13 DEF MarkInv
  <2> QED BY <2>1, <2>2, <2>3, <1>1 DEF MarkInv
<1> QED BY <1>5, <1>6, <1>8, <1>12, <1>14

(* The pop: the head leaves the list. *)
LEMMA CasStep ==
  ASSUME FreeListAssumption, NEW L, Inv(L), NEW t \in Threads, Cas(t),
         NEW n, n = head[t], freeListHead = n
  PROVE  Inv(L \ {n})'
<1> USE DEF Inv
<1> DEFINE M == L \ {n}
<1>1. /\ pc[t] = "cas" /\ pc' = [pc EXCEPT ![t] = "take"] /\ freeListHead' = next[t]
      /\ node' = [node EXCEPT ![t] = n] /\ head' = head
      /\ UNCHANGED <<freeListNext, refs, should, next, back, held>>
  BY DEF Cas, Go, Types
<1>2. n \in Nodes /\ n \in L /\ freeListNext[n] = next[t]
  BY <1>1 DEF Types, LocalInv, Maybe, ListInv
<1>3. \A m \in Nodes : Referring(m)' = Referring(m) BY <1>1 DEF Types, Referring
<1>4. Types' /\ LocalInv' BY <1>1, <1>2 DEF Types, LocalInv, Fresh, Counted
<1>5. ListInv(M)' BY <1>1, <1>2 DEF ListInv
<1>6. \A u \in Threads : \A m \in Nodes : Has(u, m)' <=> Has(u, m) \/ (u = t /\ m = n)
  BY <1>1, <1>2 DEF Types, Has, Fresh, Counted, LocalInv, FreeListAssumption
<1>7. HolderInv(M)'
  <2>1. \A m \in L : m \in Nodes /\ \A u \in Threads : ~Has(u, m) BY DEF HolderInv, ListInv
  <2>2. OneHolder' BY <1>2, <1>6, <2>1 DEF HolderInv, OneHolder
  <2>3. \A m \in M : \A u \in Threads : ~Has(u, m)' BY <1>6, <2>1
  <2> QED BY <2>2, <2>3 DEF HolderInv
<1>8. \A u \in Threads : pc'[u] \in Fresh <=> pc[u] \in Fresh BY <1>1 DEF Types, Fresh
<1>9. \A u \in Threads : pc[u] \in Fresh => node'[u] = node[u] BY <1>1 DEF Types, Fresh
<1>10. \A u \in Threads : pc[u] \in Fresh => node[u] \in Nodes BY DEF Types, LocalInv, Maybe
<1>11. MarkInv(M)'
  <2>1. ASSUME NEW m \in Nodes
        PROVE  should'[m] <=> m \notin M /\ \A u \in Threads : Has(u, m)' => pc'[u] \in Fresh
    <3>1. CASE m = n
      <4>1. ~should[n] BY <1>2 DEF MarkInv
      <4>2. Has(t, n)' /\ pc'[t] \notin Fresh BY <1>1, <1>2, <1>6 DEF Types, Fresh
      <4> QED BY <1>1, <3>1, <4>1, <4>2
    <3>2. CASE m # n BY <1>1, <1>6, <1>8, <3>2 DEF MarkInv
    <3> QED BY <3>1, <3>2
  <2>2. \A m \in Nodes : should'[m] /\ Referring(m)' = {} => \E u \in Threads : Has(u, m)'
    BY <1>1, <1>3, <1>6 DEF MarkInv
  <2>3. \A u \in Threads : pc'[u] \in Fresh => (Referring(node[u]) = {})'
    BY <1>3, <1>8, <1>9, <1>10 DEF MarkInv
  <2> QED BY <1>1, <2>1, <2>2, <2>3 DEF MarkInv
<1>12. \A m \in Nodes : InList(M, m)' <=> InList(L, m)
  BY <1>1, <1>2 DEF InList, Types, Counted
<1>13. RefsInv(M)' BY <1>1, <1>3, <1>12 DEF RefsInv
<1> QED BY <1>4, <1>5, <1>7, <1>11, <1>13

LEMMA TakeStep ==
  ASSUME FreeListAssumption, NEW L, Inv(L), NEW t \in Threads, Take(t)
  PROVE  Inv(L)'
<1> USE DEF Inv
<1> PICK n : n = node[t] OBVIOUS
<1>1. /\ pc[t] = "take" /\ pc' = [pc EXCEPT ![t] = "idle"]
      /\ refs' = [refs EXCEPT ![n] = @ - 2] /\ held' = [held EXCEPT ![t] = n]
      /\ UNCHANGED <<freeListHead, freeListNext, should, head, next, node, back>>
  BY DEF Take, Go
<1>2. n \in Nodes /\ Has(t, n) BY <1>1 DEF Types, LocalInv, Maybe, Counted, Has
<1>3. Referring(n)' = Referring(n) \ {t} /\ t \in Referring(n) BY <1>1 DEF Types, Referring
<1>4. \A m \in Nodes \ {n} : Referring(m)' = Referring(m) BY <1>1 DEF Types, Referring
<1>5. Types' /\ LocalInv' BY <1>1, <1>2 DEF Types, LocalInv, Fresh, Counted
<1>6. ListInv(L)' BY <1>1 DEF ListInv
<1>7. \A u \in Threads : \A m \in Nodes : Has(u, m)' <=> Has(u, m)
  BY <1>1, <1>2 DEF Types, Has, Fresh, Counted, LocalInv, FreeListAssumption
<1>8. HolderInv(L)' BY <1>7 DEF HolderInv, OneHolder, ListInv
<1>9. \A u \in Threads : pc'[u] \in Fresh <=> pc[u] \in Fresh BY <1>1 DEF Types, Fresh
<1>10. \A u \in Threads : pc[u] \in Fresh => node[u] \in Nodes \ {n}
  <2> SUFFICES ASSUME NEW u \in Threads, pc[u] \in Fresh, node[u] = n PROVE FALSE
    BY DEF Types, LocalInv, Maybe
  <2>1. Has(u, n) BY DEF Has
  <2> QED BY <1>1, <1>2, <2>1 DEF HolderInv, OneHolder, Fresh
<1>11. MarkInv(L)'
  <2>1. \A m \in Nodes : should'[m] <=> m \notin L /\ \A u \in Threads : Has(u, m)' => pc'[u] \in Fresh
    BY <1>1, <1>7, <1>9 DEF MarkInv
  <2>2. \A m \in Nodes : should'[m] /\ Referring(m)' = {} => \E u \in Threads : Has(u, m)'
    BY <1>1, <1>2, <1>4, <1>7 DEF MarkInv
  <2>3. \A u \in Threads : pc'[u] \in Fresh => (Referring(node[u]) = {})'
    BY <1>1, <1>4, <1>9, <1>10 DEF MarkInv
  <2> QED BY <1>1, <2>1, <2>2, <2>3 DEF MarkInv
<1>12. RefsInv(L)'
  <2>1. InList(L, n) /\ \A m \in Nodes \ {n} : InList(L, m)' <=> InList(L, m)
    BY <1>1, <1>2 DEF InList, Types, Counted
  <2>2. ~InList(L, n)'
    <3>1. n \notin L BY <1>2 DEF HolderInv
    <3>2. ASSUME NEW u \in Threads, pc'[u] \in Counted, node'[u] = n PROVE FALSE
      <4>1. u # t /\ pc[u] \in Counted /\ node[u] = n BY <1>1, <3>2 DEF Types, Counted
      <4>2. Has(u, n) BY <4>1 DEF Has
      <4> QED BY <1>2, <4>1, <4>2 DEF HolderInv, OneHolder
    <3> QED BY <3>1, <3>2 DEF InList
  <2>3. Cardinality(Referring(n)') = Cardinality(Referring(n)) - 1
    BY <1>3, Count, FS_RemoveElement
  <2>4. Cardinality(Referring(n)) \in Nat BY Count
  <2> QED BY <1>1, <1>2, <1>4, <2>1, <2>2, <2>3, <2>4 DEF RefsInv, Types
<1> QED BY <1>5, <1>6, <1>8, <1>11, <1>12

LEMMA DropStep ==
  ASSUME FreeListAssumption, NEW L, Inv(L), NEW t \in Threads, Drop(t)
  PROVE  Inv(L)'
<1> USE DEF Inv
<1> PICK n : n = node[t] OBVIOUS
<1> DEFINE last == should[n] /\ refs[n] = 1
<1>1. /\ pc[t] = "drop" /\ pc' = [pc EXCEPT ![t] = IF last THEN "putLoad" ELSE AgainWith(head[t])]
      /\ refs' = [refs EXCEPT ![n] = @ - 1]
      /\ back' = [back EXCEPT ![t] = IF last THEN head[t] ELSE @]
      /\ UNCHANGED <<freeListHead, freeListNext, should, head, next, node, held>>
  BY DEF Drop, Go
<1>2. n \in Nodes BY <1>1 DEF Types, LocalInv, Maybe
<1>3. Referring(n)' = Referring(n) \ {t} /\ t \in Referring(n)
  BY <1>1 DEF Types, Referring, AgainWith
<1>4. \A m \in Nodes \ {n} : Referring(m)' = Referring(m) BY <1>1 DEF Types, Referring, AgainWith
<1>5. Types' /\ LocalInv' BY <1>1, <1>2 DEF Types, LocalInv, Fresh, Counted, AgainWith
<1>6. ListInv(L)' BY <1>1 DEF ListInv
<1>7. /\ Cardinality(Referring(n)') = Cardinality(Referring(n)) - 1
      /\ Cardinality(Referring(n)) \in Nat
  BY <1>3, Count, FS_RemoveElement
<1>8. \A m \in Nodes : InList(L, m)' <=> InList(L, m)
  BY <1>1 DEF InList, Types, Counted, AgainWith
<1>9. RefsInv(L)' BY <1>1, <1>2, <1>4, <1>7, <1>8 DEF RefsInv, Types
<1>10. ASSUME NEW u \in Threads, pc[u] \in Fresh PROVE node[u] \in Nodes \ {n}
  BY <1>3, <1>10 DEF MarkInv, Types, LocalInv, Maybe
<1>11. should[n] => n \notin L /\ \A u \in Threads : ~Has(u, n)
  <2> SUFFICES ASSUME should[n], NEW u \in Threads, Has(u, n) PROVE FALSE
    BY <1>2 DEF MarkInv
  <2>1. pc[u] \in Fresh BY <1>2 DEF MarkInv
  <2>2. node[u] = n BY <1>2, <2>1 DEF Has, LocalInv, Fresh, FreeListAssumption
  <2> QED BY <1>10, <2>1, <2>2
<1>12. should[n] => ~InList(L, n) BY <1>11 DEF InList, Has
<1>13. should[n] => refs[n] = Cardinality(Referring(n)) BY <1>2, <1>7, <1>12 DEF RefsInv
<1>14. should[n] => (last <=> Referring(n) \ {t} = {})
  BY <1>3, <1>7, <1>13, Count, FS_RemoveElement, FS_EmptySet
<1>15. CASE last
  <2>1. \A u \in Threads : \A m \in Nodes : Has(u, m)' <=> Has(u, m) \/ (u = t /\ m = n)
    BY <1>1, <1>2, <1>15 DEF Types, Has, Fresh, Counted
  <2>2. HolderInv(L)'
    <3>1. OneHolder' BY <1>2, <1>11, <1>15, <2>1 DEF HolderInv, OneHolder
    <3>2. \A m \in L : \A u \in Threads : ~Has(u, m)' BY <1>11, <1>15, <2>1 DEF HolderInv, ListInv
    <3> QED BY <3>1, <3>2 DEF HolderInv
  <2>3. \A u \in Threads : pc'[u] \in Fresh <=> pc[u] \in Fresh \/ u = t
    BY <1>1, <1>15 DEF Types, Fresh
  <2>4. MarkInv(L)'
    <3>1. \A m \in Nodes : should'[m] <=> m \notin L /\ \A u \in Threads : Has(u, m)' => pc'[u] \in Fresh
      <4>1. ASSUME NEW m \in Nodes, m # n
            PROVE  should'[m] <=> m \notin L /\ \A u \in Threads : Has(u, m)' => pc'[u] \in Fresh
        <5>1. ~Has(t, m) BY <1>1, <4>1 DEF Has, LocalInv, Fresh, Counted, FreeListAssumption
        <5> QED BY <1>1, <2>1, <2>3, <4>1, <5>1 DEF MarkInv
      <4>2. n \notin L /\ \A u \in Threads : Has(u, n)' => pc'[u] \in Fresh
        BY <1>2, <1>11, <1>15, <2>1, <2>3
      <4> QED BY <1>1, <1>15, <4>1, <4>2
    <3>2. \A m \in Nodes : should'[m] /\ Referring(m)' = {} => \E u \in Threads : Has(u, m)'
      BY <1>1, <1>4, <2>1 DEF MarkInv
    <3>3. \A u \in Threads : (pc[u] \in Fresh => Referring(node[u]) = {})'
      BY <1>1, <1>3, <1>4, <1>10, <1>14, <1>15, <2>3 DEF MarkInv
    <3> QED BY <1>1, <3>1, <3>2, <3>3 DEF MarkInv
  <2> QED BY <1>5, <1>6, <1>9, <2>2, <2>4
<1>16. CASE ~last
  <2>1. \A u \in Threads : \A m \in Nodes : Has(u, m)' <=> Has(u, m)
    BY <1>1, <1>16 DEF Types, Has, Fresh, Counted, AgainWith
  <2>2. HolderInv(L)' BY <2>1 DEF HolderInv, OneHolder, ListInv
  <2>3. \A u \in Threads : pc'[u] \in Fresh <=> pc[u] \in Fresh
    BY <1>1, <1>16 DEF Types, Fresh, AgainWith
  <2>4. MarkInv(L)'
    <3>1. \A m \in Nodes : should'[m] <=> m \notin L /\ \A u \in Threads : Has(u, m)' => pc'[u] \in Fresh
      BY <1>1, <2>1, <2>3 DEF MarkInv
    <3>2. \A m \in Nodes : should'[m] /\ Referring(m)' = {} => \E u \in Threads : Has(u, m)'
      BY <1>1, <1>3, <1>4, <1>14, <1>16, <2>1 DEF MarkInv
    <3>3. \A u \in Threads : (pc[u] \in Fresh => Referring(node[u]) = {})'
      BY <1>1, <1>4, <1>10, <2>3 DEF MarkInv
    <3> QED BY <1>1, <3>1, <3>2, <3>3 DEF MarkInv
  <2> QED BY <1>5, <1>6, <1>9, <2>2, <2>4
<1> QED BY <1>15, <1>16

LEMMA AddStep ==
  ASSUME FreeListAssumption, NEW L, Inv(L), NEW t \in Threads, Add(t)
  PROVE  Inv(L)'
<1> USE DEF Inv
<1> PICK n : n = held[t] OBVIOUS
<1>1. /\ pc[t] = "add" /\ pc' = [pc EXCEPT ![t] = IF refs[n] = 0 /\ ~should[n] THEN "putLoad" ELSE "idle"]
      /\ should' = [should EXCEPT ![n] = TRUE]
      /\ node' = [node EXCEPT ![t] = n] /\ held' = [held EXCEPT ![t] = nullptr]
      /\ back' = [back EXCEPT ![t] = nullptr]
      /\ UNCHANGED <<freeListHead, freeListNext, refs, head, next>>
  BY DEF Add, Go
<1>2. n \in Nodes /\ Has(t, n) BY <1>1 DEF Types, LocalInv, Maybe, Has
<1>3. n \notin L BY <1>2 DEF HolderInv
<1>4. ~should[n] BY <1>1, <1>2 DEF MarkInv, Fresh
<1>5. Types' /\ LocalInv' BY <1>1, <1>2 DEF Types, LocalInv, Maybe, Fresh, Counted
<1>6. ListInv(L)' BY <1>1 DEF ListInv
<1>7. \A m \in Nodes : Referring(m)' = Referring(m) BY <1>1 DEF Types, Referring
<1>8. \A m \in Nodes : InList(L, m)' <=> InList(L, m) BY <1>1 DEF InList, Types, Counted
<1>9. RefsInv(L)' BY <1>1, <1>7, <1>8 DEF RefsInv
<1>10. \A u \in Threads : Has(u, n) => u = t BY <1>2 DEF HolderInv, OneHolder
<1>11. ~InList(L, n) BY <1>1, <1>3, <1>10 DEF InList, Has, Counted
<1>12. refs[n] = 0 <=> Referring(n) = {} BY <1>2, <1>11, Count DEF RefsInv
<1>13. \A u \in Threads : \A m \in Nodes :
         Has(u, m)' <=> IF u = t THEN m = n /\ refs[n] = 0 ELSE Has(u, m)
  BY <1>1, <1>2, <1>4 DEF Types, Has, Fresh, Counted, FreeListAssumption
<1>14. \A m \in Nodes : Has(t, m) => m = n BY <1>1 DEF Has, Fresh, Counted
<1>15. HolderInv(L)'
  <2>1. OneHolder' BY <1>2, <1>10, <1>13 DEF HolderInv, OneHolder
  <2>2. \A m \in L : \A u \in Threads : ~Has(u, m)' BY <1>3, <1>13 DEF HolderInv, ListInv
  <2> QED BY <2>1, <2>2 DEF HolderInv
<1>16. \A u \in Threads : pc'[u] \in Fresh <=> IF u = t THEN refs[n] = 0 ELSE pc[u] \in Fresh
  BY <1>1, <1>4 DEF Types, Fresh
<1>17. MarkInv(L)'
  <2>1. \A m \in Nodes : should'[m] <=> m \notin L /\ \A u \in Threads : Has(u, m)' => pc'[u] \in Fresh
    <3>1. ASSUME NEW m \in Nodes, m # n
          PROVE  should'[m] <=> m \notin L /\ \A u \in Threads : Has(u, m)' => pc'[u] \in Fresh
      BY <1>1, <1>13, <1>14, <1>16, <3>1 DEF MarkInv, Types
    <3>2. \A u \in Threads : Has(u, n)' => pc'[u] \in Fresh BY <1>2, <1>10, <1>13, <1>16
    <3>3. should'[n] BY <1>1, <1>2 DEF Types
    <3> QED BY <1>3, <3>1, <3>2, <3>3
  <2>2. \A m \in Nodes : should'[m] /\ Referring(m)' = {} => \E u \in Threads : Has(u, m)'
    <3>1. ASSUME NEW m \in Nodes, m # n, should'[m], Referring(m)' = {} PROVE \E u \in Threads : Has(u, m)'
      <4>1. should[m] /\ Referring(m) = {} BY <1>1, <1>7, <3>1 DEF Types
      <4> QED BY <1>13, <1>14, <3>1, <4>1 DEF MarkInv
    <3>2. Referring(n)' = {} => Has(t, n)' BY <1>2, <1>7, <1>12, <1>13
    <3> QED BY <3>1, <3>2
  <2>3. \A u \in Threads : (pc[u] \in Fresh => Referring(node[u]) = {})'
    <3>1. \A u \in Threads : pc[u] \in Fresh => node[u] \in Nodes BY DEF Types, LocalInv, Maybe
    <3>2. \A u \in Threads \ {t} : node'[u] = node[u] BY <1>1 DEF Types
    <3>3. node'[t] = n BY <1>1 DEF Types
    <3> QED BY <1>2, <1>7, <1>12, <1>16, <3>1, <3>2, <3>3 DEF MarkInv
  <2> QED BY <2>1, <2>2, <2>3 DEF MarkInv
<1> QED BY <1>5, <1>6, <1>9, <1>15, <1>17

LEMMA PutRefsStep ==
  ASSUME FreeListAssumption, NEW L, Inv(L), NEW t \in Threads, PutRefs(t)
  PROVE  Inv(L)'
<1> USE DEF Inv
<1> PICK n : n = node[t] OBVIOUS
<1>1. /\ pc[t] = "putRefs" /\ pc' = [pc EXCEPT ![t] = "putCas"]
      /\ refs' = [refs EXCEPT ![n] = 1] /\ should' = [should EXCEPT ![n] = FALSE]
      /\ UNCHANGED <<freeListHead, freeListNext, head, next, node, back, held>>
  BY DEF PutRefs, Go
<1>2. n \in Nodes /\ Has(t, n) /\ Referring(n) = {}
  BY <1>1 DEF Types, LocalInv, Maybe, Has, Fresh, MarkInv
<1>3. Types' /\ LocalInv' BY <1>1, <1>2 DEF Types, LocalInv, Fresh, Counted
<1>4. ListInv(L)' BY <1>1 DEF ListInv
<1>5. \A m \in Nodes : Referring(m)' = Referring(m) BY <1>1 DEF Types, Referring
<1>6. \A u \in Threads : \A m \in Nodes : Has(u, m)' <=> Has(u, m)
  BY <1>1 DEF Types, Has, Fresh, Counted
<1>7. HolderInv(L)' BY <1>6 DEF HolderInv, OneHolder, ListInv
<1>8. InList(L, n)' /\ \A m \in Nodes \ {n} : InList(L, m)' <=> InList(L, m)
  BY <1>1 DEF InList, Types, Counted
<1>9. RefsInv(L)'
  <2>1. Cardinality(Referring(n)) = 0 BY <1>2, Count
  <2>2. Cardinality(Referring(n)') = 0 /\ refs'[n] = 1 BY <1>1, <1>2, <1>5, <2>1 DEF Types
  <2>3. \A m \in Nodes \ {n} : refs'[m] = refs[m] BY <1>1 DEF Types
  <2> QED BY <1>5, <1>8, <2>2, <2>3 DEF RefsInv
<1>10. \A u \in Threads : pc'[u] \in Fresh <=> pc[u] \in Fresh /\ u # t BY <1>1 DEF Types, Fresh
<1>11. \A m \in Nodes : Has(t, m) => m = n BY <1>1 DEF Has, LocalInv, FreeListAssumption
<1>12. MarkInv(L)'
  <2>1. \A m \in Nodes : should'[m] <=> m \notin L /\ \A u \in Threads : Has(u, m)' => pc'[u] \in Fresh
    <3>1. ASSUME NEW m \in Nodes, m # n
          PROVE  should'[m] <=> m \notin L /\ \A u \in Threads : Has(u, m)' => pc'[u] \in Fresh
      BY <1>1, <1>6, <1>10, <1>11, <3>1 DEF MarkInv, Types
    <3>2. ~should'[n] BY <1>1, <1>2 DEF Types
    <3>3. Has(t, n)' /\ pc'[t] \notin Fresh BY <1>2, <1>6, <1>10
    <3> QED BY <3>1, <3>2, <3>3
  <2>2. \A m \in Nodes : should'[m] /\ Referring(m)' = {} => \E u \in Threads : Has(u, m)'
    <3>1. \A m \in Nodes : should'[m] => should[m] BY <1>1 DEF Types
    <3> QED BY <1>5, <1>6, <3>1 DEF MarkInv
  <2>3. \A u \in Threads : (pc[u] \in Fresh => Referring(node[u]) = {})'
    <3>1. \A u \in Threads : pc[u] \in Fresh => node[u] \in Nodes BY DEF Types, LocalInv, Maybe
    <3> QED BY <1>1, <1>5, <1>10, <3>1 DEF MarkInv
  <2> QED BY <2>1, <2>2, <2>3 DEF MarkInv
<1> QED BY <1>3, <1>4, <1>7, <1>9, <1>12

(* The push: the node becomes the head of the list. *)
LEMMA PutCasStep ==
  ASSUME FreeListAssumption, NEW L, Inv(L), NEW t \in Threads, PutCas(t),
         freeListHead = head[t], NEW n, n = node[t]
  PROVE  Inv(L \cup {n})'
<1> USE DEF Inv
<1> DEFINE M == L \cup {n}
<1>1. /\ pc[t] = "putCas" /\ pc' = [pc EXCEPT ![t] = AgainWith(back[t])]
      /\ freeListHead' = n /\ head' = [head EXCEPT ![t] = back[t]]
      /\ UNCHANGED <<freeListNext, refs, should, next, node, back, held>>
  BY DEF PutCas, Go, Return
<1>2. n \in Nodes /\ Has(t, n) /\ freeListNext[n] = freeListHead
  BY <1>1 DEF Types, LocalInv, Maybe, Has, Counted
<1>3. n \notin L BY <1>2 DEF HolderInv
<1>4. Types' /\ LocalInv' BY <1>1, <1>2 DEF Types, LocalInv, Maybe, Fresh, Counted, AgainWith
<1>5. ListInv(M)' BY <1>1, <1>2, <1>3 DEF ListInv
<1>6. \A m \in Nodes : Referring(m)' = Referring(m) BY <1>1 DEF Types, Referring, AgainWith
<1>7. \A m \in Nodes : Has(t, m) => m = n BY <1>1 DEF Has, LocalInv, FreeListAssumption
<1>8. \A u \in Threads : \A m \in Nodes : Has(u, m)' <=> Has(u, m) /\ u # t
  BY <1>1 DEF Types, Has, Fresh, Counted, AgainWith, LocalInv, FreeListAssumption
<1>9. \A u \in Threads : Has(u, n) => u = t BY <1>2 DEF HolderInv, OneHolder
<1>10. HolderInv(M)'
  <2>1. OneHolder' BY <1>8 DEF HolderInv, OneHolder
  <2>2. \A m \in M : \A u \in Threads : ~Has(u, m)' BY <1>2, <1>8, <1>9 DEF HolderInv, ListInv
  <2> QED BY <2>1, <2>2 DEF HolderInv
<1>11. \A m \in Nodes : InList(M, m)' <=> InList(L, m)
  BY <1>1, <1>2 DEF InList, Types, Counted, AgainWith
<1>12. RefsInv(M)' BY <1>1, <1>6, <1>11 DEF RefsInv
<1>13. \A u \in Threads : pc'[u] \in Fresh <=> pc[u] \in Fresh BY <1>1 DEF Types, Fresh, AgainWith
<1>14. ~should[n] BY <1>1, <1>2 DEF MarkInv, Fresh
<1>15. MarkInv(M)'
  <2>1. \A m \in Nodes : should'[m] <=> m \notin M /\ \A u \in Threads : Has(u, m)' => pc'[u] \in Fresh
    <3>1. ASSUME NEW m \in Nodes, m # n
          PROVE  should'[m] <=> m \notin M /\ \A u \in Threads : Has(u, m)' => pc'[u] \in Fresh
      BY <1>1, <1>7, <1>8, <1>13, <3>1 DEF MarkInv
    <3> QED BY <1>1, <1>14, <3>1
  <2>2. \A m \in Nodes : should'[m] /\ Referring(m)' = {} => \E u \in Threads : Has(u, m)'
    BY <1>1, <1>6, <1>7, <1>8, <1>14 DEF MarkInv
  <2>3. \A u \in Threads : (pc[u] \in Fresh => Referring(node[u]) = {})'
    <3>1. \A u \in Threads : pc[u] \in Fresh => node[u] \in Nodes BY DEF Types, LocalInv, Maybe
    <3> QED BY <1>1, <1>6, <1>13, <3>1 DEF MarkInv
  <2> QED BY <2>1, <2>2, <2>3 DEF MarkInv
<1> QED BY <1>4, <1>5, <1>10, <1>12, <1>15

LEMMA PutFailStep ==
  ASSUME FreeListAssumption, NEW L, Inv(L), NEW t \in Threads, PutFail(t)
  PROVE  Inv(L)'
<1> USE DEF Inv
<1> PICK n : n = node[t] OBVIOUS
<1>1. /\ pc[t] = "putFail" /\ pc' = [pc EXCEPT ![t] = IF refs[n] = 1 THEN "putNext" ELSE AgainWith(back[t])]
      /\ refs' = [refs EXCEPT ![n] = @ - 1] /\ should' = [should EXCEPT ![n] = TRUE]
      /\ head' = [head EXCEPT ![t] = IF refs[n] = 1 THEN @ ELSE back[t]]
      /\ UNCHANGED <<freeListHead, freeListNext, next, node, back, held>>
  BY DEF PutFail, Go, Return, Types
<1>2. n \in Nodes /\ Has(t, n) BY <1>1 DEF Types, LocalInv, Maybe, Has, Counted
<1>3. n \notin L BY <1>2 DEF HolderInv
<1>4. Types' /\ LocalInv' BY <1>1, <1>2 DEF Types, LocalInv, Maybe, Fresh, Counted, AgainWith
<1>5. ListInv(L)' BY <1>1 DEF ListInv
<1>6. \A m \in Nodes : Referring(m)' = Referring(m) BY <1>1 DEF Types, Referring, AgainWith
<1>7. \A m \in Nodes : Has(t, m) => m = n BY <1>1 DEF Has, LocalInv, FreeListAssumption
<1>8. \A u \in Threads : Has(u, n) => u = t BY <1>2 DEF HolderInv, OneHolder
<1>9. InList(L, n) /\ \A m \in Nodes \ {n} : InList(L, m)' <=> InList(L, m)
  BY <1>1 DEF InList, Types, Counted, AgainWith
<1>10. ~InList(L, n)'
  <2>1. ASSUME NEW u \in Threads, pc'[u] \in Counted, node'[u] = n PROVE FALSE
    <3>1. u # t /\ pc[u] \in Counted /\ node[u] = n BY <1>1, <2>1 DEF Types, Counted, AgainWith
    <3>2. Has(u, n) BY <3>1 DEF Has
    <3> QED BY <1>8, <3>1, <3>2
  <2> QED BY <1>3, <2>1 DEF InList
<1>11. RefsInv(L)'
  <2>1. Cardinality(Referring(n)) \in Nat BY Count
  <2> QED BY <1>1, <1>2, <1>6, <1>9, <1>10, <2>1 DEF RefsInv, Types
<1>12. refs[n] = 1 <=> Referring(n) = {}
  <2>1. refs[n] = Cardinality(Referring(n)) + 1 BY <1>2, <1>9 DEF RefsInv
  <2> QED BY <2>1, Count
<1>13. \A u \in Threads : \A m \in Nodes :
         Has(u, m)' <=> IF u = t THEN m = n /\ refs[n] = 1 ELSE Has(u, m)
  BY <1>1, <1>2 DEF Types, Has, Fresh, Counted, AgainWith, LocalInv, FreeListAssumption
<1>14. HolderInv(L)'
  <2>1. OneHolder' BY <1>2, <1>8, <1>13 DEF HolderInv, OneHolder
  <2>2. \A m \in L : \A u \in Threads : ~Has(u, m)' BY <1>3, <1>13 DEF HolderInv, ListInv
  <2> QED BY <2>1, <2>2 DEF HolderInv
<1>15. \A u \in Threads : pc'[u] \in Fresh <=> IF u = t THEN refs[n] = 1 ELSE pc[u] \in Fresh
  BY <1>1 DEF Types, Fresh, AgainWith
<1>16. MarkInv(L)'
  <2>1. \A m \in Nodes : should'[m] <=> m \notin L /\ \A u \in Threads : Has(u, m)' => pc'[u] \in Fresh
    <3>1. ASSUME NEW m \in Nodes, m # n
          PROVE  should'[m] <=> m \notin L /\ \A u \in Threads : Has(u, m)' => pc'[u] \in Fresh
      BY <1>1, <1>7, <1>13, <1>15, <3>1 DEF MarkInv, Types
    <3>2. \A u \in Threads : Has(u, n)' => pc'[u] \in Fresh BY <1>2, <1>8, <1>13, <1>15
    <3>3. should'[n] BY <1>1, <1>2 DEF Types
    <3> QED BY <1>3, <3>1, <3>2, <3>3
  <2>2. \A m \in Nodes : should'[m] /\ Referring(m)' = {} => \E u \in Threads : Has(u, m)'
    <3>1. ASSUME NEW m \in Nodes, m # n, should'[m], Referring(m)' = {} PROVE \E u \in Threads : Has(u, m)'
      <4>1. should[m] /\ Referring(m) = {} BY <1>1, <1>6, <3>1 DEF Types
      <4> QED BY <1>7, <1>13, <3>1, <4>1 DEF MarkInv
    <3>2. Referring(n)' = {} => Has(t, n)' BY <1>2, <1>6, <1>12, <1>13
    <3> QED BY <3>1, <3>2
  <2>3. \A u \in Threads : (pc[u] \in Fresh => Referring(node[u]) = {})'
    <3>1. \A u \in Threads : pc[u] \in Fresh => node[u] \in Nodes BY DEF Types, LocalInv, Maybe
    <3> QED BY <1>1, <1>2, <1>6, <1>12, <1>15, <3>1 DEF MarkInv
  <2> QED BY <2>1, <2>2, <2>3 DEF MarkInv
<1> QED BY <1>4, <1>5, <1>11, <1>14, <1>16

LEMMA InitList == ASSUME FreeListAssumption, Init PROVE ListInv(Listed)
<1> DEFINE N == Cardinality(Listed)
<1>1. PICK q \in [1 .. N -> Listed] :
        /\ {q[i] : i \in DOMAIN q} = Listed /\ \A i, j \in DOMAIN q : q[i] = q[j] => i = j
        /\ freeListHead = IF Listed = {} THEN nullptr ELSE q[1]
        /\ freeListNext = [n \in Nodes |-> IF \E i \in DOMAIN q : i < N /\ q[i] = n
                             THEN q[1 + CHOOSE i \in DOMAIN q : q[i] = n] ELSE nullptr]
  BY DEF Init, IsStack
<1>2. DOMAIN q = 1 .. N /\ N \in Nat
  <2>1. IsFiniteSet(Listed) BY FS_Subset DEF FreeListAssumption
  <2> QED BY <2>1, FS_CardinalityType
<1> HIDE DEF N
<1>3. ASSUME NEW m \in Listed, freeListNext[m] # nullptr
      PROVE  \E i \in 1 .. N : i < N /\ q[i] = m /\ i + 1 \in 1 .. N /\ freeListNext[m] = q[i + 1]
  <2>1. m \in Nodes BY DEF FreeListAssumption
  <2>2. PICK i \in 1 .. N : i < N /\ q[i] = m BY <1>1, <1>2, <1>3, <2>1
  <2>3. (CHOOSE j \in DOMAIN q : q[j] = m) = i BY <1>1, <1>2, <2>2
  <2>4. freeListNext[m] = q[1 + i] BY <1>1, <1>2, <2>1, <2>2, <2>3
  <2>5. i + 1 \in 1 .. N /\ 1 + i = i + 1 BY <1>2, <2>2
  <2> QED BY <2>2, <2>4, <2>5
<1>4. Listed # {} => 1 \in 1 .. N
  <2> SUFFICES ASSUME NEW m \in Listed PROVE 1 \in 1 .. N OBVIOUS
  <2>1. PICK i \in 1 .. N : q[i] = m BY <1>1, <1>2
  <2> QED BY <1>2, <2>1
<1>5. freeListHead \in Listed \cup {nullptr} BY <1>1, <1>4
<1>6. ASSUME NEW m \in Listed, freeListNext[m] # nullptr
      PROVE  /\ freeListNext[m] \in Listed /\ freeListNext[m] # freeListHead
             /\ \A k \in Listed : freeListNext[k] = freeListNext[m] => k = m
  <2>1. PICK i \in 1 .. N : i < N /\ q[i] = m /\ i + 1 \in 1 .. N /\ freeListNext[m] = q[i + 1]
    BY <1>3, <1>6
  <2>2. freeListNext[m] \in Listed BY <2>1
  <2>3. freeListNext[m] # freeListHead
    <3>1. q[i + 1] # q[1] /\ Listed # {} BY <1>1, <1>2, <1>4, <2>1
    <3> QED BY <1>1, <2>1, <3>1
  <2>4. ASSUME NEW k \in Listed, freeListNext[k] = freeListNext[m] PROVE k = m
    <3>1. PICK j \in 1 .. N : j < N /\ q[j] = k /\ j + 1 \in 1 .. N /\ freeListNext[k] = q[j + 1]
      BY <1>3, <1>6, <2>4
    <3>2. \A a, b \in 1 .. N : q[a] = q[b] => a = b BY <1>1, <1>2
    <3>3. q[i + 1] = q[j + 1] BY <2>1, <2>4, <3>1
    <3>4. i + 1 = j + 1 BY <2>1, <3>1, <3>2, <3>3
    <3> QED BY <1>2, <2>1, <3>1, <3>4
  <2> QED BY <2>2, <2>3, <2>4
<1> QED BY <1>5, <1>6 DEF ListInv, FreeListAssumption

LEMMA InitInv == ASSUME FreeListAssumption, Init PROVE Inv(Listed)
<1> USE DEF Inv
<1>1. \A t \in Threads : pc[t] = "idle" BY DEF Init
<1>2. Types BY DEF Types, Init, Maybe
<1>3. LocalInv BY <1>1 DEF LocalInv, Fresh, Counted
<1>4. \A n : Referring(n) = {} BY <1>1 DEF Referring
<1>5. \A t \in Threads : \A n \in Nodes : Has(t, n) <=> held[t] = n BY <1>1 DEF Has, Fresh, Counted
<1>6. ASSUME NEW n \in Nodes
      PROVE  IF n \in Listed THEN \A t \in Threads : held[t] # n
             ELSE \E t \in Threads : \A u \in Threads : held[u] = n <=> u = t
  <2> DEFINE H == {t \in Threads : held[t] = n}
  <2>1. H \in SUBSET Threads OBVIOUS
  <2>2. IsFiniteSet(H) BY <2>1, FS_Subset DEF FreeListAssumption
  <2>3. Cardinality(H) = IF n \in Listed THEN 0 ELSE 1 BY DEF Init
  <2>4. n \in Listed => H = {} BY <2>2, <2>3, FS_EmptySet
  <2>5. n \notin Listed => \E x : H = {x} BY <2>2, <2>3, FS_Singleton
  <2> QED BY <2>4, <2>5
<1>7. HolderInv(Listed) BY <1>5, <1>6 DEF HolderInv, OneHolder, FreeListAssumption
<1>8. MarkInv(Listed)
  <2>1. \A n \in Nodes : ~should[n] BY DEF Init
  <2>2. \A t \in Threads : pc[t] \notin Fresh BY <1>1 DEF Fresh
  <2> QED BY <1>5, <1>6, <2>1, <2>2 DEF MarkInv
<1>9. RefsInv(Listed)
  <2>1. \A n \in Nodes : InList(Listed, n) <=> n \in Listed BY <1>1 DEF InList, Counted
  <2>2. \A n : Cardinality(Referring(n)) = 0 BY <1>4, FS_EmptySet
  <2>3. \A n \in Nodes : refs[n] = IF n \in Listed THEN 1 ELSE 0 BY DEF Init
  <2> QED BY <2>1, <2>2, <2>3 DEF RefsInv
<1> QED BY <1>2, <1>3, <1>7, <1>8, <1>9, InitList

LEMMA IInvStep == ASSUME FreeListAssumption, IInv, [Next]_vars PROVE IInv'
<1>1. PICK L \in SUBSET Nodes : Inv(L) BY DEF IInv
<1>2. SUFFICES \E M : Inv(M)' BY DEF IInv, Inv, ListInv
<1>3. CASE UNCHANGED vars
  <2>1. Types' /\ LocalInv' BY <1>1, <1>3 DEF vars, Inv, Types, LocalInv
  <2>2. \A n \in Nodes : Referring(n)' = Referring(n) BY <1>3 DEF vars, Referring
  <2>3. Inv(L)' BY <1>1, <1>3, <2>1, <2>2, Quiet DEF vars
  <2> QED BY <2>3
<1>4. ASSUME NEW t \in Threads, Call(t) \/ Step(t) PROVE \E M : Inv(M)'
  <2>1. CASE Call(t) \/ Load(t) \/ ReadNext(t) \/ PutLoad(t) \/ PutNext(t) BY <1>1, <2>1, QuietStep
  <2>2. CASE Ref(t)
    <3>1. CASE refs' = refs
      <4>1. Inv(L)' BY <1>1, <2>2, <3>1, QuietStep
      <4> QED BY <4>1
    <3>2. CASE refs' # refs BY <1>1, <2>2, <3>2, RefStep
    <3> QED BY <3>1, <3>2
  <2>3. CASE Cas(t)
    <3>1. PICK n : n = head[t] OBVIOUS
    <3>2. CASE freeListHead = n
      <4>1. Inv(L \ {n})' BY <1>1, <2>3, <3>1, <3>2, CasStep
      <4> QED BY <4>1
    <3>3. CASE freeListHead # n BY <1>1, <2>3, <3>1, <3>3, QuietStep
    <3> QED BY <3>2, <3>3
  <2>4. CASE PutCas(t)
    <3>1. PICK n : n = node[t] OBVIOUS
    <3>2. CASE freeListHead = head[t]
      <4>1. Inv(L \cup {n})' BY <1>1, <2>4, <3>1, <3>2, PutCasStep
      <4> QED BY <4>1
    <3>3. CASE freeListHead # head[t] BY <1>1, <2>4, <3>3, QuietStep
    <3> QED BY <3>2, <3>3
  <2>5. CASE Take(t) BY <1>1, <2>5, TakeStep
  <2>6. CASE Drop(t) BY <1>1, <2>6, DropStep
  <2>7. CASE Add(t) BY <1>1, <2>7, AddStep
  <2>8. CASE PutRefs(t) BY <1>1, <2>8, PutRefsStep
  <2>9. CASE PutFail(t) BY <1>1, <2>9, PutFailStep
  <2> QED BY <1>4, <2>1, <2>2, <2>3, <2>4, <2>5, <2>6, <2>7, <2>8, <2>9 DEF Step
<1> QED BY <1>3, <1>4 DEF Next

LEMMA IInvAlways == ASSUME FreeListAssumption PROVE Spec => []IInv
<1>1. Init => IInv BY InitInv DEF IInv, FreeListAssumption
<1>2. IInv /\ [Next]_vars => IInv' BY IInvStep
<1> QED BY <1>1, <1>2, PTL DEF Spec

(* The count of a node never exceeds the threads by more than one, for the  *)
(* list: with it the word freeListRefs never reaches its top bit, which     *)
(* means something else.                                                    *)
THEOREM TypeCorrect == ASSUME FreeListAssumption PROVE Spec => []TypeOK
<1>1. IInv => TypeOK
  <2> SUFFICES ASSUME NEW L, Inv(L) PROVE TypeOK BY DEF IInv
  <2>1. ASSUME NEW n \in Nodes PROVE refs[n] \in 0 .. Cardinality(Threads) + 1
    BY Count DEF Inv, RefsInv
  <2> QED BY <2>1 DEF Inv, Types, TypeOK
<1> QED BY <1>1, IInvAlways, PTL

(* However readers, adders and failing compare-and-swaps interleave, a node *)
(* is never in the hands of two threads.                                    *)
THEOREM NodesExclusive == ASSUME FreeListAssumption PROVE Spec => []OneHolder
<1>1. IInv => OneHolder BY DEF IInv, Inv, HolderInv
<1> QED BY <1>1, IInvAlways, PTL

(* No ABA, with any number of threads: the compare-and-swap of try_get puts *)
(* in the head's present next pointer, and who took a node off the list     *)
(* finds its bit clear and two references to give up.                       *)
THEOREM NoABA == ASSUME FreeListAssumption PROVE Spec => [](NextStillValid /\ TakenCleanly)
<1>1. IInv => NextStillValid BY DEF IInv, Inv, LocalInv, NextStillValid
<1>2. IInv => TakenCleanly
  <2> SUFFICES ASSUME NEW L, Inv(L), NEW t \in Threads, pc[t] = "take"
               PROVE  ~should[node[t]] /\ refs[node[t]] >= 2
    BY DEF IInv, TakenCleanly
  <2>1. node[t] \in Nodes /\ Has(t, node[t]) BY DEF Inv, Types, LocalInv, Maybe, Counted, Has
  <2>2. ~should[node[t]] BY <2>1 DEF Inv, MarkInv, Fresh
  <2>3. InList(L, node[t]) BY DEF InList, Counted
  <2>4. t \in Referring(node[t]) BY DEF Referring
  <2>5. Cardinality(Referring(node[t])) \in Nat /\ Cardinality(Referring(node[t])) # 0
    BY <2>4, Count
  <2>6. refs[node[t]] = Cardinality(Referring(node[t])) + 1 BY <2>1, <2>3 DEF Inv, RefsInv
  <2> QED BY <2>2, <2>5, <2>6
<1> QED BY <1>1, <1>2, IInvAlways, PTL
=============================================================================
