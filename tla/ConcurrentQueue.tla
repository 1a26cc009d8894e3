--------------------------- MODULE ConcurrentQueue ---------------------------
(***************************************************************************)
(* The queue object of lib/moodycamel/concurrentqueue.h over its producers: *)
(* the lock-free list of producers, their creation and recycling, and the  *)
(* ways of dequeueing across them (by score, in list order, with a consumer *)
(* token that rotates over the producers, one element or several).         *)
(*                                                                         *)
(* A producer is the FIFO that ExplicitProducer.tla and ImplicitProducer.tla *)
(* describe, its dequeue one step. Each load of producerListTail and each   *)
(* visit of a producer is one step.                                        *)
(***************************************************************************)
EXTENDS Integers, Sequences, FiniteSets, FiniteSetsExt, Functions

CONSTANTS Threads, Consumers, nullptr,
          Explicit,      \* the threads that use a ProducerToken
          Calls,         \* Calls[c]: the dequeue methods c uses
          MaxBulk,       \* the largest max of a bulk dequeue
          Quota,         \* EXPLICIT_CONSUMER_CONSUMPTION_QUOTA_BEFORE_ROTATE
          Width,         \* offsets are counted modulo Width (2^32)
          MaxProducers, MaxItems, MaxDrops   \* bounds: list, elements, tokens destroyed

Methods == {"scored", "inOrder", "token"}   \* and try_dequeue_from_producer: "from"

QueueAssumption ==
  /\ Explicit \subseteq Threads /\ nullptr \notin Nat
  /\ Calls \in [Consumers -> SUBSET (Methods \cup {"from"})]
  /\ {MaxBulk, Width, MaxProducers} \subseteq Nat \ {0} /\ Quota \in Nat \ {0, 1}
  /\ {MaxItems, MaxDrops} \subseteq Nat

VARIABLES chain,      \* the producer list from producerListTail on, numbered as created
          made,       \* the kind of each producer created: is it explicit
          count,      \* producerCount
          size,       \* size[p]: elements in p
          inactive,   \* producers free for recycling
          offset,     \* globalExplicitConsumerOffset
          pc, ptr, prod,    \* locals of the producing threads
          call,       \* the dequeue call each consumer is in
          tok,        \* its ConsumerToken
          full,       \* history: the producers that were never empty during the call
          sent, drops \* history, for the bounds

prodVars == <<pc, ptr, prod, drops>>
vars == <<chain, made, count, size, inactive, offset, prodVars, call, tok, full, sent>>

Prods == 1 .. Len(made)
Ptr == Prods \cup {nullptr}
ListTail == IF chain = <<>> THEN nullptr ELSE chain[1]
next_prod(p) ==
  LET i == CHOOSE j \in DOMAIN chain : chain[j] = p
  IN  IF i = Len(chain) THEN nullptr ELSE chain[i + 1]

NoCall == [pc |-> "idle", method |-> "inOrder", ptr |-> nullptr, tail |-> nullptr, best |-> nullptr,
           bestSize |-> 0, nonEmpty |-> 0, max |-> 0, got |-> 0]

TypeOK ==
  /\ made \in Seq(BOOLEAN) /\ Range(chain) \subseteq Prods /\ count \in Nat
  /\ size \in [1 .. MaxProducers -> 0 .. MaxItems] /\ inactive \subseteq Range(chain)
  /\ offset \in 0 .. Width - 1
  /\ pc \in [Threads -> {"none", "scan", "link", "own"}]
  /\ ptr \in [Threads -> Ptr] /\ prod \in [Threads -> Ptr]
  /\ \A c \in Consumers :
       /\ {call[c].ptr, call[c].tail, call[c].best} \subseteq Ptr
       /\ call[c].nonEmpty \in 0 .. 3 /\ call[c].max \in 0 .. MaxBulk /\ call[c].got \in 0 .. call[c].max
       /\ {tok[c].current, tok[c].desired} \subseteq Ptr /\ tok[c].items \in Nat
       /\ full[c] \subseteq Range(chain)

(* The tokens of the consumers exist: nextExplicitConsumerId has numbered them. *)
Init ==
  /\ chain = <<>> /\ made = <<>> /\ count = 0 /\ size = [p \in 1 .. MaxProducers |-> 0]
  /\ inactive = {} /\ offset = 0 /\ sent = 0 /\ drops = 0
  /\ pc = [t \in Threads |-> "none"] /\ ptr = [t \in Threads |-> nullptr] /\ prod = ptr
  /\ call = [c \in Consumers |-> NoCall] /\ full = [c \in Consumers |-> {}]
  /\ \E id \in {f \in [Consumers -> 0 .. Cardinality(Consumers) - 1] :
                  \A c, d \in Consumers : f[c] = f[d] => c = d} :
       tok = [c \in Consumers |-> [initial |-> id[c], lastKnown |-> Width - 1, items |-> 0,
                                   current |-> nullptr, desired |-> nullptr]]

-----------------------------------------------------------------------------
(* The producing threads. recycle_or_create_producer walks the list for an *)
(* inactive producer of the same kind ... *)
MakeProducer(t) ==
  /\ pc[t] = "none"
  /\ pc' = [pc EXCEPT ![t] = "scan"] /\ ptr' = [ptr EXCEPT ![t] = ListTail]
  /\ UNCHANGED <<chain, made, count, size, inactive, offset, prod, drops, call, tok, full, sent>>

CanRecycle(t, p) == p \in inactive /\ made[p] = (t \in Explicit)
Recycle(t) ==
  /\ pc[t] = "scan" /\ ptr[t] # nullptr
  /\ IF CanRecycle(t, ptr[t])
     THEN /\ pc' = [pc EXCEPT ![t] = "own"] /\ prod' = [prod EXCEPT ![t] = ptr[t]]
          /\ ptr' = [ptr EXCEPT ![t] = nullptr] /\ inactive' = inactive \ {ptr[t]}
     ELSE ptr' = [ptr EXCEPT ![t] = next_prod(ptr[t])] /\ UNCHANGED <<pc, prod, inactive>>
  /\ UNCHANGED <<chain, made, count, size, offset, drops, call, tok, full, sent>>

(* ... and creates one if there is none: add_producer counts it first. *)
AddProducer(t) ==
  /\ pc[t] = "scan" /\ ptr[t] = nullptr /\ Len(made) < MaxProducers
  /\ made' = Append(made, t \in Explicit) /\ prod' = [prod EXCEPT ![t] = Len(made) + 1]
  /\ count' = count + 1
  /\ pc' = [pc EXCEPT ![t] = "link"] /\ ptr' = [ptr EXCEPT ![t] = ListTail]
  /\ UNCHANGED <<chain, size, inactive, offset, drops, call, tok, full, sent>>
(* Out of memory: the token is invalid, the enqueue without one fails. *)
CreateFails(t) ==
  /\ pc[t] = "scan" /\ ptr[t] = nullptr
  /\ pc' = [pc EXCEPT ![t] = "none"]
  /\ UNCHANGED <<chain, made, count, size, inactive, offset, ptr, prod, drops, call, tok, full, sent>>
(* The CAS on producerListTail, tried again from the tail it found. *)
Link(t) ==
  /\ pc[t] = "link"
  /\ IF ptr[t] = ListTail
     THEN /\ chain' = <<prod[t]>> \o chain
          /\ pc' = [pc EXCEPT ![t] = "own"] /\ ptr' = [ptr EXCEPT ![t] = nullptr]
     ELSE ptr' = [ptr EXCEPT ![t] = ListTail] /\ UNCHANGED <<chain, pc>>
  /\ UNCHANGED <<made, count, size, inactive, offset, prod, drops, call, tok, full, sent>>

Enqueue(t, n) ==
  /\ pc[t] = "own" /\ sent + n <= MaxItems
  /\ size' = [size EXCEPT ![prod[t]] = @ + n] /\ sent' = sent + n
  /\ UNCHANGED <<chain, made, count, inactive, offset, prodVars, call, tok, full>>

(* ~ProducerToken, or implicit_producer_thread_exited for a thread without. *)
DropProducer(t) ==
  /\ pc[t] = "own" /\ drops < MaxDrops
  /\ inactive' = inactive \cup {prod[t]} /\ drops' = drops + 1
  /\ pc' = [pc EXCEPT ![t] = "none"] /\ prod' = [prod EXCEPT ![t] = nullptr]
  /\ UNCHANGED <<chain, made, count, size, offset, ptr, call, tok, full, sent>>

-----------------------------------------------------------------------------
(* The consumers. A dequeue of n from p takes what is there; full loses a   *)
(* producer that runs empty. *)
Taken(c, p) == Min({call[c].max - call[c].got, size[p]})
TakeFrom(c, p) ==
  /\ size' = [size EXCEPT ![p] = @ - Taken(c, p)]
  /\ full' = [d \in Consumers |-> IF size'[p] = 0 THEN full[d] \ {p} ELSE full[d]]
(* The call returns with the elements it has got. *)
Done(c, got) == [NoCall EXCEPT !.got = got, !.max = call[c].max]
Unchanged == UNCHANGED <<chain, made, count, inactive, prodVars, sent>>

Start(c, method, max) ==
  /\ call[c].pc = "idle" /\ method \in Calls[c]
  /\ call' = [call EXCEPT ![c] = [NoCall EXCEPT !.pc = method, !.method = method, !.max = max]]
  /\ full' = [full EXCEPT ![c] = {p \in Range(chain) : size[p] > 0}]
  /\ UNCHANGED <<size, offset, tok>> /\ Unchanged

(* try_dequeue: score up to three non-empty producers by size_approx ... *)
Scan(c) ==
  /\ call[c].pc = "scored"
  /\ call' = [call EXCEPT ![c].pc = "score", ![c].ptr = ListTail]
  /\ UNCHANGED <<size, offset, tok, full>> /\ Unchanged
Scoring(c) == call[c].nonEmpty < 3 /\ call[c].ptr # nullptr
Score(c) ==
  /\ call[c].pc = "score" /\ Scoring(c)
  /\ LET p == call[c].ptr IN
     call' = [call EXCEPT ![c].ptr = next_prod(p),
                          ![c].nonEmpty = @ + (IF size[p] > 0 THEN 1 ELSE 0),
                          ![c].best = IF size[p] > call[c].bestSize THEN p ELSE @,
                          ![c].bestSize = Max({@, size[p]})]
  /\ UNCHANGED <<size, offset, tok, full>> /\ Unchanged
(* ... take from the best, and from all the others if it has run empty. *)
Best(c) ==
  /\ call[c].pc = "score" /\ ~Scoring(c)
  /\ IF call[c].nonEmpty = 0
     THEN call' = [call EXCEPT ![c] = Done(c, 0)] /\ UNCHANGED <<size, full>>
     ELSE /\ TakeFrom(c, call[c].best)
          /\ call' = [call EXCEPT ![c] = IF Taken(c, call[c].best) = 1 THEN Done(c, 1)
                                         ELSE [@ EXCEPT !.pc = "inOrder"]]
  /\ UNCHANGED <<offset, tok>> /\ Unchanged

(* try_dequeue_non_interleaved, try_dequeue_bulk and the end of try_dequeue: *)
(* every producer from the tail on, but the best, until there is enough. *)
InOrder(c) ==
  /\ call[c].pc = "inOrder"
  /\ call' = [call EXCEPT ![c].pc = "walk", ![c].ptr = ListTail]
  /\ UNCHANGED <<size, offset, tok, full>> /\ Unchanged
Walk(c) ==
  LET p == call[c].ptr IN
  /\ call[c].pc = "walk" /\ p # nullptr
  /\ IF p = call[c].best
     THEN call' = [call EXCEPT ![c].ptr = next_prod(p)] /\ UNCHANGED <<size, full>>
     ELSE /\ TakeFrom(c, p)
          /\ LET got == call[c].got + Taken(c, p) IN
             call' = [call EXCEPT ![c] = IF got = call[c].max THEN Done(c, got)
                                         ELSE [@ EXCEPT !.got = got, !.ptr = next_prod(p)]]
  /\ UNCHANGED <<offset, tok>> /\ Unchanged
WalkEnd(c) ==
  /\ call[c].pc = "walk" /\ call[c].ptr = nullptr
  /\ call' = [call EXCEPT ![c] = Done(c, call[c].got)]
  /\ UNCHANGED <<size, offset, tok, full>> /\ Unchanged

(* try_dequeue and try_dequeue_bulk with a token. After a rotation, or the   *)
(* first time, the token moves to its place: update_current_producer_...     *)
NeedsUpdate(c) == tok[c].desired = nullptr \/ tok[c].lastKnown # offset
LoadTail(c) ==
  /\ call[c].pc = "token"
  /\ IF ~NeedsUpdate(c) THEN call' = [call EXCEPT ![c].pc = "current"]
     ELSE IF tok[c].desired = nullptr /\ ListTail = nullptr THEN call' = [call EXCEPT ![c] = Done(c, 0)]
     ELSE call' = [call EXCEPT ![c].pc = "update", ![c].tail = ListTail]
  /\ UNCHANGED <<size, offset, tok, full>> /\ Unchanged

(* n steps along the list from p, from its end on to the tail. *)
Along(p, tail, n) ==
  LET at[i \in 0 .. n] == IF i = 0 THEN p
                          ELSE LET q == next_prod(at[i - 1]) IN IF q = nullptr THEN tail ELSE q
  IN  at[n]
Update(c) ==
  /\ call[c].pc = "update"
  /\ LET first == IF tok[c].desired # nullptr THEN tok[c].desired
                  ELSE Along(call[c].tail, call[c].tail, count - 1 - (tok[c].initial % count))
         delta == (offset - tok[c].lastKnown) % Width
         at == Along(first, call[c].tail, delta % count)
     IN  tok' = [tok EXCEPT ![c].desired = at, ![c].current = at, ![c].items = 0, ![c].lastKnown = offset]
  /\ call' = [call EXCEPT ![c].pc = "current"]
  /\ UNCHANGED <<size, offset, full>> /\ Unchanged

(* Take from the current producer, rotate everyone when the quota is met: a *)
(* single dequeue tests for ==, a bulk one for >= and only if it got it all. *)
MeetsQuota(c, items) == IF call[c].max = 1 THEN items = Quota ELSE items >= Quota
Current(c) ==
  LET p == tok[c].current
      n == Taken(c, p) IN
  /\ call[c].pc = "current"
  /\ TakeFrom(c, p) /\ tok' = [tok EXCEPT ![c].items = @ + n]
  /\ IF n = call[c].max
     THEN /\ call' = [call EXCEPT ![c] = Done(c, n)]
          /\ offset' = IF MeetsQuota(c, tok[c].items + n) THEN (offset + 1) % Width ELSE offset
     ELSE call' = [call EXCEPT ![c].pc = "reload", ![c].got = n] /\ UNCHANGED offset
  /\ Unchanged
(* The others, from the current one on round to it again. *)
Round(p, tail) == IF next_prod(p) = nullptr THEN tail ELSE next_prod(p)
Reload(c) ==
  /\ call[c].pc = "reload"
  /\ call' = [call EXCEPT ![c].pc = "around", ![c].tail = ListTail, ![c].ptr = Round(tok[c].current, ListTail)]
  /\ UNCHANGED <<size, offset, tok, full>> /\ Unchanged
Around(c) ==
  LET p == call[c].ptr
      n == Taken(c, p) IN
  /\ call[c].pc = "around" /\ p # tok[c].current /\ p # nullptr
  /\ TakeFrom(c, p)
  /\ tok' = [tok EXCEPT ![c].current = IF n # 0 THEN p ELSE @, ![c].items = IF n # 0 THEN n ELSE @]
  /\ call' = [call EXCEPT ![c] = IF call[c].got + n = call[c].max THEN Done(c, call[c].max)
                                 ELSE [@ EXCEPT !.got = @ + n, !.ptr = Round(p, call[c].tail)]]
  /\ UNCHANGED offset /\ Unchanged
AroundEnd(c) ==
  /\ call[c].pc = "around" /\ call[c].ptr = tok[c].current
  /\ call' = [call EXCEPT ![c] = Done(c, call[c].got)]
  /\ UNCHANGED <<size, offset, tok, full>> /\ Unchanged

(* try_dequeue_from_producer and its bulk form, with another's token. *)
FromProducer(c, t, max) ==
  LET n == Min({max, size[prod[t]]}) IN
  /\ call[c].pc = "idle" /\ "from" \in Calls[c] /\ t \in Explicit /\ pc[t] = "own"
  /\ size' = [size EXCEPT ![prod[t]] = @ - n]
  /\ full' = [d \in Consumers |-> IF d = c THEN {} ELSE IF n = size[prod[t]] THEN full[d] \ {prod[t]} ELSE full[d]]
  /\ call' = [call EXCEPT ![c] = [NoCall EXCEPT !.got = n, !.max = max]]
  /\ UNCHANGED <<offset, tok>> /\ Unchanged

Produce(t) == MakeProducer(t) \/ Recycle(t) \/ AddProducer(t) \/ CreateFails(t) \/ Link(t)
Consume(c) ==
  \/ Scan(c) \/ Score(c) \/ Best(c) \/ InOrder(c) \/ Walk(c) \/ WalkEnd(c)
  \/ LoadTail(c) \/ Update(c) \/ Current(c) \/ Reload(c) \/ Around(c) \/ AroundEnd(c)
Starts(c) == \E m \in Methods, max \in 1 .. MaxBulk : (m = "scored" => max = 1) /\ Start(c, m, max)

Next ==
  \/ \E t \in Threads : Produce(t) \/ DropProducer(t) \/ \E n \in 1 .. MaxBulk : Enqueue(t, n)
  \/ \E c \in Consumers : Starts(c) \/ Consume(c) \/ \E t \in Threads, n \in 1 .. MaxBulk : FromProducer(c, t, n)

Spec == Init /\ [][Next]_vars
(* A consumer in a call runs on, and a consumer keeps calling. *)
FairSpec == Spec /\ \A c \in Consumers : WF_vars(Consume(c)) /\ WF_vars(Starts(c))

-----------------------------------------------------------------------------
(* A call that returns with less than it was asked for has met every producer *)
(* of the list empty: none that was in the list when it began held elements   *)
(* all the while ("Returns false if all producer streams appeared empty at    *)
(* the time they were checked"). *)
ShortMeansSeenEmpty ==
  \A c \in Consumers : call[c].pc = "idle" /\ call[c].got < call[c].max => full[c] = {}

(* Two threads never enqueue into the same producer, and a producer free for *)
(* recycling belongs to none: the CAS on inactive hands it to one of them. *)
OneOwner ==
  \A t \in Threads : pc[t] = "own" =>
    prod[t] \notin inactive /\ \A u \in Threads \ {t} : pc[u] = "own" => prod[u] # prod[t]

(* producerCount counts at least the producers a consumer can reach, so the *)
(* remainders of the rotation are by a number above zero; it exceeds them    *)
(* only by the producers on their way into the list. *)
CountCoversList ==
  /\ Len(chain) <= count
  /\ count = Len(chain) + Cardinality({t \in Threads : pc[t] = "link"})

(* "Every 256 items from one producer, make everyone rotate": a consumer that *)
(* has had its quota from a producer finds the global offset moved. *)
RotatesAtQuota ==
  \A c \in Consumers : call[c].pc = "idle" /\ tok[c].items >= Quota => tok[c].lastKnown # offset

Drained(p) == size[p] = 0

(* Under fair consumers every element is dequeued, whatever producer it is in *)
(* and however the tokens rotate, also those of producers no thread holds. *)
EverythingTaken == \A p \in 1 .. MaxProducers : []<>Drained(p)
=============================================================================
