---------------------------- MODULE BlockingQueue ----------------------------
(***************************************************************************)
(* BlockingConcurrentQueue of lib/moodycamel/blockingconcurrentqueue.h: a  *)
(* ConcurrentQueue and a semaphore that counts its elements. The queue is  *)
(* one FIFO per producer (ConcurrentQueue.tla), the semaphore that of      *)
(* Semaphore.tla. Bulk calls with a count of one are the single ones.      *)
(***************************************************************************)
EXTENDS Integers, Sequences, FiniteSets, FiniteSetsExt

CONSTANTS Producers, Consumers,
          NumItems,    \* elements each producer enqueues
          Bulk,        \* the largest count or max of a call
          Mode         \* Mode[c]: "try", "wait" or "timed" dequeues

VARIABLES inner,       \* inner[p]: the elements of p in the queue
          permits,     \* the semaphore
          sent,        \* sent[p]: elements p has tried to enqueue
          unsignalled, \* unsignalled[p]: enqueued, signal not called yet
          claim,       \* claim[c]: permits c holds for elements still to come
          taken        \* taken[c]: what c's calls have returned

vars == <<inner, permits, sent, unsignalled, claim, taken>>

Sema == INSTANCE Semaphore WITH Amounts <- 1..Bulk
Items == [by : Producers, no : 1..NumItems]
Smaller(a, b) == IF a < b THEN a ELSE b

TypeOK ==
  /\ inner \in [Producers -> Seq(Items)] /\ permits \in Nat
  /\ sent \in [Producers -> 0..NumItems] /\ unsignalled \in [Producers -> 0..Bulk]
  /\ claim \in [Consumers -> 0..Bulk] /\ taken \in [Consumers -> Seq(Items)]

Init ==
  /\ inner = [p \in Producers |-> <<>>] /\ Sema!Init
  /\ sent = [p \in Producers |-> 0] /\ unsignalled = [p \in Producers |-> 0]
  /\ claim = [c \in Consumers |-> 0] /\ taken = [c \in Consumers |-> <<>>]

(* enqueue, enqueue_bulk and their try_ forms: the elements first. They may *)
(* fail for want of memory, and then nothing is signalled. *)
Enqueue(p, n) ==
  /\ unsignalled[p] = 0 /\ sent[p] + n <= NumItems
  /\ sent' = [sent EXCEPT ![p] = @ + n]
  /\ \/ /\ inner' = [inner EXCEPT ![p] = @ \o [i \in 1..n |-> [by |-> p, no |-> sent[p] + i]]]
        /\ unsignalled' = [unsignalled EXCEPT ![p] = n]
     \/ UNCHANGED <<inner, unsignalled>>
  /\ UNCHANGED <<permits, claim, taken>>

(* ... then the semaphore. *)
SignalBug(p) ==
  /\ unsignalled[p] > 0
  /\ Sema!Signal(1)
  /\ unsignalled' = [unsignalled EXCEPT ![p] = 0]
  /\ UNCHANGED <<inner, sent, claim, taken>>
Signal(p) ==
  /\ unsignalled[p] > 0
  /\ Sema!Signal(unsignalled[p])
  /\ unsignalled' = [unsignalled EXCEPT ![p] = 0]
  /\ UNCHANGED <<inner, sent, claim, taken>>

(* tryWait(Many), wait(Many): up to max permits. A try that finds none and  *)
(* a timed wait whose time is up return without an element, which changes   *)
(* nothing. *)
Wait(c, max) ==
  /\ claim[c] = 0 /\ permits > 0
  /\ Sema!Take(Smaller(permits, max))
  /\ claim' = [claim EXCEPT ![c] = Smaller(permits, max)]
  /\ UNCHANGED <<inner, sent, unsignalled, taken>>

ReturnEmpty(c) ==
  /\ claim[c] = 0
  /\ Mode[c] = "timed" \/ (Mode[c] = "try" /\ permits = 0)
  /\ UNCHANGED vars

(* The loop around inner.try_dequeue(_bulk): one element of some producer;  *)
(* the loop goes round again until the claim is served. *)
Dequeue(c, p) ==
  /\ claim[c] > 0 /\ inner[p] # <<>>
  /\ inner' = [inner EXCEPT ![p] = Tail(@)]
  /\ taken' = [taken EXCEPT ![c] = Append(@, Head(inner[p]))]
  /\ claim' = [claim EXCEPT ![c] = @ - 1]
  /\ UNCHANGED <<permits, sent, unsignalled>>

ConsumerStep(c) == \/ \E max \in 1..Bulk : Wait(c, max)
                   \/ \E p \in Producers : Dequeue(c, p)
Next == \/ \E p \in Producers : (\E n \in 1..Bulk : Enqueue(p, n)) \/ Signal(p)
        \/ \E c \in Consumers : ConsumerStep(c) \/ ReturnEmpty(c)

Spec == Init /\ [][Next]_vars

(* Producers finish the calls they have begun; consumers keep calling, with *)
(* strong fairness for those that compete for a semaphore. *)
FairSpec == /\ Spec
            /\ \A p \in Producers : WF_vars(Signal(p))
            /\ \A c \in Consumers : SF_vars(ConsumerStep(c))
-----------------------------------------------------------------------------
Total(f, S) == MapThenSumSet(LAMBDA x : f[x], S)

(* A permit stands for an element: permits free or held are exactly the     *)
(* elements that have been signalled, so the loop around try_dequeue, which *)
(* has no way out, always finds one in the end. *)
PermitsBacked ==
  permits + Total(claim, Consumers) + Total(unsignalled, Producers)
    = MapThenSumSet(LAMBDA p : Len(inner[p]), Producers)

(* A consumer sees the elements of one producer in the order they went in,  *)
(* and no element goes to two consumers. *)
TakenInOrder ==
  \A c, d \in Consumers : \A i \in DOMAIN taken[c], j \in DOMAIN taken[d] :
    /\ taken[c][i] = taken[d][j] => c = d /\ i = j
    /\ c = d /\ i < j /\ taken[c][i].by = taken[c][j].by => taken[c][i].no < taken[c][j].no

Drained(p) == inner[p] = <<>>

(* Every element enqueued is eventually returned by some call. *)
EverythingTaken == \A p \in Producers : []<>Drained(p)
=============================================================================
