---------------------------- MODULE HazptrStack ----------------------------
(***************************************************************************)
(* A lock-free stack whose popped nodes are freed by hazard pointers       *)
(* (parlay/internal/concurrency/hazptr_stack.h and acquire_retire.h).  A   *)
(* thread announces the node it is about to read; a popped node waits in   *)
(* the popper's list of retired nodes, chained through the node's own      *)
(* next, until a scan of the announcements does not meet it.  Addresses    *)
(* are reused as soon as they are free.                                    *)
(***************************************************************************)
EXTENDS Integers, Sequences, SequencesExt, FiniteSets

CONSTANTS Threads,
          Nodes,     \* the addresses of nodes
          Threshold, \* retirements between two scans
          MaxCalls   \* bound: calls of push, pop and size

ThresholdAssumption == Threshold \in Nat \ {0}

null == 0
None == -1

VARIABLES head,    \* head of the stack
          node,    \* node[a]: [live, t, next, length]
          slot,    \* slot[t]: announcement
          retired, \* retired[t]: the nodes of its RetiredList, newest first
          work,    \* amortized_work
          thread,  \* thread[t]: [pc, op, p, h, nx, seen, todo]
          ret,     \* ret[t]: what its last pop or size returned
          stack,   \* history: the elements pushed and not popped, newest first
          calls
vars == <<head, node, slot, retired, work, thread, ret, stack, calls>>

Live(a) == node[a].live
Set(t, pc, r) == [thread EXCEPT ![t] = [r EXCEPT !.pc = pc]]
To(t, pc) == Set(t, pc, thread[t])

(* The nodes of the stack, newest first.  A cycle ends the walk.           *)
Chain ==
  LET walk[i \in 0 .. Cardinality(Nodes) + 1] ==
        IF i = 0 THEN IF head = null THEN <<>> ELSE <<head>>
        ELSE LET c == walk[i - 1] IN
             IF c = <<>> \/ node[Last(c)].next = null THEN c ELSE Append(c, node[Last(c)].next)
  IN  walk[Cardinality(Nodes) + 1]

Dead == [live |-> FALSE, t |-> None, next |-> null, length |-> 0] \* memory given back
Init ==
  /\ head = null
  /\ node = [a \in Nodes |-> Dead]
  /\ slot = [t \in Threads |-> null] /\ retired = [t \in Threads |-> <<>>]
  /\ work = [t \in Threads |-> 0]
  /\ thread = [t \in Threads |-> [pc |-> "idle", op |-> "none", p |-> null, h |-> null, nx |-> null,
                                  seen |-> {}, todo |-> {}]]
  /\ ret = [t \in Threads |-> None] /\ stack = <<>> /\ calls = 0
-----------------------------------------------------------------------------
(* push allocates its node, and all three then acquire the head. *)
Call(t, op) ==
  /\ thread[t].pc = "idle" /\ calls < MaxCalls
  /\ calls' = calls + 1
  /\ IF op = "push"
     THEN \E a \in Nodes :
            /\ ~Live(a)
            /\ node' = [node EXCEPT ![a] = [live |-> TRUE, t |-> calls, next |-> null, length |-> 1]]
            /\ thread' = Set(t, "load", [thread[t] EXCEPT !.op = op, !.p = a])
     ELSE thread' = Set(t, "load", [thread[t] EXCEPT !.op = op]) /\ UNCHANGED node
  /\ UNCHANGED <<head, slot, retired, work, ret, stack>>

(* acquire: load, announce, and look again.  (mutant: without the second look) *)
Load(t) ==
  /\ thread[t].pc = "load"
  /\ thread' = Set(t, "announce", [thread[t] EXCEPT !.h = head])
  /\ UNCHANGED <<head, node, slot, retired, work, ret, stack, calls>>
Announce(t) ==
  /\ thread[t].pc = "announce"
  /\ slot' = [slot EXCEPT ![t] = thread[t].h]
  /\ thread' = To(t, "check")
  /\ UNCHANGED <<head, node, retired, work, ret, stack, calls>>
Acquired(t) == IF thread[t].op = "pop" /\ thread[t].h = null THEN "idle" ELSE thread[t].op
CheckBug(t) ==
  /\ thread[t].pc = "check"
  /\ thread' = To(t, Acquired(t))
  /\ ret' = IF Acquired(t) = "idle" THEN [ret EXCEPT ![t] = None] ELSE ret
  /\ UNCHANGED <<head, node, slot, retired, work, stack, calls>>
Check(t) ==
  /\ thread[t].pc = "check"
  /\ IF head # thread[t].h
     THEN thread' = To(t, "load") /\ UNCHANGED ret
     ELSE /\ thread' = To(t, Acquired(t))
          /\ ret' = IF Acquired(t) = "idle" THEN [ret EXCEPT ![t] = None] ELSE ret
  /\ UNCHANGED <<head, node, slot, retired, work, stack, calls>>

(* push: the node is linked and counted, and put on top, unless the head has *)
(* changed; the exchange may also fail for no reason. *)
PushLink(t) ==
  LET h == thread[t].h IN
  /\ thread[t].pc = "push"
  /\ node' = [node EXCEPT ![thread[t].p].next = h,
                          ![thread[t].p].length = IF h = null THEN 1 ELSE node[h].length + 1]
  /\ thread' = To(t, "pushcas")
  /\ UNCHANGED <<head, slot, retired, work, ret, stack, calls>>
PushCas(t) ==
  /\ thread[t].pc = "pushcas"
  /\ \/ /\ head = node[thread[t].p].next /\ head' = thread[t].p
        /\ stack' = <<node[thread[t].p].t>> \o stack
        /\ thread' = To(t, "release")
     \/ UNCHANGED <<head, stack>> /\ thread' = To(t, "load")
  /\ UNCHANGED <<node, slot, retired, work, ret, calls>>

(* pop: next is read from the announced node before the exchange. *)
PopNext(t) ==
  /\ thread[t].pc = "pop"
  /\ thread' = Set(t, "popcas", [thread[t] EXCEPT !.p = thread[t].h, !.nx = node[thread[t].h].next])
  /\ UNCHANGED <<head, node, slot, retired, work, ret, stack, calls>>
PopCas(t) ==
  /\ thread[t].pc = "popcas"
  /\ \/ /\ head = thread[t].p /\ head' = thread[t].nx /\ stack' = Tail(stack)
        /\ thread' = Set(t, "take", [thread[t] EXCEPT !.h = null, !.nx = null])
     \/ UNCHANGED <<head, stack>> /\ thread' = To(t, "load")
  /\ UNCHANGED <<node, slot, retired, work, ret, calls>>
Take(t) ==
  /\ thread[t].pc = "take"
  /\ ret' = [ret EXCEPT ![t] = node[thread[t].p].t]
  /\ thread' = To(t, "retire")
  /\ UNCHANGED <<head, node, slot, retired, work, stack, calls>>

ReadSize(t) ==
  /\ thread[t].pc = "size"
  /\ ret' = [ret EXCEPT ![t] = IF thread[t].h = null THEN 0 ELSE node[thread[t].h].length]
  /\ thread' = To(t, "release")
  /\ UNCHANGED <<head, node, slot, retired, work, stack, calls>>

(* retire, and a scan of the announcements every Threshold retirements. *)
Retire(t) ==
  LET p == thread[t].p
      due == work[t] + 1 >= Threshold IN
  /\ thread[t].pc = "retire"
  /\ node' = [node EXCEPT ![p].next = IF retired[t] = <<>> THEN null ELSE Head(retired[t])]
  /\ retired' = [retired EXCEPT ![t] = <<p>> \o @]
  /\ work' = [work EXCEPT ![t] = IF due THEN 0 ELSE @ + 1]
  /\ thread' = IF due THEN Set(t, "scan", [thread[t] EXCEPT !.seen = {}, !.todo = Threads])
               ELSE To(t, "release")
  /\ UNCHANGED <<head, slot, ret, stack, calls>>
Scan(t) ==
  /\ thread[t].pc = "scan"
  /\ \E u \in thread[t].todo :
       thread' = Set(t, IF thread[t].todo = {u} THEN "cleanup" ELSE "scan",
                     [thread[t] EXCEPT !.todo = @ \ {u}, !.seen = @ \cup ({slot[u]} \ {null})])
  /\ UNCHANGED <<head, node, slot, retired, work, ret, stack, calls>>
(* cleanup destroys the nodes nobody announced and links the others. *)
Destroyed(s, seen) ==
  [a \in Nodes |->
     LET i == SelectInSeq(s, LAMBDA b : b = a)
         kept == SelectSeq(SubSeq(s, i + 1, Len(s)), LAMBDA b : b \in seen)
     IN  IF i = 0 THEN node[a]
         ELSE IF a \notin seen THEN Dead
         ELSE [node[a] EXCEPT !.next = IF kept = <<>> THEN null ELSE Head(kept)]]
Finish(t) ==
  thread' = Set(t, "release", [thread[t] EXCEPT !.seen = {}, !.todo = {}])
Cleanup(t) ==
  /\ thread[t].pc = "cleanup"
  /\ retired' = [retired EXCEPT ![t] = SelectSeq(@, LAMBDA a : a \in thread[t].seen)]
  /\ node' = Destroyed(retired[t], thread[t].seen)
  /\ Finish(t)
  /\ UNCHANGED <<head, slot, work, ret, stack, calls>>

Release(t) ==
  /\ thread[t].pc = "release"
  /\ slot' = [slot EXCEPT ![t] = null]
  /\ thread' = Set(t, "idle", [thread[t] EXCEPT !.p = null, !.h = null, !.nx = null])
  /\ UNCHANGED <<head, node, retired, work, ret, stack, calls>>

(* The destructors, of the stack and then of the hazard pointers. *)
Destroy ==
  /\ calls = MaxCalls /\ \A t \in Threads : thread[t].pc = "idle"
  /\ node' = [a \in Nodes |->
                IF a \in Range(Chain) \cup UNION {Range(retired[t]) : t \in Threads}
                THEN Dead ELSE node[a]]
  /\ head' = null /\ retired' = [t \in Threads |-> <<>>] /\ stack' = <<>>
  /\ UNCHANGED <<slot, work, thread, ret, calls>>

Step(t) ==
  \/ \E op \in {"push", "pop", "size"} : Call(t, op)
  \/ Load(t) \/ Announce(t) \/ Check(t) \/ PushLink(t) \/ PushCas(t) \/ PopNext(t) \/ PopCas(t)
  \/ Take(t) \/ ReadSize(t) \/ Retire(t) \/ Scan(t) \/ Cleanup(t) \/ Release(t)
Next == (\E t \in Threads : Step(t)) \/ Destroy
Spec == Init /\ [][Next]_vars
-----------------------------------------------------------------------------
TypeOK ==
  /\ head \in Nodes \cup {null} /\ slot \in [Threads -> Nodes \cup {null}]
  /\ work \in [Threads -> 0 .. Threshold - 1]
  /\ \A t \in Threads : thread[t].p \in Nodes \cup {null}

(* No thread reads a node that has been destroyed: neither the head it has  *)
(* announced nor the node it has popped. *)
NoUseAfterFree ==
  \A t \in Threads :
    /\ thread[t].pc \in {"push", "pop", "size"} => thread[t].h = null \/ Live(thread[t].h)
    /\ thread[t].pc \in {"pushcas", "take", "retire"} => Live(thread[t].p)

(* Every node that is not destroyed is in one place: the stack, the hands of *)
(* one thread, or one list of retired nodes. *)
NodesAccounted ==
  LET Pushing(t) == thread[t].op = "push" /\ thread[t].pc \notin {"idle", "release"}
      Popped(t) == thread[t].pc \in {"take", "retire"}
      chain == Chain
      Places(a) == Cardinality({i \in DOMAIN chain : chain[i] = a})
                   + Cardinality({t \in Threads : thread[t].p = a /\ (Pushing(t) \/ Popped(t))})
                   + Cardinality({t \in Threads : a \in Range(retired[t])})
  IN  \A a \in Nodes : Places(a) = IF Live(a) THEN 1 ELSE 0

(* The retired list is what is chained through next, although the nodes in  *)
(* it may still be read by others. *)
RetiredChained ==
  \A t \in Threads : \A i \in 1 .. Len(retired[t]) :
    node[retired[t][i]].next = IF i = Len(retired[t]) THEN null ELSE retired[t][i + 1]

(* The elements pushed and not popped are those the nodes hold, in order,   *)
(* and each node knows how many there are from it on: no exchange succeeds  *)
(* on a next or a length that was read too early. *)
StackIsChain ==
  LET c == Chain IN
  /\ stack = [i \in DOMAIN c |-> node[c[i]].t]
  /\ \A i \in DOMAIN c : node[c[i]].length = Len(c) - i + 1

(* The stack is a LIFO stack: push and pop take effect at their exchange, a *)
(* pop that finds nothing and size at the second look of acquire. *)
Lifo == INSTANCE LifoStack WITH
  Values <- 0 .. MaxCalls - 1,
  ret <- [t \in Threads |->
            CASE thread[t].pc = "take" -> node[thread[t].p].t
              [] thread[t].pc = "size" -> (IF thread[t].h = null THEN 0 ELSE node[thread[t].h].length)
              [] OTHER -> ret[t]]
ImplementsStack == Lifo!Spec
=============================================================================
