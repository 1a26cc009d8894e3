----------------------------- MODULE LifoStack -----------------------------
(***************************************************************************)
(* What hazptr_stack promises (parlay/internal/concurrency/hazptr_stack.h):*)
(* concurrent calls take effect one at a time, a pop takes the newest      *)
(* element there is, or finds none, and size is the number of elements.    *)
(***************************************************************************)
EXTENDS Integers, Sequences

CONSTANTS Threads, Values
None == -1 \* an empty optional

VARIABLES stack, \* the elements, newest first
          ret    \* ret[t]: what the last pop or size of t returned

Init == stack = <<>> /\ ret = [t \in Threads |-> None]
Push == stack' # <<>> /\ Tail(stack') = stack /\ Head(stack') \in Values /\ UNCHANGED ret
Pop(t) == stack # <<>> /\ ret' = [ret EXCEPT ![t] = Head(stack)] /\ stack' = Tail(stack)
PopNone(t) == stack = <<>> /\ ret' = [ret EXCEPT ![t] = None] /\ UNCHANGED stack
Size(t) == ret' = [ret EXCEPT ![t] = Len(stack)] /\ UNCHANGED stack
Destroy == stack' = <<>> /\ UNCHANGED ret
Next == Push \/ (\E t \in Threads : Pop(t) \/ PopNone(t) \/ Size(t)) \/ Destroy
vars == <<stack, ret>>

Spec == Init /\ [][Next]_vars
=============================================================================
