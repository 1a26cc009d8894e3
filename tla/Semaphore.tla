------------------------------ MODULE Semaphore ------------------------------
(***************************************************************************)
(* What lib/moodycamel/lightweightsemaphore.h promises: signals are        *)
(* counted, and a wait takes what has been signalled and not yet taken.    *)
(* LightweightSemaphore.tla implements this module; BlockingQueue.tla      *)
(* builds on it.                                                           *)
(***************************************************************************)
EXTENDS Naturals

CONSTANT Amounts     \* how many permits one call may signal or take

VARIABLE permits     \* signalled and not yet taken

Init == permits = 0

Signal(n) == permits' = permits + n

Take(n) == n <= permits /\ permits' = permits - n

Next == \E n \in Amounts : Signal(n) \/ Take(n)

vars == permits

Spec == Init /\ [][Next]_vars
=============================================================================
