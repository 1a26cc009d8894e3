------------------------- MODULE LightweightSemaphore -------------------------
(***************************************************************************)
(* LightweightSemaphore of lib/moodycamel/lightweightsemaphore.h: an       *)
(* atomic count in front of a kernel semaphore. A count below zero is the  *)
(* number of threads that are, or may be, waiting in the kernel.           *)
(*                                                                         *)
(* Each waiter makes one call: wait(), wait(timeout), waitMany or          *)
(* tryWaitMany. A load and the successful CAS behind it are one step. The  *)
(* kernel semaphore is external.                                           *)
(***************************************************************************)
EXTENDS Integers, FiniteSets, FiniteSetTheorems, TLAPS

CONSTANTS Waiters, Signalers,
          Want,       \* Want[t]: max of waitMany, 1 for wait
          Timed,      \* the waiters that pass a timeout
          Give        \* Give[s]: the count signaler s passes to signal

SemaphoreAssumption ==
  /\ IsFiniteSet(Waiters) /\ IsFiniteSet(Signalers) /\ Waiters \cap Signalers = {}
  /\ Timed \subseteq Waiters /\ Want \in [Waiters -> Nat \ {0}]
  /\ Give \in [Signalers -> Nat \ {0}]

VARIABLES m_count, m_sema,  \* the members
          pc, got,          \* got[t]: permits t's call has taken
          owed              \* owed[s]: what s has still to post to the kernel

vars == <<m_count, m_sema, pc, got, owed>>

TypeOK ==
  /\ m_count \in Int /\ m_sema \in Nat
  /\ pc \in [Waiters \cup Signalers ->
       {"spin", "sub", "block", "adjust", "try", "more", "signal", "post", "done"}]
  /\ got \in [Waiters -> Nat] /\ \A t \in Waiters : got[t] <= Want[t]
  /\ owed \in [Signalers -> Nat]

Init ==
  /\ m_count = 0 /\ m_sema = 0
  /\ pc = [t \in Waiters \cup Signalers |-> IF t \in Waiters THEN "spin" ELSE "signal"]
  /\ got = [t \in Waiters |-> 0] /\ owed = [s \in Signalers |-> 0]

Go(t, from, to) == pc[t] = from /\ pc' = [pc EXCEPT ![t] = to]
Least(a, b) == IF a < b THEN a ELSE b

(* tryWaitMany, and the spinning: take up to n of a positive count. *)
Grab(t, n) ==
  /\ m_count > 0
  /\ m_count' = m_count - Least(m_count, n)
  /\ got' = [got EXCEPT ![t] = @ + Least(m_count, n)]

Spin(t) ==
  \/ Go(t, "spin", "done") /\ Grab(t, Want[t]) /\ UNCHANGED <<m_sema, owed>>
  \/ Go(t, "spin", "sub") /\ UNCHANGED <<m_count, m_sema, got, owed>>

(* Spinning did not help: announce a waiter by taking one regardless. *)
Sub(t) ==
  /\ Go(t, "sub", IF m_count > 0 THEN "more" ELSE "block")
  /\ m_count' = m_count - 1
  /\ got' = [got EXCEPT ![t] = IF m_count > 0 THEN 1 ELSE 0]
  /\ UNCHANGED <<m_sema, owed>>

Block(t) ==
  /\ Go(t, "block", "more")
  /\ m_sema > 0
  /\ m_sema' = m_sema - 1
  /\ got' = [got EXCEPT ![t] = 1]
  /\ UNCHANGED <<m_count, owed>>

Timeout(t) ==
  /\ t \in Timed
  /\ Go(t, "block", "adjust")
  /\ UNCHANGED <<m_count, m_sema, got, owed>>

(* After the timeout: undo the announcement while the count is negative,    *)
(* else somebody has signalled for this waiter and the post must be taken. *)
AdjustBug(t) ==
  /\ Go(t, "adjust", "done")
  /\ m_count' = m_count + 1
  /\ UNCHANGED <<m_sema, got, owed>>
Adjust(t) ==
  /\ Go(t, "adjust", IF m_count < 0 THEN "done" ELSE "try")
  /\ m_count' = IF m_count < 0 THEN m_count + 1 ELSE m_count
  /\ UNCHANGED <<m_sema, got, owed>>

Try(t) ==
  /\ Go(t, "try", IF m_sema > 0 THEN "more" ELSE "adjust")
  /\ m_sema' = IF m_sema > 0 THEN m_sema - 1 ELSE m_sema
  /\ got' = [got EXCEPT ![t] = IF m_sema > 0 THEN 1 ELSE 0]
  /\ UNCHANGED <<m_count, owed>>

(* waitMany takes what else is there, up to max. *)
More(t) ==
  /\ Go(t, "more", "done")
  /\ \/ got[t] < Want[t] /\ Grab(t, Want[t] - got[t])
     \/ (got[t] = Want[t] \/ m_count <= 0) /\ UNCHANGED <<m_count, got>>
  /\ UNCHANGED <<m_sema, owed>>

(* signal adds to the count and posts once for each waiter it finds. *)
ToRelease(old, n) == IF old < 0 THEN Least(-old, n) ELSE 0

Signal(s) ==
  /\ Go(s, "signal", "post")
  /\ m_count' = m_count + Give[s]
  /\ owed' = [owed EXCEPT ![s] = ToRelease(m_count, Give[s])]
  /\ UNCHANGED <<m_sema, got>>

PostBug(s) ==
  /\ Go(s, "post", "done") /\ owed' = [owed EXCEPT ![s] = 0]
  /\ m_sema' = m_sema + Give[s]
  /\ UNCHANGED <<m_count, got>>
Post(s) ==
  /\ Go(s, "post", IF owed[s] <= 1 THEN "done" ELSE "post")
  /\ m_sema' = m_sema + Least(owed[s], 1)
  /\ owed' = [owed EXCEPT ![s] = IF @ = 0 THEN 0 ELSE @ - 1]
  /\ UNCHANGED <<m_count, got>>

WaiterStep(t) == Spin(t) \/ Sub(t) \/ Block(t) \/ Adjust(t) \/ Try(t) \/ More(t)
SignalerStep(s) == Signal(s) \/ Post(s)
Next == (\E t \in Waiters : WaiterStep(t) \/ Timeout(t)) \/ \E s \in Signalers : SignalerStep(s)

Spec == Init /\ [][Next]_vars

(* Threads keep running, the kernel semaphore lets a waiter through once it *)
(* is positive; a timeout need not come. *)
FairSpec == /\ Spec
            /\ \A t \in Waiters : SF_vars(WaiterStep(t))
            /\ \A s \in Signalers : WF_vars(SignalerStep(s))
-----------------------------------------------------------------------------
Blocked == {t \in Waiters : pc[t] \in {"block", "adjust", "try"}}
Announced == Cardinality(Blocked)
\* The posts still to be made, numbered for each signaler.
Outstanding == UNION {{s} \X (1..owed[s]) : s \in Signalers}
Owed == Cardinality(Outstanding)

(* Every announced waiter is accounted for once: it is still part of the    *)
(* negative count, or a post for it is in the kernel or on its way there.   *)
(* Were it less, a waiter would sleep through its signal; were it more, a   *)
(* later waiter would get through without one. *)
WaitersAccounted ==
  Announced = (IF m_count < 0 THEN -m_count ELSE 0) + m_sema + Owed

(* Signals are neither lost nor made up, whatever timeouts do: the calls    *)
(* together behave as an atomic counting semaphore. *)
Abstract == INSTANCE Semaphore WITH
              permits <- m_count + Announced,
              Amounts <- (UNION {1..Want[t] : t \in Waiters}) \cup {Give[s] : s \in Signalers}
ImplementsSemaphore == Abstract!Spec

Served == \A t \in Waiters : pc[t] = "done" \/ m_count + Announced <= 0

(* No waiter starves while permits are left over: when everybody is done or *)
(* stuck in the kernel, the stuck ones are there for want of signals. *)
WaitersServed == []<>Served
-----------------------------------------------------------------------------
(* Proofs, for any finite sets of waiters and signalers, whichever of the   *)
(* waiters time out. The invariant is the account of the announced waiters: *)
(* each is part of the negative count, or a post for it is in the kernel or *)
(* on its way. A waiter that leaves, through the kernel or after a timeout, *)
(* takes its own share with it; that is what partialWaitWithTimeout's undo  *)
(* depends on (lightweightsemaphore.h:309-326).                             *)
Asleep == {"block", "adjust", "try"}
Finished == {"more", "done"}
Moved == {"sub", "block", "adjust", "try"} \cup Finished

\* Where the threads can be, and what they have taken or owe there.
Stages ==
  /\ \A t \in Waiters :
       /\ pc[t] \in {"spin", "sub", "more", "done"} \cup Asleep
       /\ pc[t] \notin {"more", "done"} => got[t] = 0
  /\ \A s \in Signalers :
       /\ pc[s] \in {"signal", "post", "done"}
       /\ pc[s] = "signal" => owed[s] = 0

IInv == TypeOK /\ Stages /\ IsFiniteSet(Outstanding) /\ WaitersAccounted
-----------------------------------------------------------------------------
LEMMA Counts ==
  ASSUME SemaphoreAssumption, IsFiniteSet(Outstanding)
  PROVE  IsFiniteSet(Blocked) /\ Announced \in Nat /\ Owed \in Nat
<1>1. IsFiniteSet(Blocked)
  BY FS_Subset DEF SemaphoreAssumption, Blocked
<1> QED BY <1>1, FS_CardinalityType DEF Announced, Owed

\* How the number of announced waiters follows the thread that moves.
LEMMA AnnouncedStep ==
  ASSUME SemaphoreAssumption, TypeOK, IsFiniteSet(Outstanding),
         NEW t \in Waiters \cup Signalers, NEW p, pc' = [pc EXCEPT ![t] = p]
  PROVE  /\ t \in Blocked /\ p \notin Asleep => Announced' = Announced - 1
         /\ t \in Waiters /\ t \notin Blocked /\ p \in Asleep => Announced' = Announced + 1
         /\ (t \in Blocked <=> t \in Waiters /\ p \in Asleep) => Announced' = Announced
<1>1. IsFiniteSet(Blocked) BY Counts
<1>2. pc'[t] = p /\ \A u \in Waiters : u # t => pc'[u] = pc[u]
  BY DEF TypeOK
<1>3. ASSUME t \in Blocked, p \notin Asleep PROVE Announced' = Announced - 1
  <2>1. Blocked' = Blocked \ {t} BY <1>2, <1>3 DEF Blocked, Asleep
  <2> QED BY <1>1, <1>3, <2>1, FS_RemoveElement DEF Announced
<1>4. ASSUME t \in Waiters, t \notin Blocked, p \in Asleep PROVE Announced' = Announced + 1
  <2>1. Blocked' = Blocked \cup {t} BY <1>2, <1>4 DEF Blocked, Asleep
  <2> QED BY <1>1, <1>4, <2>1, FS_AddElement DEF Announced
<1>5. ASSUME t \in Blocked <=> t \in Waiters /\ p \in Asleep PROVE Announced' = Announced
  <2>1. Blocked' = Blocked BY <1>2, <1>5 DEF Blocked, Asleep
  <2> QED BY <2>1 DEF Announced
<1> QED BY <1>3, <1>4, <1>5

\* What a signaler adds to the posts to be made ...
LEMMA OwedMore ==
  ASSUME SemaphoreAssumption, TypeOK, IsFiniteSet(Outstanding),
         NEW s \in Signalers, owed[s] = 0, NEW k \in Nat, owed' = [owed EXCEPT ![s] = k]
  PROVE  IsFiniteSet(Outstanding)' /\ Owed' = Owed + k
<1> DEFINE new == {s} \X (1..k)
<1>1. IsFiniteSet(new) /\ Cardinality(new) = k
  <2>1. IsFiniteSet({s}) /\ Cardinality({s}) = 1 BY FS_Singleton
  <2>2. IsFiniteSet(1..k) /\ Cardinality(1..k) = k BY FS_Interval
  <2>3. IsFiniteSet(new) /\ Cardinality(new) = Cardinality({s}) * Cardinality(1..k)
    BY <2>1, <2>2, FS_Product
  <2> QED BY <2>1, <2>2, <2>3
<1>2. owed'[s] = k /\ \A u \in Signalers : u # s => owed'[u] = owed[u]
  BY DEF TypeOK
<1>3. Outstanding' = Outstanding \cup new
  BY <1>2 DEF Outstanding
<1>4. Outstanding \cap new = {}
  BY DEF Outstanding
<1>5. Cardinality(Outstanding) \in Nat /\ Cardinality(Outstanding \cap new) = 0
  BY <1>4, FS_CardinalityType, FS_EmptySet
<1>6. IsFiniteSet(Outstanding \cup new)
      /\ Cardinality(Outstanding \cup new) = Cardinality(Outstanding) + k - 0
  <2> HIDE DEF new
  <2>1. /\ IsFiniteSet(Outstanding \cup new)
        /\ Cardinality(Outstanding \cup new)
             = Cardinality(Outstanding) + Cardinality(new) - Cardinality(Outstanding \cap new)
    BY <1>1, FS_Union
  <2> QED BY <1>1, <1>5, <2>1
<1> QED BY <1>3, <1>5, <1>6 DEF Owed

\* ... and takes from them with each post.
LEMMA OwedLess ==
  ASSUME SemaphoreAssumption, TypeOK, IsFiniteSet(Outstanding),
         NEW s \in Signalers, owed[s] > 0, owed' = [owed EXCEPT ![s] = owed[s] - 1]
  PROVE  IsFiniteSet(Outstanding)' /\ Owed' = Owed - 1
<1>1. owed[s] \in Nat BY DEF TypeOK
<1>2. owed'[s] = owed[s] - 1 /\ \A u \in Signalers : u # s => owed'[u] = owed[u]
  BY DEF TypeOK
<1>3. <<s, owed[s]>> \in Outstanding
  BY <1>1 DEF Outstanding
<1>4. 1..owed'[s] = (1..owed[s]) \ {owed[s]}
  BY <1>1, <1>2
<1>5. Outstanding' = Outstanding \ {<<s, owed[s]>>}
  BY <1>2, <1>4 DEF Outstanding
<1> QED BY <1>3, <1>5, FS_RemoveElement DEF Owed
-----------------------------------------------------------------------------
LEMMA IInvInit == ASSUME SemaphoreAssumption, Init PROVE IInv
<1>1. TypeOK /\ Stages BY DEF Init, TypeOK, Stages, SemaphoreAssumption
<1>2. Outstanding = {} BY DEF Init, Outstanding
<1>3. Blocked = {} BY DEF Init, Blocked
<1>4. Announced = 0 /\ Owed = 0 /\ IsFiniteSet(Outstanding)
  BY <1>2, <1>3, FS_EmptySet DEF Announced, Owed
<1> QED BY <1>1, <1>4 DEF IInv, WaitersAccounted, Init

\* Where a step of a waiter leaves it, with what it has taken.
LEMMA WaiterMoves ==
  ASSUME SemaphoreAssumption, IInv, NEW t \in Waiters,
         NEW p \in Moved, NEW n \in 0..Want[t],
         p \in Finished \/ n = 0,
         pc' = [pc EXCEPT ![t] = p], got' = [got EXCEPT ![t] = n], owed' = owed,
         m_count' \in Int, m_sema' \in Nat
  PROVE  /\ TypeOK' /\ Stages' /\ IsFiniteSet(Outstanding)' /\ Owed' = Owed
<1> USE DEF SemaphoreAssumption
<1>a. TypeOK /\ Stages BY DEF IInv
<1>1. Outstanding' = Outstanding /\ Owed' = Owed BY DEF Outstanding, Owed
<1>2. IsFiniteSet(Outstanding)' BY <1>1 DEF IInv
<1>3. Want[t] \in Nat OBVIOUS
<1>4. TypeOK' BY <1>a, <1>3 DEF TypeOK, Moved, Finished
<1>5. Stages' BY <1>a DEF TypeOK, Stages, Asleep, Moved, Finished
<1> QED BY <1>1, <1>2, <1>4, <1>5

\* Taking k permits is a step of the semaphore.
LEMMA TakeStep ==
  ASSUME SemaphoreAssumption, NEW t \in Waiters, NEW k \in 1..Want[t],
         k <= m_count + Announced, (m_count + Announced)' = (m_count + Announced) - k
  PROVE  Abstract!Next
<1>1. k \in UNION {1..Want[u] : u \in Waiters} OBVIOUS
<1>2. Abstract!Take(k) BY DEF Abstract!Take
<1> QED BY <1>1, <1>2 DEF Abstract!Next

\* What the invariant gives a waiter at its step.
Knows(t) ==
  /\ Announced \in Nat /\ Owed \in Nat /\ m_count \in Int /\ m_sema \in Nat
  /\ Announced = (IF m_count < 0 THEN -m_count ELSE 0) + m_sema + Owed
  /\ Want[t] \in Nat /\ 1 <= Want[t] /\ got[t] \in Nat /\ got[t] <= Want[t]
  /\ got = [got EXCEPT ![t] = got[t]]
  /\ pc[t] \notin {"more", "done"} => got[t] = 0
  /\ t \in Blocked <=> pc[t] \in Asleep
LEMMA WaiterKnows == ASSUME SemaphoreAssumption, IInv, NEW t \in Waiters PROVE Knows(t)
BY Counts DEF Knows, IInv, TypeOK, Stages, WaitersAccounted, SemaphoreAssumption, Blocked, Asleep

LEMMA SpinStep ==
  ASSUME SemaphoreAssumption, IInv, NEW t \in Waiters, Spin(t)
  PROVE  IInv' /\ [Abstract!Next]_(Abstract!vars)
<1> USE DEF Knows
<1>k. Knows(t) BY WaiterKnows
<1>1. pc[t] = "spin" /\ m_sema' = m_sema /\ owed' = owed /\ t \notin Blocked /\ got[t] = 0
  BY <1>k DEF Spin, Go, Asleep
<1>2. CASE Go(t, "spin", "done") /\ Grab(t, Want[t])
  <2> DEFINE k == Least(m_count, Want[t])
  <2>1. k \in 1..Want[t] /\ k <= m_count BY <1>2, <1>k DEF Grab, Least
  <2>2. m_count' = m_count - k /\ got' = [got EXCEPT ![t] = k] /\ m_count > 0
    <3>1. got[t] + k = k /\ k \in Int BY <1>1, <1>k, <2>1
    <3>2. got' = [got EXCEPT ![t] = got[t] + k] BY <1>2 DEF Grab
    <3> QED BY <1>2, <3>1, <3>2 DEF Grab
  <2> HIDE DEF k
  <2>3. pc' = [pc EXCEPT ![t] = "done"] BY <1>2 DEF Go
  <2>4. /\ TypeOK' /\ Stages' /\ IsFiniteSet(Outstanding)' /\ Owed' = Owed
    <3>1. k \in 0..Want[t] /\ m_count' \in Int /\ m_sema' \in Nat /\ "done" \in Moved \cap Finished
      BY <1>1, <1>k, <2>1, <2>2 DEF Moved, Finished
    <3> QED BY <1>1, <2>2, <2>3, <3>1, WaiterMoves
  <2>5. Announced' = Announced
    <3>1. TypeOK /\ IsFiniteSet(Outstanding) BY DEF IInv
    <3>2. {"done", "sub"} \cap Asleep = {} BY DEF Asleep
    <3> QED BY <1>1, <2>3, <3>1, <3>2, AnnouncedStep
  <2>6. WaitersAccounted' BY <1>k, <1>1, <2>1, <2>2, <2>4, <2>5 DEF WaitersAccounted
  <2>7. Abstract!Next BY <1>k, <2>1, <2>2, <2>5, TakeStep
  <2> QED BY <2>4, <2>6, <2>7 DEF IInv
<1>3. CASE Go(t, "spin", "sub") /\ UNCHANGED <<m_count, got>>
  <2>1. pc' = [pc EXCEPT ![t] = "sub"] /\ m_count' = m_count /\ got' = [got EXCEPT ![t] = 0]
    BY <1>3, <1>k, <1>1 DEF Go
  <2>2. /\ TypeOK' /\ Stages' /\ IsFiniteSet(Outstanding)' /\ Owed' = Owed
    <3>1. 0 \in 0..Want[t] /\ m_count' \in Int /\ m_sema' \in Nat /\ "sub" \in Moved
      BY <1>1, <1>k, <2>1 DEF Moved, Finished
    <3> QED BY <1>1, <2>1, <3>1, WaiterMoves
  <2>3. Announced' = Announced
    <3>1. TypeOK /\ IsFiniteSet(Outstanding) BY DEF IInv
    <3>2. {"done", "sub"} \cap Asleep = {} BY DEF Asleep
    <3> QED BY <1>1, <2>1, <3>1, <3>2, AnnouncedStep
  <2>4. WaitersAccounted' BY <1>k, <1>1, <2>1, <2>2, <2>3 DEF WaitersAccounted
  <2> QED BY <2>1, <2>2, <2>3, <2>4 DEF IInv, Abstract!vars
<1> QED BY <1>2, <1>3 DEF Spin

LEMMA SubStep ==
  ASSUME SemaphoreAssumption, IInv, NEW t \in Waiters, Sub(t)
  PROVE  IInv' /\ [Abstract!Next]_(Abstract!vars)
<1> USE DEF Knows
<1>k. Knows(t) BY WaiterKnows
<1>1. Sub(t) /\ pc[t] = "sub" /\ t \notin Blocked
  BY <1>k DEF Sub, Go, Asleep
<1>2. CASE m_count > 0
  <2>1. /\ pc' = [pc EXCEPT ![t] = "more"] /\ got' = [got EXCEPT ![t] = 1]
        /\ m_count' = m_count - 1 /\ m_sema' = m_sema /\ owed' = owed
    BY <1>2, <1>k, <1>1 DEF Sub, Go
  <2>2. 1 \in 0..Want[t] /\ m_count' \in Int /\ m_sema' \in Nat /\ "more" \in Moved \cap Finished
    BY <1>2, <1>k, <1>1, <2>1 DEF Moved, Finished
  <2>3. TypeOK' /\ Stages' /\ IsFiniteSet(Outstanding)' /\ Owed' = Owed
    BY <2>1, <2>2, WaiterMoves
  <2>4. Announced' = Announced
    <3>1. TypeOK /\ IsFiniteSet(Outstanding) BY DEF IInv
    <3>2. "more" \notin Asleep BY DEF Asleep
    <3> QED BY <1>1, <2>1, <3>1, <3>2, AnnouncedStep
  <2>5. WaitersAccounted' BY <1>2, <1>k, <1>1, <2>1, <2>3, <2>4 DEF WaitersAccounted
  <2>6. /\ 1 \in 1..Want[t] /\ 1 <= m_count + Announced
        /\ (m_count + Announced)' = (m_count + Announced) - 1
    BY <1>2, <1>k, <1>1, <2>1, <2>4
  <2>7. Abstract!Next BY <2>6, TakeStep
  <2> QED BY <2>3, <2>5, <2>7 DEF IInv
<1>3. CASE ~(m_count > 0)
  <2>1. /\ pc' = [pc EXCEPT ![t] = "block"] /\ got' = [got EXCEPT ![t] = 0]
        /\ m_count' = m_count - 1 /\ m_sema' = m_sema /\ owed' = owed
    BY <1>3, <1>k, <1>1 DEF Sub, Go
  <2>2. 0 \in 0..Want[t] /\ m_count' \in Int /\ m_sema' \in Nat /\ "block" \in Moved
    BY <1>3, <1>k, <1>1, <2>1 DEF Moved, Finished
  <2>3. TypeOK' /\ Stages' /\ IsFiniteSet(Outstanding)' /\ Owed' = Owed
    BY <1>1, <2>1, <2>2, WaiterMoves
  <2>4. Announced' = Announced + 1
    <3>1. TypeOK /\ IsFiniteSet(Outstanding) BY DEF IInv
    <3>2. "block" \in Asleep BY DEF Asleep
    <3> QED BY <1>1, <2>1, <3>1, <3>2, AnnouncedStep
  <2>5. WaitersAccounted' BY <1>3, <1>k, <1>1, <2>1, <2>3, <2>4 DEF WaitersAccounted
  <2>6. (m_count + Announced)' = m_count + Announced BY <1>k, <2>1, <2>4
  <2> QED BY <2>3, <2>5, <2>6 DEF IInv, Abstract!vars
<1> QED BY <1>2, <1>3

LEMMA BlockStep ==
  ASSUME SemaphoreAssumption, IInv, NEW t \in Waiters, Block(t)
  PROVE  IInv' /\ [Abstract!Next]_(Abstract!vars)
<1> USE DEF Knows
<1>k. Knows(t) BY WaiterKnows
<1>1. Block(t) /\ pc[t] = "block" /\ t \in Blocked /\ m_sema > 0
  BY <1>k DEF Block, Go, Asleep
<1>2. CASE TRUE
  <2>1. /\ pc' = [pc EXCEPT ![t] = "more"] /\ got' = [got EXCEPT ![t] = 1]
        /\ m_count' = m_count /\ m_sema' = m_sema - 1 /\ owed' = owed
    BY <1>2, <1>k, <1>1 DEF Block, Go
  <2>2. 1 \in 0..Want[t] /\ m_count' \in Int /\ m_sema' \in Nat /\ "more" \in Moved \cap Finished
    BY <1>2, <1>k, <1>1, <2>1 DEF Moved, Finished
  <2>3. TypeOK' /\ Stages' /\ IsFiniteSet(Outstanding)' /\ Owed' = Owed
    BY <2>1, <2>2, WaiterMoves
  <2>4. Announced' = Announced - 1
    <3>1. TypeOK /\ IsFiniteSet(Outstanding) BY DEF IInv
    <3>2. "more" \notin Asleep BY DEF Asleep
    <3> QED BY <1>1, <2>1, <3>1, <3>2, AnnouncedStep
  <2>5. WaitersAccounted' BY <1>2, <1>k, <1>1, <2>1, <2>3, <2>4 DEF WaitersAccounted
  <2>6. /\ 1 \in 1..Want[t] /\ 1 <= m_count + Announced
        /\ (m_count + Announced)' = (m_count + Announced) - 1
    BY <1>2, <1>k, <1>1, <2>1, <2>4
  <2>7. Abstract!Next BY <2>6, TakeStep
  <2> QED BY <2>3, <2>5, <2>7 DEF IInv
<1> QED BY <1>2

LEMMA TimeoutStep ==
  ASSUME SemaphoreAssumption, IInv, NEW t \in Waiters, Timeout(t)
  PROVE  IInv' /\ [Abstract!Next]_(Abstract!vars)
<1> USE DEF Knows
<1>k. Knows(t) BY WaiterKnows
<1>1. Timeout(t) /\ pc[t] = "block" /\ t \in Blocked /\ got[t] = 0
  BY <1>k DEF Timeout, Go, Asleep
<1>2. CASE TRUE
  <2>1. /\ pc' = [pc EXCEPT ![t] = "adjust"] /\ got' = [got EXCEPT ![t] = 0]
        /\ m_count' = m_count /\ m_sema' = m_sema /\ owed' = owed
    BY <1>2, <1>k, <1>1 DEF Timeout, Go
  <2>2. 0 \in 0..Want[t] /\ m_count' \in Int /\ m_sema' \in Nat /\ "adjust" \in Moved
    BY <1>2, <1>k, <1>1, <2>1 DEF Moved, Finished
  <2>3. TypeOK' /\ Stages' /\ IsFiniteSet(Outstanding)' /\ Owed' = Owed
    BY <1>1, <2>1, <2>2, WaiterMoves
  <2>4. Announced' = Announced
    <3>1. TypeOK /\ IsFiniteSet(Outstanding) BY DEF IInv
    <3>2. "adjust" \in Asleep BY DEF Asleep
    <3> QED BY <1>1, <2>1, <3>1, <3>2, AnnouncedStep
  <2>5. WaitersAccounted' BY <1>2, <1>k, <1>1, <2>1, <2>3, <2>4 DEF WaitersAccounted
  <2>6. (m_count + Announced)' = m_count + Announced BY <1>k, <2>1, <2>4
  <2> QED BY <2>3, <2>5, <2>6 DEF IInv, Abstract!vars
<1> QED BY <1>2

LEMMA AdjustStep ==
  ASSUME SemaphoreAssumption, IInv, NEW t \in Waiters, Adjust(t)
  PROVE  IInv' /\ [Abstract!Next]_(Abstract!vars)
<1> USE DEF Knows
<1>k. Knows(t) BY WaiterKnows
<1>1. Adjust(t) /\ pc[t] = "adjust" /\ t \in Blocked /\ got[t] = 0
  BY <1>k DEF Adjust, Go, Asleep
<1>2. CASE m_count < 0
  <2>1. /\ pc' = [pc EXCEPT ![t] = "done"] /\ got' = [got EXCEPT ![t] = 0]
        /\ m_count' = m_count + 1 /\ m_sema' = m_sema /\ owed' = owed
    BY <1>2, <1>k, <1>1 DEF Adjust, Go
  <2>2. 0 \in 0..Want[t] /\ m_count' \in Int /\ m_sema' \in Nat /\ "done" \in Moved \cap Finished
    BY <1>2, <1>k, <1>1, <2>1 DEF Moved, Finished
  <2>3. TypeOK' /\ Stages' /\ IsFiniteSet(Outstanding)' /\ Owed' = Owed
    BY <2>1, <2>2, WaiterMoves
  <2>4. Announced' = Announced - 1
    <3>1. TypeOK /\ IsFiniteSet(Outstanding) BY DEF IInv
    <3>2. "done" \notin Asleep BY DEF Asleep
    <3> QED BY <1>1, <2>1, <3>1, <3>2, AnnouncedStep
  <2>5. WaitersAccounted' BY <1>2, <1>k, <1>1, <2>1, <2>3, <2>4 DEF WaitersAccounted
  <2>6. (m_count + Announced)' = m_count + Announced BY <1>k, <2>1, <2>4
  <2> QED BY <2>3, <2>5, <2>6 DEF IInv, Abstract!vars
<1>3. CASE ~(m_count < 0)
  <2>1. /\ pc' = [pc EXCEPT ![t] = "try"] /\ got' = [got EXCEPT ![t] = 0]
        /\ m_count' = m_count /\ m_sema' = m_sema /\ owed' = owed
    BY <1>3, <1>k, <1>1 DEF Adjust, Go
  <2>2. 0 \in 0..Want[t] /\ m_count' \in Int /\ m_sema' \in Nat /\ "try" \in Moved
    BY <1>3, <1>k, <1>1, <2>1 DEF Moved, Finished
  <2>3. TypeOK' /\ Stages' /\ IsFiniteSet(Outstanding)' /\ Owed' = Owed
    BY <1>1, <2>1, <2>2, WaiterMoves
  <2>4. Announced' = Announced
    <3>1. TypeOK /\ IsFiniteSet(Outstanding) BY DEF IInv
    <3>2. "try" \in Asleep BY DEF Asleep
    <3> QED BY <1>1, <2>1, <3>1, <3>2, AnnouncedStep
  <2>5. WaitersAccounted' BY <1>3, <1>k, <1>1, <2>1, <2>3, <2>4 DEF WaitersAccounted
  <2>6. (m_count + Announced)' = m_count + Announced BY <1>k, <2>1, <2>4
  <2> QED BY <2>3, <2>5, <2>6 DEF IInv, Abstract!vars
<1> QED BY <1>2, <1>3

LEMMA TryStep ==
  ASSUME SemaphoreAssumption, IInv, NEW t \in Waiters, Try(t)
  PROVE  IInv' /\ [Abstract!Next]_(Abstract!vars)
<1> USE DEF Knows
<1>k. Knows(t) BY WaiterKnows
<1>1. Try(t) /\ pc[t] = "try" /\ t \in Blocked /\ got[t] = 0
  BY <1>k DEF Try, Go, Asleep
<1>2. CASE m_sema > 0
  <2>1. /\ pc' = [pc EXCEPT ![t] = "more"] /\ got' = [got EXCEPT ![t] = 1]
        /\ m_count' = m_count /\ m_sema' = m_sema - 1 /\ owed' = owed
    BY <1>2, <1>k, <1>1 DEF Try, Go
  <2>2. 1 \in 0..Want[t] /\ m_count' \in Int /\ m_sema' \in Nat /\ "more" \in Moved \cap Finished
    BY <1>2, <1>k, <1>1, <2>1 DEF Moved, Finished
  <2>3. TypeOK' /\ Stages' /\ IsFiniteSet(Outstanding)' /\ Owed' = Owed
    BY <2>1, <2>2, WaiterMoves
  <2>4. Announced' = Announced - 1
    <3>1. TypeOK /\ IsFiniteSet(Outstanding) BY DEF IInv
    <3>2. "more" \notin Asleep BY DEF Asleep
    <3> QED BY <1>1, <2>1, <3>1, <3>2, AnnouncedStep
  <2>5. WaitersAccounted' BY <1>2, <1>k, <1>1, <2>1, <2>3, <2>4 DEF WaitersAccounted
  <2>6. /\ 1 \in 1..Want[t] /\ 1 <= m_count + Announced
        /\ (m_count + Announced)' = (m_count + Announced) - 1
    BY <1>2, <1>k, <1>1, <2>1, <2>4
  <2>7. Abstract!Next BY <2>6, TakeStep
  <2> QED BY <2>3, <2>5, <2>7 DEF IInv
<1>3. CASE ~(m_sema > 0)
  <2>1. /\ pc' = [pc EXCEPT ![t] = "adjust"] /\ got' = [got EXCEPT ![t] = 0]
        /\ m_count' = m_count /\ m_sema' = m_sema /\ owed' = owed
    BY <1>3, <1>k, <1>1 DEF Try, Go
  <2>2. 0 \in 0..Want[t] /\ m_count' \in Int /\ m_sema' \in Nat /\ "adjust" \in Moved
    BY <1>3, <1>k, <1>1, <2>1 DEF Moved, Finished
  <2>3. TypeOK' /\ Stages' /\ IsFiniteSet(Outstanding)' /\ Owed' = Owed
    BY <1>1, <2>1, <2>2, WaiterMoves
  <2>4. Announced' = Announced
    <3>1. TypeOK /\ IsFiniteSet(Outstanding) BY DEF IInv
    <3>2. "adjust" \in Asleep BY DEF Asleep
    <3> QED BY <1>1, <2>1, <3>1, <3>2, AnnouncedStep
  <2>5. WaitersAccounted' BY <1>3, <1>k, <1>1, <2>1, <2>3, <2>4 DEF WaitersAccounted
  <2>6. (m_count + Announced)' = m_count + Announced BY <1>k, <2>1, <2>4
  <2> QED BY <2>3, <2>5, <2>6 DEF IInv, Abstract!vars
<1> QED BY <1>2, <1>3

LEMMA MoreStep ==
  ASSUME SemaphoreAssumption, IInv, NEW t \in Waiters, More(t)
  PROVE  IInv' /\ [Abstract!Next]_(Abstract!vars)
<1> USE DEF Knows
<1>k. Knows(t) BY WaiterKnows
<1>1. More(t) /\ pc[t] = "more" /\ t \notin Blocked
  BY <1>k DEF More, Go, Asleep
<1>2. CASE got[t] < Want[t] /\ Grab(t, Want[t] - got[t])
  <2> DEFINE k == Least(m_count, Want[t] - got[t])
             n == got[t] + k
  <2>1. k \in 1..Want[t] /\ k <= m_count /\ n \in 0..Want[t] /\ m_count > 0
    BY <1>2, <1>k DEF Grab, Least
  <2>2. /\ m_count' = m_count - k /\ got' = [got EXCEPT ![t] = n]
        /\ m_sema' = m_sema /\ owed' = owed /\ pc' = [pc EXCEPT ![t] = "done"]
    BY <1>1, <1>2 DEF Grab, More, Go
  <2> HIDE DEF k, n
  <2>3. m_count' \in Int /\ m_sema' \in Nat /\ "done" \in Moved \cap Finished
    BY <1>k, <2>1, <2>2 DEF Moved, Finished
  <2>4. TypeOK' /\ Stages' /\ IsFiniteSet(Outstanding)' /\ Owed' = Owed
    <3>1. n \in 0..Want[t] BY <2>1
    <3> QED BY <2>2, <2>3, <3>1, WaiterMoves, Zenon
  <2>5. Announced' = Announced
    <3>1. TypeOK /\ IsFiniteSet(Outstanding) BY DEF IInv
    <3>2. {"done", "sub"} \cap Asleep = {} BY DEF Asleep
    <3> QED BY <1>1, <2>2, <3>1, <3>2, AnnouncedStep
  <2>6. WaitersAccounted' BY <1>k, <2>1, <2>2, <2>4, <2>5 DEF WaitersAccounted
  <2>7. k <= m_count + Announced /\ (m_count + Announced)' = (m_count + Announced) - k
    BY <1>k, <2>1, <2>2, <2>5
  <2>8. Abstract!Next BY <2>1, <2>7, TakeStep
  <2> QED BY <2>4, <2>6, <2>8 DEF IInv
<1>3. CASE UNCHANGED <<m_count, got>>
  <2>1. /\ pc' = [pc EXCEPT ![t] = "done"] /\ got' = [got EXCEPT ![t] = got[t]]
        /\ m_count' = m_count /\ m_sema' = m_sema /\ owed' = owed
    BY <1>3, <1>k, <1>1 DEF More, Go
  <2>2. got[t] \in 0..Want[t] /\ m_count' \in Int /\ m_sema' \in Nat /\ "done" \in Moved \cap Finished
    BY <1>3, <1>k, <1>1, <2>1 DEF Moved, Finished
  <2>3. TypeOK' /\ Stages' /\ IsFiniteSet(Outstanding)' /\ Owed' = Owed
    BY <2>1, <2>2, WaiterMoves
  <2>4. Announced' = Announced
    <3>1. TypeOK /\ IsFiniteSet(Outstanding) BY DEF IInv
    <3>2. "done" \notin Asleep BY DEF Asleep
    <3> QED BY <1>1, <2>1, <3>1, <3>2, AnnouncedStep
  <2>5. WaitersAccounted' BY <1>3, <1>k, <1>1, <2>1, <2>3, <2>4 DEF WaitersAccounted
  <2>6. (m_count + Announced)' = m_count + Announced BY <1>k, <2>1, <2>4
  <2> QED BY <2>3, <2>5, <2>6 DEF IInv, Abstract!vars
<1> QED BY <1>1, <1>2, <1>3 DEF More

LEMMA SignalStep ==
  ASSUME SemaphoreAssumption, IInv, NEW s \in Signalers, Signal(s)
  PROVE  IInv' /\ [Abstract!Next]_(Abstract!vars)
<1>a. TypeOK /\ Stages /\ IsFiniteSet(Outstanding) BY DEF IInv
<1>b. /\ Announced \in Nat /\ Owed \in Nat /\ m_count \in Int /\ m_sema \in Nat
      /\ Announced = (IF m_count < 0 THEN -m_count ELSE 0) + m_sema + Owed
      /\ Give[s] \in Nat /\ s \notin Waiters
  BY <1>a, Counts DEF IInv, TypeOK, WaitersAccounted, SemaphoreAssumption
<1> DEFINE k == ToRelease(m_count, Give[s])
<1>c. k \in Nat /\ (m_count < 0 => k = Least(-m_count, Give[s])) /\ (m_count >= 0 => k = 0)
  BY <1>b DEF ToRelease, Least
<1>d. /\ pc' = [pc EXCEPT ![s] = "post"] /\ m_count' = m_count + Give[s] /\ owed' = [owed EXCEPT ![s] = k]
      /\ m_sema' = m_sema /\ got' = got /\ owed[s] = 0
  BY <1>a DEF Signal, Go, Stages
<1> HIDE DEF k
<1>1. Announced' = Announced
  BY <1>a, <1>b, <1>d, AnnouncedStep DEF Blocked, Asleep
<1>2. IsFiniteSet(Outstanding)' /\ Owed' = Owed + k
  BY <1>a, <1>c, <1>d, OwedMore
<1>3. TypeOK' BY <1>a, <1>b, <1>c, <1>d DEF TypeOK
<1>4. Stages' BY <1>a, <1>b, <1>d DEF Stages, TypeOK, SemaphoreAssumption
<1>5. WaitersAccounted'
  BY <1>b, <1>c, <1>d, <1>1, <1>2 DEF WaitersAccounted, Least
<1>6. Abstract!Next
  <2>1. Give[s] \in {Give[u] : u \in Signalers} OBVIOUS
  <2>2. (m_count + Announced)' = (m_count + Announced) + Give[s] BY <1>b, <1>d, <1>1
  <2>3. Abstract!Signal(Give[s]) BY <2>2 DEF Abstract!Signal
  <2>4. Give[s] \in (UNION {1..Want[t] : t \in Waiters}) \cup {Give[u] : u \in Signalers}
    BY <2>1
  <2> QED BY <2>3, <2>4 DEF Abstract!Next
<1> QED BY <1>2, <1>3, <1>4, <1>5, <1>6 DEF IInv

LEMMA PostStep ==
  ASSUME SemaphoreAssumption, IInv, NEW s \in Signalers, Post(s)
  PROVE  IInv' /\ [Abstract!Next]_(Abstract!vars)
<1>a. TypeOK /\ Stages /\ IsFiniteSet(Outstanding) BY DEF IInv
<1>b. /\ Announced \in Nat /\ Owed \in Nat /\ m_count \in Int /\ m_sema \in Nat
      /\ Announced = (IF m_count < 0 THEN -m_count ELSE 0) + m_sema + Owed
      /\ owed[s] \in Nat /\ s \notin Waiters
  BY <1>a, Counts DEF IInv, TypeOK, WaitersAccounted, SemaphoreAssumption
<1> DEFINE p == IF owed[s] <= 1 THEN "done" ELSE "post"
<1>c. /\ pc' = [pc EXCEPT ![s] = p] /\ p \in {"done", "post"}
      /\ m_sema' = m_sema + Least(owed[s], 1)
      /\ owed' = [owed EXCEPT ![s] = IF owed[s] = 0 THEN 0 ELSE owed[s] - 1]
      /\ m_count' = m_count /\ got' = got
  BY DEF Post, Go
<1> HIDE DEF p
<1>1. Announced' = Announced
  BY <1>a, <1>b, <1>c, AnnouncedStep DEF Blocked, Asleep
<1>2. IsFiniteSet(Outstanding)' /\ m_sema' \in Nat /\ m_sema' + Owed' = m_sema + Owed
  <2>1. CASE owed[s] = 0
    <3>1. owed' = owed /\ m_sema' = m_sema BY <1>a, <1>b, <1>c, <2>1 DEF TypeOK, Least
    <3>2. Outstanding' = Outstanding BY <3>1 DEF Outstanding
    <3> QED BY <1>a, <1>b, <3>1, <3>2 DEF Owed
  <2>2. CASE owed[s] > 0
    <3>1. m_sema' = m_sema + 1 /\ owed' = [owed EXCEPT ![s] = owed[s] - 1]
      <4>1. Least(owed[s], 1) = 1 /\ owed[s] # 0 BY <1>b, <2>2 DEF Least
      <4> QED BY <1>c, <4>1
    <3>2. IsFiniteSet(Outstanding)' /\ Owed' = Owed - 1 BY <1>a, <2>2, <3>1, OwedLess
    <3> QED BY <1>b, <3>1, <3>2
  <2> QED BY <1>b, <2>1, <2>2
<1>3. TypeOK'
  <2>1. (IF owed[s] = 0 THEN 0 ELSE owed[s] - 1) \in Nat BY <1>b
  <2> QED BY <1>a, <1>b, <1>c, <1>2, <2>1 DEF TypeOK
<1>4. Stages' BY <1>a, <1>b, <1>c DEF Stages, TypeOK, SemaphoreAssumption
<1>5. WaitersAccounted'
  <2>1. Owed' \in Nat BY <1>2, FS_CardinalityType DEF Owed
  <2> QED BY <1>b, <1>c, <1>1, <1>2, <2>1 DEF WaitersAccounted
<1>6. (m_count + Announced)' = m_count + Announced BY <1>c, <1>1
<1> QED BY <1>2, <1>3, <1>4, <1>5, <1>6 DEF IInv, Abstract!vars

\* Each step keeps the account and is a step of the semaphore, or no step of it.
LEMMA IInvStep ==
  ASSUME SemaphoreAssumption, IInv, [Next]_vars PROVE IInv' /\ [Abstract!Next]_(Abstract!vars)
<1>1. CASE UNCHANGED vars
  BY <1>1 DEF vars, IInv, TypeOK, Stages, Outstanding, Owed, WaitersAccounted, Announced, Blocked,
              Abstract!vars
<1>2. ASSUME NEW t \in Waiters, WaiterStep(t) \/ Timeout(t)
      PROVE  IInv' /\ [Abstract!Next]_(Abstract!vars)
  BY <1>2, SpinStep, SubStep, BlockStep, TimeoutStep, AdjustStep, TryStep, MoreStep DEF WaiterStep
<1>3. ASSUME NEW s \in Signalers, SignalerStep(s)
      PROVE  IInv' /\ [Abstract!Next]_(Abstract!vars)
  BY <1>3, SignalStep, PostStep DEF SignalerStep
<1> QED BY <1>1, <1>2, <1>3 DEF Next

LEMMA IInvAlways == ASSUME SemaphoreAssumption PROVE Spec => []IInv
<1>1. Init => IInv BY IInvInit
<1>2. IInv /\ [Next]_vars => IInv' BY IInvStep
<1> QED BY <1>1, <1>2, PTL DEF Spec

(* The variables of the semaphore keep their types: no call takes more than *)
(* it asked for.                                                            *)
THEOREM TypeCorrect == ASSUME SemaphoreAssumption PROVE Spec => []TypeOK
<1>1. IInv => TypeOK BY DEF IInv
<1> QED BY <1>1, IInvAlways, PTL

(* Each waiter that is, or may be, in the kernel is part of the negative    *)
(* count or has a post of its own, also after timeouts, so that none sleeps *)
(* through its signal (lightweightsemaphore.h:294-326, 393-402).            *)
THEOREM AccountKept == ASSUME SemaphoreAssumption PROVE Spec => []WaitersAccounted
<1>1. IInv => WaitersAccounted BY DEF IInv
<1> QED BY <1>1, IInvAlways, PTL

(* All the calls together, of any number of threads and with any timeouts,  *)
(* behave as one atomic counting semaphore.                                 *)
THEOREM SemaphoreRefines == ASSUME SemaphoreAssumption PROVE Spec => ImplementsSemaphore
<1>1. Init => Abstract!Init
  <2> SUFFICES ASSUME Init PROVE Abstract!Init
    OBVIOUS
  <2>1. Blocked = {} BY DEF Init, Blocked
  <2>2. Announced = 0 BY <2>1, FS_EmptySet DEF Announced
  <2> QED BY <2>2 DEF Init, Abstract!Init
<1>2. IInv /\ [Next]_vars => [Abstract!Next]_(Abstract!vars) BY IInvStep
<1> QED BY <1>1, <1>2, IInvAlways, PTL DEF Spec, ImplementsSemaphore, Abstract!Spec
=============================================================================
