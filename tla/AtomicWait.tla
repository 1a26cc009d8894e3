----------------------------- MODULE AtomicWait -----------------------------
(***************************************************************************)
(* atomic_wait and atomic_notify_one/all of                                *)
(* lib/parlay/internal/atomic_wait.h, on which the workers of ForkJoin.tla *)
(* sleep when the standard library has no waiting of its own. Its three    *)
(* strategies: a futex on the version of a contention-table entry          *)
(* ("table"), a futex on the atomic itself ("direct"), and a condition     *)
(* variable in the entry ("condvar"); and polling ("poll") without any.    *)
(*                                                                         *)
(* The atomics here share one table entry, as any two addresses that are   *)
(* equal modulo 256 do. Futex, mutex and condition variable are external.  *)
(***************************************************************************)
EXTENDS Integers, FiniteSets

CONSTANTS Waiters, Notifiers,
          Addr,        \* Addr[t]: the atomic thread t waits on or changes
          NotifyOne,   \* the notifiers that call atomic_notify_one
          VersionMod   \* values of the int version, 2^32 in the code

AtomicWaitAssumption == NotifyOne \subseteq Notifiers /\ VersionMod \in Nat \ {0, 1}

VARIABLES strategy,   \* the strategy compiled in
          value,      \* value[a]: has the atomic moved off the value waited for
          waiters,    \* the entry's waiters flag or count, or its credit
          version, mutex,
          asleep,     \* the threads blocked in the kernel
          seen,       \* seen[t]: the version waiter t loaded
          pc

vars == <<strategy, value, waiters, version, mutex, asleep, seen, pc>>
Atomics == {Addr[t] : t \in Waiters \cup Notifiers}
Nobody == "nobody"

TypeOK ==
  /\ strategy \in {"table", "direct", "condvar", "poll"}
  /\ value \in [Atomics -> BOOLEAN] /\ waiters \in 0..Cardinality(Waiters)
  /\ version \in 0..(VersionMod - 1) /\ seen \in [Waiters -> 0..(VersionMod - 1)]
  /\ mutex \in Waiters \cup Notifiers \cup {Nobody} /\ asleep \subseteq Waiters
  /\ pc \in [Waiters \cup Notifiers -> {"test", "mark", "version", "recheck", "futex",
       "asleep", "unmark", "relock", "unlock", "store", "bump", "look", "claim", "pass",
       "wake", "done"}]

Init ==
  /\ strategy \in {"table", "direct", "condvar", "poll"}
  /\ value = [a \in Atomics |-> FALSE]
  /\ waiters = 0 /\ version = 0 /\ mutex = Nobody /\ asleep = {}
  /\ seen = [t \in Waiters |-> 0]
  /\ pc = [t \in Waiters \cup Notifiers |-> IF t \in Waiters THEN "test" ELSE "store"]

Go(t, from, to) == pc[t] = from /\ pc' = [pc EXCEPT ![t] = to]
Moved(t) == value[Addr[t]]

(* The loop of __cxx_atomic_wait, its spinning included: leave when the     *)
(* value has moved, else try_wait_slow. *)
Test(t) ==
  /\ Go(t, "test", IF Moved(t) THEN "done" ELSE IF strategy = "poll" THEN "test" ELSE "mark")
  /\ UNCHANGED <<strategy, value, waiters, version, mutex, asleep, seen>>

(* try_wait_slow announces the waiter; with condvar it does so under the    *)
(* mutex, which it takes first. *)
Mark(t) ==
  /\ strategy = "condvar" => mutex = Nobody
  /\ Go(t, "mark", IF strategy = "table" THEN "version"
                   ELSE IF strategy = "direct" THEN "futex" ELSE "recheck")
  /\ waiters' = IF strategy = "direct" THEN waiters + 1 ELSE 1
  /\ mutex' = IF strategy = "condvar" THEN t ELSE mutex
  /\ UNCHANGED <<strategy, value, version, asleep, seen>>

Version(t) ==
  /\ Go(t, "version", "recheck")
  /\ seen' = [seen EXCEPT ![t] = version]
  /\ UNCHANGED <<strategy, value, waiters, version, mutex, asleep>>

(* The second look at the atomic. With condvar, pthread_cond_wait gives up  *)
(* the mutex and blocks in one step. *)
Recheck(t) ==
  /\ \/ /\ strategy = "table"
        /\ Go(t, "recheck", IF Moved(t) THEN "test" ELSE "futex")
        /\ UNCHANGED <<mutex, asleep>>
     \/ /\ strategy = "condvar"
        /\ Go(t, "recheck", IF Moved(t) THEN "unlock" ELSE "asleep")
        /\ asleep' = IF Moved(t) THEN asleep ELSE asleep \cup {t}
        /\ mutex' = IF Moved(t) THEN t ELSE Nobody
  /\ UNCHANGED <<strategy, value, waiters, version, seen>>

(* futex_wait blocks only while the word still has the expected value. *)
Futex(t) ==
  LET stays == IF strategy = "table" THEN version = seen[t] ELSE ~Moved(t)
  IN  /\ Go(t, "futex", IF stays THEN "asleep" ELSE IF strategy = "table" THEN "test" ELSE "unmark")
      /\ asleep' = IF stays THEN asleep \cup {t} ELSE asleep
      /\ UNCHANGED <<strategy, value, waiters, version, mutex, seen>>

(* Back from the kernel. *)
Awaken(t) ==
  /\ t \notin asleep
  /\ Go(t, "asleep", CASE strategy = "table" -> "test" [] strategy = "direct" -> "unmark"
                       [] OTHER -> "relock")
  /\ UNCHANGED <<strategy, value, waiters, version, mutex, asleep, seen>>

(* The two-second timeout of the table strategy's futex. *)
Timeout(t) ==
  /\ strategy = "table" /\ t \in asleep
  /\ asleep' = asleep \ {t}
  /\ UNCHANGED <<strategy, value, waiters, version, mutex, seen, pc>>

Unmark(t) ==
  /\ Go(t, "unmark", "test")
  /\ waiters' = waiters - 1
  /\ UNCHANGED <<strategy, value, version, mutex, asleep, seen>>

Relock(t) ==
  /\ mutex = Nobody
  /\ Go(t, "relock", "unlock")
  /\ mutex' = t
  /\ UNCHANGED <<strategy, value, waiters, version, asleep, seen>>

Unlock(t) ==
  /\ Go(t, "unlock", "test")
  /\ mutex' = Nobody
  /\ UNCHANGED <<strategy, value, waiters, version, asleep, seen>>
-----------------------------------------------------------------------------
(* The caller changes the atomic and then notifies. *)
Store(n) ==
  /\ Go(n, "store", CASE strategy = "table" -> "bump" [] strategy = "poll" -> "done"
                      [] OTHER -> "look")
  /\ value' = [value EXCEPT ![Addr[n]] = TRUE]
  /\ UNCHANGED <<strategy, waiters, version, mutex, asleep, seen>>

Bump(n) ==
  /\ Go(n, "bump", "claim")
  /\ version' = (version + 1) % VersionMod
  /\ UNCHANGED <<strategy, value, waiters, mutex, asleep, seen>>

Look(n) ==
  /\ Go(n, "look", IF waiters = 0 THEN "done"
                   ELSE IF strategy = "direct" THEN "wake" ELSE "claim")
  /\ UNCHANGED <<strategy, value, waiters, version, mutex, asleep, seen>>

(* The exchange that lets one notifier wake everybody for all. *)
Claim(n) ==
  /\ Go(n, "claim", IF waiters = 0 THEN "done" ELSE IF strategy = "table" THEN "wake" ELSE "pass")
  /\ waiters' = 0
  /\ UNCHANGED <<strategy, value, version, mutex, asleep, seen>>

(* Lock and unlock the mutex: whoever announced itself now either sleeps on *)
(* the condition variable or sees the new value. *)
PassBug(n) ==
  /\ Go(n, "pass", "wake")
  /\ UNCHANGED <<strategy, value, waiters, version, mutex, asleep, seen>>
Pass(n) ==
  /\ mutex = Nobody
  /\ Go(n, "pass", "wake")
  /\ UNCHANGED <<strategy, value, waiters, version, mutex, asleep, seen>>

(* Only the direct strategy wakes a single thread, and only threads that    *)
(* wait on this atomic. *)
WakeUp(n) ==
  LET sleepers == IF strategy = "direct" THEN {t \in asleep : Addr[t] = Addr[n]} ELSE asleep
  IN  /\ Go(n, "wake", "done")
      /\ IF strategy = "direct" /\ n \in NotifyOne /\ sleepers # {}
         THEN \E t \in sleepers : asleep' = asleep \ {t}
         ELSE asleep' = asleep \ sleepers
      /\ UNCHANGED <<strategy, value, waiters, version, mutex, seen>>

WaiterStep(t) == \/ Test(t) \/ Mark(t) \/ Version(t) \/ Recheck(t) \/ Futex(t)
                 \/ Awaken(t) \/ Unmark(t) \/ Relock(t) \/ Unlock(t)
NotifierStep(n) == Store(n) \/ Bump(n) \/ Look(n) \/ Claim(n) \/ Pass(n) \/ WakeUp(n)
Next == \/ \E t \in Waiters : WaiterStep(t) \/ Timeout(t)
        \/ \E n \in Notifiers : NotifierStep(n)

Spec == Init /\ [][Next]_vars

Progress == /\ \A t \in Waiters : WF_vars(WaiterStep(t))
            /\ \A n \in Notifiers : WF_vars(NotifierStep(n))

(* The threads run, and the timeout comes when it is due. *)
FairSpec == Spec /\ Progress /\ \A t \in Waiters : WF_vars(Timeout(t))
-----------------------------------------------------------------------------
(* A thread that sleeps on a condition variable or directly on an atomic    *)
(* that has moved has a notifier that has yet to look or to wake it: the    *)
(* window between the second look and the kernel is closed                  *)
(* (atomic_wait.h:229-253, 291-320). *)
NoLostWakeup ==
  strategy # "table" =>
    \A t \in asleep : Moved(t) =>
      \E n \in Notifiers :
        \/ pc[n] \in {"look", "claim"} /\ waiters # 0
        \/ pc[n] \in {"pass", "wake"}
        \/ n \in NotifyOne /\ pc[n] = "done" /\ \E m \in Notifiers : pc[m] = "store"

Awake == \A t \in Waiters : Moved(t) => pc[t] = "done"

(* Every atomic_wait returns once its atomic has moved: with the futex on   *)
(* the table's version a wake-up can be lost, and the timeout makes up for  *)
(* it. *)
WaitersReturn == []<>Awake

=============================================================================
