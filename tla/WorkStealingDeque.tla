-------------------------- MODULE WorkStealingDeque --------------------------
(***************************************************************************)
(* The Arora-Blumofe-Plaxton deque of                                      *)
(* lib/parlay/internal/work_stealing_deque.h, one action per atomic access.*)
(* The owner alternates push_bottom and pop_bottom as it likes; every      *)
(* thief repeats pop_top.                                                  *)
(*                                                                         *)
(* Accesses interleave in program order. On x86 this loses nothing: each   *)
(* store the owner makes is a seq_cst store, or is followed by a fence or  *)
(* a locked instruction before its next load.                              *)
(***************************************************************************)
EXTENDS Integers, Sequences, SequenceTheorems, TLAPS

CONSTANTS Thieves,
          NumJobs,   \* jobs the owner pushes before it stops pushing
          QSize,     \* q_size: slots of the array, 1024 in the code
          TagMod     \* values of the unsigned tag, 2^32 in the code

DequeAssumption ==
  NumJobs \in Nat /\ QSize \in Nat \ {0} /\ TagMod \in Nat \ {0, 1}

VARIABLES bot, age, deq,  \* the members of Deque; age = [tag, top]
          pushed,         \* jobs 1..pushed have been passed to push_bottom
          obtained,       \* obtained[j]: how often a pop returned job j
          owner,          \* the owner's pc and locals
          thief,          \* thief[t]: pc and locals of t inside pop_top
          missed          \* TRUE when the owner's last pop returned nullptr

vars == <<bot, age, deq, pushed, obtained, owner, thief, missed>>

NoJob == 0
Jobs == 1..NumJobs
Slots == 0..(QSize - 1)
Ages == [tag : 0..(TagMod - 1), top : 0..QSize]
Idle == [pc |-> "idle", bot |-> 0, age |-> [tag |-> 0, top |-> 0], job |-> NoJob]

TypeOK ==
  /\ bot \in 0..QSize /\ age \in Ages /\ deq \in [Slots -> Jobs \cup {NoJob}]
  /\ pushed \in 0..NumJobs /\ obtained \in [Jobs -> 0..1] /\ missed \in BOOLEAN
  /\ owner \in [pc : {"idle", "push", "load", "reset", "cas", "store"},
                bot : 0..QSize, age : Ages, job : Jobs \cup {NoJob}]
  /\ thief \in [Thieves -> [pc : {"idle", "bot", "job", "cas"},
                bot : 0..QSize, age : Ages, job : Jobs \cup {NoJob}]]

Init ==
  /\ bot = 0 /\ age = [tag |-> 0, top |-> 0]
  /\ deq = [i \in Slots |-> NoJob]
  /\ pushed = 0 /\ obtained = [j \in Jobs |-> 0] /\ missed = FALSE
  /\ owner = Idle /\ thief = [t \in Thieves |-> Idle]

Obtain(j) == obtained' = [obtained EXCEPT ![j] = @ + 1]

(* push_bottom stores the job in the slot at bot; a full array aborts the   *)
(* program, which the guard leaves out. *)
PushSlot ==
  /\ owner.pc = "idle" /\ pushed < NumJobs /\ bot < QSize
  /\ deq' = [deq EXCEPT ![bot] = pushed + 1]
  /\ pushed' = pushed + 1
  /\ owner' = [owner EXCEPT !.pc = "push", !.bot = bot + 1]
  /\ UNCHANGED <<bot, age, obtained, thief, missed>>

PushPublish ==
  /\ owner.pc = "push"
  /\ bot' = owner.bot
  /\ owner' = Idle
  /\ UNCHANGED <<age, deq, pushed, obtained, thief, missed>>

(* pop_bottom on an empty array: nullptr without further accesses. *)
PopEmpty ==
  /\ owner.pc = "idle" /\ bot = 0
  /\ missed' = TRUE
  /\ UNCHANGED <<bot, age, deq, pushed, obtained, owner, thief>>

(* pop_bottom claims the bottom slot by lowering bot and reads its job. *)
PopClaim ==
  /\ owner.pc = "idle" /\ bot # 0
  /\ bot' = bot - 1
  /\ owner' = [owner EXCEPT !.pc = "load", !.bot = bot - 1, !.job = deq[bot - 1]]
  /\ missed' = FALSE
  /\ UNCHANGED <<age, deq, pushed, obtained, thief>>

(* The comparison that decides whether a thief can reach the claimed slot. *)
OutOfReach(local_bot, top) == local_bot > top

PopLoadAge ==
  /\ owner.pc = "load"
  /\ IF OutOfReach(owner.bot, age.top)
     THEN Obtain(owner.job) /\ owner' = Idle
     ELSE /\ owner' = [owner EXCEPT !.pc = "reset", !.age = age]
          /\ UNCHANGED obtained
  /\ UNCHANGED <<bot, age, deq, pushed, thief, missed>>

NewAgeBug(a) == [tag |-> a.tag, top |-> 0]
NewAge(a) == [tag |-> (a.tag + 1) % TagMod, top |-> 0]

PopReset ==
  /\ owner.pc = "reset"
  /\ bot' = 0
  /\ owner' = [owner EXCEPT !.pc = IF owner.bot = owner.age.top THEN "cas" ELSE "store"]
  /\ UNCHANGED <<age, deq, pushed, obtained, thief, missed>>

(* The CAS against the thieves for the last job. *)
PopCas ==
  /\ owner.pc = "cas"
  /\ IF age = owner.age
     THEN Obtain(owner.job) /\ age' = NewAge(owner.age) /\ owner' = Idle
     ELSE owner' = [owner EXCEPT !.pc = "store"] /\ UNCHANGED <<age, obtained>>
  /\ UNCHANGED <<bot, deq, pushed, thief, missed>>

PopStore ==
  /\ owner.pc = "store"
  /\ age' = NewAge(owner.age)
  /\ owner' = Idle /\ missed' = TRUE
  /\ UNCHANGED <<bot, deq, pushed, obtained, thief>>

(* pop_top, access by access. *)
StealAge(t) ==
  /\ thief[t].pc = "idle"
  /\ thief' = [thief EXCEPT ![t].pc = "bot", ![t].age = age]
  /\ UNCHANGED <<bot, age, deq, pushed, obtained, owner, missed>>

StealBot(t) ==
  /\ thief[t].pc = "bot"
  /\ thief' = [thief EXCEPT ![t] = IF bot > thief[t].age.top
                                   THEN [@ EXCEPT !.pc = "job"] ELSE Idle]
  /\ UNCHANGED <<bot, age, deq, pushed, obtained, owner, missed>>

StealJob(t) ==
  /\ thief[t].pc = "job"
  /\ thief' = [thief EXCEPT ![t].pc = "cas", ![t].job = deq[thief[t].age.top]]
  /\ UNCHANGED <<bot, age, deq, pushed, obtained, owner, missed>>

StealCasBug(t) ==
  /\ thief[t].pc = "cas" /\ thief[t].job # NoJob
  /\ Obtain(thief[t].job) /\ age' = [age EXCEPT !.top = @ + 1]
  /\ thief' = [thief EXCEPT ![t] = Idle]
  /\ UNCHANGED <<bot, deq, pushed, owner, missed>>
StealCas(t) ==
  /\ thief[t].pc = "cas"
  /\ IF age = thief[t].age
     THEN Obtain(thief[t].job) /\ age' = [age EXCEPT !.top = @ + 1]
     ELSE UNCHANGED <<age, obtained>>
  /\ thief' = [thief EXCEPT ![t] = Idle]
  /\ UNCHANGED <<bot, deq, pushed, owner, missed>>

OwnerStep == \/ PushSlot \/ PushPublish \/ PopEmpty \/ PopClaim
             \/ PopLoadAge \/ PopReset \/ PopCas \/ PopStore
ThiefStep(t) == StealAge(t) \/ StealBot(t) \/ StealJob(t) \/ StealCas(t)
Next == OwnerStep \/ \E t \in Thieves : ThiefStep(t)

Spec == Init /\ [][Next]_vars

(* Every access of an operation the owner has begun is eventually made, and *)
(* thieves keep calling pop_top as steal_job does; the owner need not pop. *)
FairSpec == Spec /\ WF_vars(owner.pc # "idle" /\ OwnerStep) /\ \A t \in Thieves : WF_vars(ThiefStep(t))
-----------------------------------------------------------------------------
(* The jobs a pop may still return, in slot order. While the owner is      *)
(* between lowering bot and loading age, its claimed slot still counts; in *)
(* the reset it counts exactly as long as the owner's CAS would succeed.   *)
Slice(a, b) == [i \in 1..(IF b > a THEN b - a ELSE 0) |-> deq[a + i - 1]]
Contents ==
  CASE owner.pc \in {"idle", "push"}  -> Slice(age.top, bot)
    [] owner.pc = "load" -> Slice(age.top, bot + 1)
    [] owner.pc \in {"reset", "cas"} /\ owner.age = age /\ owner.bot = age.top -> <<owner.job>>
    [] OTHER -> <<>>

Abstract == INSTANCE JobDeque WITH jobs <- Contents

(* The deque is a deque: every interleaving of the owner's and the thieves' *)
(* accesses looks like atomic pushes and pops, so no job is returned twice  *)
(* and none is skipped (work_stealing_deque.h:53-113). *)
ImplementsJobDeque == Abstract!Spec

(* A job pushed is either still to be had or was returned exactly once; in *)
(* particular the reset of bot to 0 never drops one *)
(* (work_stealing_deque.h:100-107). *)
NoJobLost ==
  \A j \in 1..pushed :
    \/ owner.pc = "push" /\ j = pushed
    \/ obtained[j] = 1 /\ \A i \in 1..Len(Contents) : Contents[i] # j
    \/ obtained[j] = 0 /\ \E i \in 1..Len(Contents) : Contents[i] = j

Drained == \A j \in 1..pushed : obtained[j] = 1

(* pop_bottom returns nullptr only when every job pushed has been handed to *)
(* a thief, the case in which pardo waits instead of running the job itself.*)
MissMeansStolen ==
  missed /\ owner.pc = "idle" /\ bot = 0 => Drained

(* Nothing waits forever in the deque while thieves look for work, even if  *)
(* the owner never pops: every job pushed is eventually returned. *)
JobsDrain == []<>Drained
-----------------------------------------------------------------------------
(* The work-stealing deque is a deque, for every number of thieves, size   *)
(* of the array and number of jobs below the number of tags.               *)
(*                                                                         *)
(* The slots from age.top up to Bottom hold the jobs that can still be     *)
(* had. The argument is that of the tag: a thief that holds the current    *)
(* age has seen bot above it under this very age, because age only grows,  *)
(* lexicographically, and so the slot it read is still live when its CAS   *)
(* succeeds. Age grows because every reset is preceded by a push of its    *)
(* own, so that the tag does not come round with fewer jobs than tags.     *)

\* Fewer jobs than tags: 2^32 in the code.
NoWrap == DequeAssumption /\ NumJobs < TagMod

\* The types, but for the flag missed.
OwnerPcs == {"idle", "push", "load", "reset", "cas", "store"}
ThiefPcs == {"idle", "bot", "job", "cas"}
Locals(pcs) == [pc : pcs, bot : 0..QSize, age : Ages, job : Jobs \cup {NoJob}]
Types ==
  /\ bot \in 0..QSize /\ age \in Ages /\ deq \in [Slots -> Jobs \cup {NoJob}]
  /\ pushed \in 0..NumJobs /\ obtained \in [Jobs -> 0..1]
  /\ owner \in Locals(OwnerPcs)
  /\ thief \in [Thieves -> Locals(ThiefPcs)]

\* The owner's last push counts once it is published.
Published == IF owner.pc = "push" THEN pushed - 1 ELSE pushed

\* The slot behind the last job that a pop may still return: a slot the owner
\* has claimed is live until a thief has moved top past it.
Bottom == IF owner.pc \in {"idle", "push"} THEN bot ELSE owner.bot + 1
Live(i) == age.top <= i /\ i < Bottom

\* What the owner knows at each of its steps.
OwnerInv ==
  /\ age.top <= Bottom
  /\ owner.pc = "push" => bot < QSize /\ owner.bot = bot + 1 /\ pushed > 0 /\ deq[bot] = pushed
  /\ owner.pc \notin {"idle", "push"} => owner.bot < QSize
  /\ owner.pc \in {"load", "reset", "cas"} => owner.job = deq[owner.bot]
  /\ owner.pc \in {"load", "reset"} => bot = owner.bot
  /\ owner.pc \in {"cas", "store"} => bot = 0
  /\ owner.pc \in {"reset", "cas", "store"} =>
       /\ age.tag = owner.age.tag
       /\ owner.bot <= owner.age.top /\ owner.age.top <= age.top
  /\ owner.pc = "cas" => owner.bot = owner.age.top
  /\ owner.pc = "store" => age.top = owner.bot + 1

\* Each reset has had a push of its own.
TagInv == age.tag + (IF bot > 0 \/ owner.pc # "idle" THEN 1 ELSE 0) <= pushed

\* A thief's age is not ahead, and while it is current its slot is live.
Current(t) == thief[t].age.tag = age.tag /\ thief[t].age.top = age.top
ThiefInv ==
  \A t \in Thieves :
    /\ thief[t].pc # "idle" =>
         \/ thief[t].age.tag < age.tag
         \/ thief[t].age.tag = age.tag /\ thief[t].age.top <= age.top
    /\ thief[t].pc = "job" => thief[t].age.top < QSize
    /\ thief[t].pc \in {"job", "cas"} /\ Current(t) => age.top < Bottom
    /\ thief[t].pc = "cas" /\ Current(t) => thief[t].job = deq[age.top]

\* Live slots hold jobs in the order of the pushes ...
SlotsInv ==
  /\ \A i \in Slots : Live(i) => deq[i] \in 1..Published
  /\ \A i, j \in Slots : Live(i) /\ Live(j) /\ i < j => deq[i] < deq[j]

\* ... and a job that has been published and is not live was returned once.
Waits(j) == \E i \in Slots : Live(i) /\ deq[i] = j
JobsInv == \A j \in Jobs : obtained[j] = IF j <= Published /\ ~Waits(j) THEN 1 ELSE 0

IInv == Types /\ OwnerInv /\ TagInv /\ ThiefInv /\ SlotsInv /\ JobsInv
-----------------------------------------------------------------------------

\* The ranges that the types give, one by one.
Fields ==
  /\ bot \in 0..QSize /\ pushed \in 0..NumJobs
  /\ age.tag \in 0..(TagMod - 1) /\ age.top \in 0..QSize
  /\ owner.bot \in 0..QSize /\ owner.age.tag \in 0..(TagMod - 1) /\ owner.age.top \in 0..QSize
  /\ owner.pc \in {"idle", "push", "load", "reset", "cas", "store"}
  /\ owner.job \in 0..NumJobs /\ deq \in [Slots -> 0..NumJobs]
  /\ \A t \in Thieves : thief[t].age.tag \in 0..(TagMod - 1) /\ thief[t].age.top \in 0..QSize
                        /\ thief[t].pc \in {"idle", "bot", "job", "cas"}
LEMMA FieldTypes == ASSUME NoWrap, Types PROVE Fields
<1> USE DEF NoWrap, DequeAssumption, Types, Locals, OwnerPcs, ThiefPcs, Ages, Jobs, NoJob
<1>1. bot \in 0..QSize /\ pushed \in 0..NumJobs OBVIOUS
<1>2. age.tag \in 0..(TagMod - 1) /\ age.top \in 0..QSize OBVIOUS
<1>3. owner.bot \in 0..QSize /\ owner.age.tag \in 0..(TagMod - 1) /\ owner.age.top \in 0..QSize OBVIOUS
<1>4. owner.pc \in {"idle", "push", "load", "reset", "cas", "store"} OBVIOUS
<1>5. owner.job \in 0..NumJobs /\ deq \in [Slots -> 0..NumJobs] OBVIOUS
<1>6. \A t \in Thieves : thief[t].age.tag \in 0..(TagMod - 1) /\ thief[t].age.top \in 0..QSize
      /\ thief[t].pc \in {"idle", "bot", "job", "cas"} OBVIOUS
<1> QED BY <1>1, <1>2, <1>3, <1>4, <1>5, <1>6 DEF Fields

LEMMA IdleLocal ==
  ASSUME NoWrap
  PROVE  /\ Idle \in Locals(OwnerPcs) /\ Idle \in Locals(ThiefPcs) /\ Idle.pc = "idle"
         /\ Idle.bot = 0
<1>1. [tag |-> 0, top |-> 0] \in Ages
  BY DEF NoWrap, DequeAssumption, Ages
<1> QED BY <1>1 DEF NoWrap, DequeAssumption, Idle, Locals, OwnerPcs, ThiefPcs, NoJob

LEMMA PushSlotStep == ASSUME NoWrap, IInv, PushSlot PROVE IInv'
<1> USE DEF NoWrap, DequeAssumption
<1>a. Types /\ OwnerInv /\ TagInv /\ ThiefInv /\ SlotsInv /\ JobsInv
  BY DEF IInv
<1>b. Fields BY <1>a, FieldTypes
<1>c. /\ owner.pc = "idle" /\ pushed < NumJobs /\ bot < QSize
      /\ owner'.pc = "push" /\ owner'.bot = bot + 1
      /\ deq' = [deq EXCEPT ![bot] = pushed + 1] /\ pushed' = pushed + 1
      /\ bot' = bot /\ age' = age /\ obtained' = obtained /\ thief' = thief
  BY <1>a DEF PushSlot, Types, Locals
<1>d. /\ Bottom' = Bottom /\ Published' = Published /\ age.top <= Bottom /\ Bottom = bot
      /\ Published = pushed
      /\ \A i \in Slots : Live(i)' <=> Live(i)
      /\ \A i \in Slots : Live(i) => deq'[i] = deq[i]
      /\ deq'[bot] = pushed + 1
  BY <1>a, <1>b, <1>c DEF Fields, OwnerInv, Bottom, Published, Live, Slots
<1>1. Types'
  <2>1. owner' \in Locals(OwnerPcs)
    <3>1. owner \in Locals(OwnerPcs) /\ "push" \in OwnerPcs BY <1>a DEF Types, OwnerPcs
    <3>2. bot + 1 \in 0..QSize BY <1>b, <1>c DEF Fields
    <3> QED BY <3>1, <3>2 DEF PushSlot, Locals
  <2>2. deq' \in [Slots -> Jobs \cup {NoJob}]
    BY <1>a, <1>b, <1>c DEF Fields, Types, Slots, Jobs
  <2>3. pushed' \in 0..NumJobs BY <1>b, <1>c DEF Fields
  <2> QED BY <2>1, <2>2, <2>3, <1>a, <1>c DEF Types
<1>2. OwnerInv'
  BY <1>a, <1>b, <1>c, <1>d DEF Fields, OwnerInv, Slots
<1>3. TagInv'
  BY <1>a, <1>b, <1>c DEF Fields, TagInv
<1>4. ThiefInv'
  <2> SUFFICES ASSUME NEW t \in Thieves, thief[t].pc \in {"job", "cas"}, Current(t)
               PROVE  age.top < Bottom /\ (thief[t].pc = "cas" => thief[t].job = deq'[age.top])
    BY <1>a, <1>c, <1>d DEF ThiefInv, Current
  <2>1. age.top < Bottom /\ (thief[t].pc = "cas" => thief[t].job = deq[age.top])
    BY <1>a DEF ThiefInv
  <2>2. age.top \in Slots /\ Live(age.top) BY <2>1, <1>b, <1>d DEF Fields, Slots, Live
  <2> QED BY <2>1, <2>2, <1>d
<1>5. SlotsInv'
  BY <1>a, <1>d DEF SlotsInv
<1>6. JobsInv'
  BY <1>a, <1>c, <1>d DEF JobsInv, Waits
<1> QED BY <1>1, <1>2, <1>3, <1>4, <1>5, <1>6 DEF IInv

LEMMA PushPublishStep == ASSUME NoWrap, IInv, PushPublish PROVE IInv'
<1> USE DEF NoWrap, DequeAssumption
<1>a. Types /\ OwnerInv /\ TagInv /\ ThiefInv /\ SlotsInv /\ JobsInv
  BY DEF IInv
<1>b. Fields BY <1>a, FieldTypes
<1>c. /\ owner.pc = "push" /\ owner'.pc = "idle" /\ owner'.bot = 0
      /\ bot' = owner.bot /\ owner' = Idle
      /\ deq' = deq /\ pushed' = pushed /\ age' = age /\ obtained' = obtained /\ thief' = thief
  BY IdleLocal DEF PushPublish
<1>d. /\ bot < QSize /\ owner.bot = bot + 1 /\ pushed > 0 /\ deq[bot] = pushed
      /\ age.top <= Bottom /\ Bottom = bot /\ Bottom' = bot + 1
      /\ Published = pushed - 1 /\ Published' = pushed
      /\ \A i \in Slots : Live(i)' <=> Live(i) \/ i = bot
      /\ ~Live(bot) /\ bot \in Slots
  BY <1>a, <1>b, <1>c DEF Fields, OwnerInv, Bottom, Published, Live, Slots
<1>1. Types'
  BY <1>a, <1>b, <1>c, IdleLocal DEF Types, Fields
<1>2. OwnerInv'
  BY <1>a, <1>b, <1>c, <1>d DEF Fields, OwnerInv, Slots
<1>3. TagInv'
  BY <1>a, <1>b, <1>c, <1>d DEF Fields, TagInv
<1>4. ThiefInv'
  BY <1>a, <1>b, <1>c, <1>d DEF Fields, ThiefInv, Current
<1>5. SlotsInv'
  <2>1. \A i \in Slots : Live(i)' => deq[i] \in 1..pushed
    BY <1>a, <1>b, <1>d DEF SlotsInv, Fields
  <2>2. \A i, j \in Slots : Live(i)' /\ Live(j)' /\ i < j => deq[i] < deq[j]
    <3> SUFFICES ASSUME NEW i \in Slots, NEW j \in Slots, Live(i)', Live(j)', i < j
                 PROVE  deq[i] < deq[j]
      OBVIOUS
    <3>1. Live(i) BY <1>b, <1>d DEF Fields, Slots, Live
    <3>2. deq[i] \in 1..(pushed - 1) BY <3>1, <1>a, <1>d DEF SlotsInv
    <3> QED BY <3>1, <3>2, <1>a, <1>b, <1>d DEF SlotsInv, Fields
  <2> QED BY <2>1, <2>2, <1>c, <1>d DEF SlotsInv
<1>6. JobsInv'
  <2>1. \A j \in Jobs : Waits(j)' <=> Waits(j) \/ j = pushed
    BY <1>c, <1>d DEF Waits
  <2>2. \A j \in Jobs : Waits(j) => j <= pushed - 1
    BY <1>a, <1>d DEF SlotsInv, Waits
  <2> QED BY <2>1, <2>2, <1>a, <1>b, <1>c, <1>d DEF JobsInv, Fields, Jobs
<1> QED BY <1>1, <1>2, <1>3, <1>4, <1>5, <1>6 DEF IInv

LEMMA PopClaimStep == ASSUME NoWrap, IInv, PopClaim PROVE IInv'
<1> USE DEF NoWrap, DequeAssumption
<1>a. Types /\ OwnerInv /\ TagInv /\ ThiefInv /\ SlotsInv /\ JobsInv
  BY DEF IInv
<1>b. Fields BY <1>a, FieldTypes
<1>c. /\ owner.pc = "idle" /\ bot # 0
      /\ owner'.pc = "load" /\ owner'.bot = bot - 1 /\ owner'.job = deq[bot - 1]
      /\ deq' = deq /\ pushed' = pushed
      /\ bot' = bot - 1 /\ age' = age /\ obtained' = obtained /\ thief' = thief
  BY <1>a DEF PopClaim, Types, Locals
<1>d. /\ Bottom' = Bottom /\ Published' = Published /\ age.top <= Bottom /\ Bottom = bot
      /\ bot - 1 \in Slots
      /\ \A i \in Slots : Live(i)' <=> Live(i)
  BY <1>a, <1>b, <1>c DEF Fields, OwnerInv, Bottom, Published, Live, Slots
<1>1. Types'
  <2>1. owner' \in Locals(OwnerPcs)
    <3>1. owner \in Locals(OwnerPcs) /\ "load" \in OwnerPcs BY <1>a DEF Types, OwnerPcs
    <3>2. bot - 1 \in 0..QSize BY <1>b, <1>c DEF Fields
    <3>3. deq[bot - 1] \in Jobs \cup {NoJob} BY <1>a, <1>d DEF Types
    <3> QED BY <3>1, <3>2, <3>3 DEF PopClaim, Locals
  <2>2. bot' \in 0..QSize BY <1>b, <1>c DEF Fields
  <2> QED BY <2>1, <2>2, <1>a, <1>c DEF Types
<1>2. OwnerInv'
  BY <1>a, <1>b, <1>c, <1>d DEF Fields, OwnerInv, Slots
<1>3. TagInv'
  BY <1>a, <1>b, <1>c DEF Fields, TagInv
<1>4. ThiefInv'
  BY <1>a, <1>c, <1>d DEF ThiefInv, Current
<1>5. SlotsInv'
  BY <1>a, <1>c, <1>d DEF SlotsInv
<1>6. JobsInv'
  BY <1>a, <1>c, <1>d DEF JobsInv, Waits
<1> QED BY <1>1, <1>2, <1>3, <1>4, <1>5, <1>6 DEF IInv

\* A pop that takes the live slot k: what it leaves, and what it returns.
LEMMA Taken ==
  ASSUME NoWrap, IInv, NEW k \in Slots, Live(k), Obtain(deq[k]), deq' = deq,
         Published' = Published, \A i \in Slots : Live(i)' <=> Live(i) /\ i # k
  PROVE  /\ SlotsInv' /\ JobsInv' /\ obtained' \in [Jobs -> 0..1]
<1> USE DEF NoWrap, DequeAssumption
<1>a. Types /\ OwnerInv /\ TagInv /\ ThiefInv /\ SlotsInv /\ JobsInv
  BY DEF IInv
<1>b. Fields BY <1>a, FieldTypes
<1>1. SlotsInv'
  BY <1>a DEF SlotsInv
<1>2. Published \in 0..NumJobs
  BY <1>a, <1>b DEF Fields, OwnerInv, Published
<1>3. deq[k] \in Jobs /\ deq[k] <= Published
  BY <1>a, <1>2 DEF SlotsInv, Jobs
<1>4. \A i \in Slots : Live(i) /\ deq[i] = deq[k] => i = k
  <2> SUFFICES ASSUME NEW i \in Slots, Live(i), i # k PROVE deq[i] # deq[k]
    OBVIOUS
  <2>1. i \in Int /\ k \in Int BY DEF Slots
  <2>2. deq[i] \in 1..Published /\ (i < k => deq[i] < deq[k]) /\ (k < i => deq[k] < deq[i])
    BY <1>a DEF SlotsInv
  <2> QED BY <1>2, <1>3, <2>1, <2>2 DEF Jobs
<1>5. \A j \in Jobs : Waits(j)' <=> Waits(j) /\ j # deq[k]
  BY <1>4 DEF Waits
<1>6. Waits(deq[k]) /\ obtained[deq[k]] = 0
  BY <1>a, <1>3 DEF Waits, JobsInv
<1>7. obtained' = [obtained EXCEPT ![deq[k]] = 1]
  BY <1>6 DEF Obtain
<1>8. obtained \in [Jobs -> 0..1]
  BY <1>a DEF Types
<1>9. JobsInv'
  BY <1>a, <1>3, <1>5, <1>6, <1>7, <1>8 DEF JobsInv
<1> QED BY <1>1, <1>3, <1>7, <1>8, <1>9

LEMMA PopLoadAgeStep == ASSUME NoWrap, IInv, PopLoadAge PROVE IInv'
<1> USE DEF NoWrap, DequeAssumption
<1>a. Types /\ OwnerInv /\ TagInv /\ ThiefInv /\ SlotsInv /\ JobsInv
  BY DEF IInv
<1>b. Fields BY <1>a, FieldTypes
<1>c. /\ owner.pc = "load" /\ bot = owner.bot /\ owner.bot < QSize /\ owner.job = deq[owner.bot]
      /\ age.top <= owner.bot + 1 /\ Bottom = owner.bot + 1 /\ Published = pushed
      /\ deq' = deq /\ pushed' = pushed /\ bot' = bot /\ age' = age /\ thief' = thief
  BY <1>a, <1>b DEF PopLoadAge, Fields, OwnerInv, Bottom, Published
<1>A. CASE OutOfReach(owner.bot, age.top)
  <2>c. /\ owner.bot > age.top /\ Obtain(deq[owner.bot])
        /\ owner' = Idle /\ owner'.pc = "idle"
    BY <1>A, <1>c, IdleLocal DEF PopLoadAge, OutOfReach
  <2>d. /\ Bottom' = owner.bot /\ Published' = Published /\ owner.bot \in Slots /\ Live(owner.bot)
        /\ \A i \in Slots : Live(i)' <=> Live(i) /\ i # owner.bot
    <3>1. Bottom' = owner.bot /\ Published' = Published BY <1>c, <2>c DEF Bottom, Published
    <3>2. owner.bot \in 0..QSize /\ age.top \in 0..QSize BY <1>b DEF Fields
    <3>3. owner.bot \in Slots /\ Live(owner.bot) BY <1>c, <2>c, <3>2 DEF Live, Slots
    <3>4. \A i \in Slots : Live(i)' <=> Live(i) /\ i # owner.bot
      BY <1>c, <3>1, <3>2 DEF Live, Slots
    <3> QED BY <3>1, <3>3, <3>4
  <2>e. SlotsInv' /\ JobsInv' /\ obtained' \in [Jobs -> 0..1]
    BY <1>c, <2>c, <2>d, Taken
  <2>1. Types'
    BY <1>a, <1>c, <2>c, <2>e, IdleLocal DEF Types
  <2>2. OwnerInv'
    BY <1>b, <1>c, <2>c, <2>d DEF Fields, OwnerInv
  <2>3. TagInv'
    BY <1>a, <1>b, <1>c, <2>c DEF Fields, TagInv
  <2>4. ThiefInv'
    BY <1>a, <1>b, <1>c, <2>c, <2>d DEF ThiefInv, Current, Fields
  <2> QED BY <2>e, <2>1, <2>2, <2>3, <2>4 DEF IInv
<1>B. CASE ~OutOfReach(owner.bot, age.top)
  <2>c. /\ owner.bot <= age.top /\ obtained' = obtained
        /\ owner' = [owner EXCEPT !.pc = "reset", !.age = age]
        /\ owner'.pc = "reset" /\ owner'.bot = owner.bot /\ owner'.age = age /\ owner'.job = owner.job
    <3>1. owner.bot <= age.top BY <1>b, <1>B DEF OutOfReach, Fields
    <3>2. obtained' = obtained /\ owner' = [owner EXCEPT !.pc = "reset", !.age = age]
      BY <1>B DEF PopLoadAge
    <3>3. owner \in Locals(OwnerPcs) BY <1>a DEF Types
    <3> QED BY <3>1, <3>2, <3>3 DEF Locals
  <2>d. /\ Bottom' = Bottom /\ Published' = Published
        /\ \A i \in Slots : Live(i)' <=> Live(i)
    BY <1>c, <2>c DEF Bottom, Published, Live
  <2>1. Types'
    <3>1. owner \in Locals(OwnerPcs) /\ "reset" \in OwnerPcs /\ age \in Ages
      BY <1>a DEF Types, OwnerPcs
    <3>2. owner' \in Locals(OwnerPcs) BY <3>1, <2>c DEF Locals
    <3> QED BY <3>2, <1>a, <1>c, <2>c DEF Types
  <2>2. OwnerInv'
    BY <1>b, <1>c, <2>c, <2>d DEF Fields, OwnerInv
  <2>3. TagInv'
    BY <1>a, <1>b, <1>c, <2>c DEF Fields, TagInv
  <2>4. ThiefInv'
    BY <1>a, <1>c, <2>c, <2>d DEF ThiefInv, Current
  <2>5. SlotsInv'
    BY <1>a, <1>c, <2>d DEF SlotsInv
  <2>6. JobsInv'
    BY <1>a, <1>c, <2>c, <2>d DEF JobsInv, Waits
  <2> QED BY <2>1, <2>2, <2>3, <2>4, <2>5, <2>6 DEF IInv
<1> QED BY <1>A, <1>B

LEMMA PopResetStep == ASSUME NoWrap, IInv, PopReset PROVE IInv'
<1> USE DEF NoWrap, DequeAssumption
<1>a. Types /\ OwnerInv /\ TagInv /\ ThiefInv /\ SlotsInv /\ JobsInv
  BY DEF IInv
<1>b. Fields BY <1>a, FieldTypes
<1>c. /\ owner.pc = "reset" /\ bot' = 0
      /\ owner'.pc = IF owner.bot = owner.age.top THEN "cas" ELSE "store"
      /\ owner'.bot = owner.bot /\ owner'.age = owner.age /\ owner'.job = owner.job
      /\ deq' = deq /\ pushed' = pushed /\ age' = age /\ obtained' = obtained /\ thief' = thief
  BY <1>a DEF PopReset, Types, Locals
<1>d. /\ Bottom' = Bottom /\ Published' = Published /\ Bottom = owner.bot + 1
      /\ \A i \in Slots : Live(i)' <=> Live(i)
  BY <1>c DEF Bottom, Published, Live
<1>1. Types'
  <2>1. owner' \in Locals(OwnerPcs)
    <3>1. owner \in Locals(OwnerPcs) /\ {"cas", "store"} \subseteq OwnerPcs
      BY <1>a DEF Types, OwnerPcs
    <3> QED BY <3>1 DEF PopReset, Locals
  <2>2. bot' \in 0..QSize BY <1>c
  <2> QED BY <2>1, <2>2, <1>a, <1>c DEF Types
<1>2. OwnerInv'
  BY <1>a, <1>b, <1>c, <1>d DEF Fields, OwnerInv
<1>3. TagInv'
  BY <1>a, <1>b, <1>c DEF Fields, TagInv
<1>4. ThiefInv'
  BY <1>a, <1>c, <1>d DEF ThiefInv, Current
<1>5. SlotsInv'
  BY <1>a, <1>c, <1>d DEF SlotsInv
<1>6. JobsInv'
  BY <1>a, <1>c, <1>d DEF JobsInv, Waits
<1> QED BY <1>1, <1>2, <1>3, <1>4, <1>5, <1>6 DEF IInv

\* The reset gives a tag that no age has had: it does not wrap.
LEMMA NewTag ==
  ASSUME NoWrap, IInv, owner.pc \in {"cas", "store"}, age' = NewAge(owner.age)
  PROVE  age'.tag = age.tag + 1 /\ age'.top = 0 /\ age' \in Ages /\ age.tag + 1 <= pushed
<1> USE DEF NoWrap, DequeAssumption
<1>a. Types /\ OwnerInv /\ TagInv /\ ThiefInv /\ SlotsInv /\ JobsInv
  BY DEF IInv
<1>b. Fields BY <1>a, FieldTypes
<1>1. age.tag = owner.age.tag /\ age.tag + 1 <= pushed
  BY <1>a DEF OwnerInv, TagInv
<1>2. (owner.age.tag + 1) % TagMod = age.tag + 1 /\ age.tag + 1 \in 0..(TagMod - 1)
  BY <1>b, <1>1 DEF Fields
<1> QED BY <1>1, <1>2 DEF NewAge, Ages

LEMMA PopCasStep == ASSUME NoWrap, IInv, PopCas PROVE IInv'
<1> USE DEF NoWrap, DequeAssumption
<1>a. Types /\ OwnerInv /\ TagInv /\ ThiefInv /\ SlotsInv /\ JobsInv
  BY DEF IInv
<1>b. Fields BY <1>a, FieldTypes
<1>c. /\ owner.pc = "cas" /\ bot = 0 /\ owner.bot < QSize /\ owner.job = deq[owner.bot]
      /\ age.tag = owner.age.tag /\ owner.bot = owner.age.top /\ owner.age.top <= age.top
      /\ age.top <= Bottom /\ Bottom = owner.bot + 1 /\ Published = pushed
      /\ deq' = deq /\ pushed' = pushed /\ bot' = bot /\ thief' = thief
  BY <1>a, <1>b DEF PopCas, Fields, OwnerInv, Bottom, Published
<1>A. CASE age = owner.age
  <2>c. /\ Obtain(deq[owner.bot]) /\ age' = NewAge(owner.age)
        /\ owner' = Idle /\ owner'.pc = "idle"
    BY <1>A, <1>c, IdleLocal DEF PopCas
  <2>d. age'.tag = age.tag + 1 /\ age'.top = 0 /\ age' \in Ages /\ age.tag + 1 <= pushed
    BY <1>c, <2>c, NewTag
  <2>e. /\ Bottom' = 0 /\ Published' = Published /\ owner.bot \in Slots /\ Live(owner.bot)
        /\ \A i \in Slots : Live(i)' <=> Live(i) /\ i # owner.bot
    <3>1. Bottom' = 0 /\ Published' = Published BY <1>c, <2>c DEF Bottom, Published
    <3>2. owner.bot \in 0..QSize /\ age.top = owner.bot BY <1>A, <1>b, <1>c DEF Fields
    <3>3. owner.bot \in Slots /\ Live(owner.bot) BY <1>c, <3>2 DEF Live, Slots
    <3>4. \A i \in Slots : Live(i)' <=> Live(i) /\ i # owner.bot
      BY <1>c, <2>d, <3>1, <3>2 DEF Live, Slots
    <3> QED BY <3>1, <3>3, <3>4
  <2>f. SlotsInv' /\ JobsInv' /\ obtained' \in [Jobs -> 0..1]
    BY <1>c, <2>c, <2>e, Taken
  <2>1. Types'
    BY <1>a, <1>c, <2>c, <2>d, <2>f, IdleLocal DEF Types
  <2>2. OwnerInv'
    BY <1>b, <1>c, <2>c, <2>d, <2>e DEF Fields, OwnerInv
  <2>3. TagInv'
    BY <1>b, <1>c, <2>c, <2>d DEF Fields, TagInv
  <2>4. ThiefInv'
    BY <1>a, <1>b, <1>c, <2>c, <2>d DEF ThiefInv, Current, Fields
  <2> QED BY <2>f, <2>1, <2>2, <2>3, <2>4 DEF IInv
<1>B. CASE age # owner.age
  <2>b. owner.age.top # age.top
    <3>1. age \in Ages /\ owner.age \in Ages BY <1>a DEF Types, Locals
    <3> QED BY <3>1, <1>B, <1>c DEF Ages
  <2>c. /\ age' = age /\ obtained' = obtained /\ owner' = [owner EXCEPT !.pc = "store"]
        /\ owner'.pc = "store" /\ owner'.bot = owner.bot /\ owner'.age = owner.age
    BY <1>a, <1>B DEF PopCas, Types, Locals
  <2>d. /\ Bottom' = Bottom /\ Published' = Published
        /\ \A i \in Slots : Live(i)' <=> Live(i)
    BY <1>c, <2>c DEF Bottom, Published, Live
  <2>1. Types'
    <3>1. owner \in Locals(OwnerPcs) /\ "store" \in OwnerPcs BY <1>a DEF Types, OwnerPcs
    <3>2. owner' \in Locals(OwnerPcs) BY <3>1, <2>c DEF Locals
    <3> QED BY <3>2, <1>a, <1>c, <2>c DEF Types
  <2>2. OwnerInv'
    BY <1>b, <1>c, <2>b, <2>c, <2>d DEF Fields, OwnerInv
  <2>3. TagInv'
    BY <1>a, <1>b, <1>c, <2>c DEF Fields, TagInv
  <2>4. ThiefInv'
    BY <1>a, <1>c, <2>c, <2>d DEF ThiefInv, Current
  <2>5. SlotsInv'
    BY <1>a, <1>c, <2>d DEF SlotsInv
  <2>6. JobsInv'
    BY <1>a, <1>c, <2>c, <2>d DEF JobsInv, Waits
  <2> QED BY <2>1, <2>2, <2>3, <2>4, <2>5, <2>6 DEF IInv
<1> QED BY <1>A, <1>B

LEMMA PopStoreStep == ASSUME NoWrap, IInv, PopStore PROVE IInv'
<1> USE DEF NoWrap, DequeAssumption
<1>a. Types /\ OwnerInv /\ TagInv /\ ThiefInv /\ SlotsInv /\ JobsInv
  BY DEF IInv
<1>b. Fields BY <1>a, FieldTypes
<1>c. /\ owner.pc = "store" /\ bot = 0 /\ Published = pushed
      /\ age.top = owner.bot + 1 /\ Bottom = owner.bot + 1
      /\ owner' = Idle /\ owner'.pc = "idle" /\ age' = NewAge(owner.age)
      /\ deq' = deq /\ pushed' = pushed /\ bot' = bot /\ thief' = thief /\ obtained' = obtained
  BY <1>a, IdleLocal DEF PopStore, OwnerInv, Bottom, Published
<1>d. age'.tag = age.tag + 1 /\ age'.top = 0 /\ age' \in Ages /\ age.tag + 1 <= pushed
  BY <1>c, NewTag
<1>e. /\ Bottom' = 0 /\ Published' = Published
      /\ \A i \in Slots : ~Live(i) /\ ~Live(i)'
  BY <1>b, <1>c, <1>d DEF Fields, Bottom, Published, Live, Slots
<1>1. Types'
  BY <1>a, <1>c, <1>d, IdleLocal DEF Types
<1>2. OwnerInv'
  BY <1>b, <1>c, <1>d, <1>e DEF Fields, OwnerInv
<1>3. TagInv'
  BY <1>b, <1>c, <1>d DEF Fields, TagInv
<1>4. ThiefInv'
  BY <1>a, <1>b, <1>c, <1>d DEF ThiefInv, Current, Fields
<1>5. SlotsInv'
  BY <1>e DEF SlotsInv
<1>6. JobsInv'
  BY <1>a, <1>c, <1>e DEF JobsInv, Waits
<1> QED BY <1>1, <1>2, <1>3, <1>4, <1>5, <1>6 DEF IInv

\* A step of a thief that only changes its own locals.
LEMMA LocalStep ==
  ASSUME NoWrap, IInv, UNCHANGED <<bot, age, deq, pushed, obtained, owner>>,
         thief' \in [Thieves -> Locals(ThiefPcs)], ThiefInv'
  PROVE  IInv'
<1>1. Types' BY DEF IInv, Types
<1>2. OwnerInv' BY DEF IInv, OwnerInv, Bottom
<1>3. TagInv' BY DEF IInv, TagInv
<1>4. SlotsInv' BY DEF IInv, SlotsInv, Live, Bottom, Published
<1>5. JobsInv' BY DEF IInv, JobsInv, Waits, Live, Bottom, Published
<1> QED BY <1>1, <1>2, <1>3, <1>4, <1>5 DEF IInv

LEMMA StealAgeStep == ASSUME NoWrap, IInv, NEW t \in Thieves, StealAge(t) PROVE IInv'
<1> USE DEF NoWrap, DequeAssumption
<1>a. Types /\ OwnerInv /\ TagInv /\ ThiefInv /\ SlotsInv /\ JobsInv
  BY DEF IInv
<1>b. Fields BY <1>a, FieldTypes
<1>c. /\ thief \in [Thieves -> Locals(ThiefPcs)] /\ thief[t] \in Locals(ThiefPcs)
      /\ UNCHANGED <<bot, age, deq, pushed, obtained, owner>>
  BY <1>a DEF Types, StealAge
<1>d. /\ thief' = [thief EXCEPT ![t] = thief'[t]]
      /\ thief'[t] = [thief[t] EXCEPT !.pc = "bot", !.age = age]
  BY <1>c DEF StealAge
<1>e. /\ thief'[t].pc = "bot" /\ thief'[t].age = age
      /\ thief'[t] \in Locals(ThiefPcs)
  <2>1. age \in Ages /\ "bot" \in ThiefPcs BY <1>a DEF Types, ThiefPcs
  <2> QED BY <1>c, <1>d, <2>1 DEF Locals
<1>1. thief' \in [Thieves -> Locals(ThiefPcs)]
  BY <1>c, <1>d, <1>e
<1>2. ThiefInv'
  <2>1. Bottom' = Bottom BY <1>c DEF Bottom
  <2>2. \A u \in Thieves : u # t => thief'[u] = thief[u] BY <1>c, <1>d
  <2> QED BY <1>a, <1>b, <1>c, <1>e, <2>1, <2>2 DEF ThiefInv, Current, Fields
<1> QED BY <1>c, <1>1, <1>2, LocalStep

LEMMA StealBotStep == ASSUME NoWrap, IInv, NEW t \in Thieves, StealBot(t) PROVE IInv'
<1> USE DEF NoWrap, DequeAssumption
<1>a. Types /\ OwnerInv /\ TagInv /\ ThiefInv /\ SlotsInv /\ JobsInv
  BY DEF IInv
<1>b. Fields BY <1>a, FieldTypes
<1>c. /\ thief \in [Thieves -> Locals(ThiefPcs)] /\ thief[t] \in Locals(ThiefPcs)
      /\ thief[t].pc = "bot" /\ UNCHANGED <<bot, age, deq, pushed, obtained, owner>>
  BY <1>a DEF Types, StealBot
<1>d. /\ thief' = [thief EXCEPT ![t] = thief'[t]]
      /\ thief'[t] = IF bot > thief[t].age.top THEN [thief[t] EXCEPT !.pc = "job"] ELSE Idle
  BY <1>c DEF StealBot
<1>e. \/ /\ bot > thief[t].age.top
         /\ thief'[t].pc = "job" /\ thief'[t].age = thief[t].age /\ thief'[t] \in Locals(ThiefPcs)
      \/ thief'[t].pc = "idle" /\ thief'[t] \in Locals(ThiefPcs)
  <2>1. "job" \in ThiefPcs BY DEF ThiefPcs
  <2>2. CASE bot > thief[t].age.top BY <1>c, <1>d, <2>1, <2>2 DEF Locals
  <2>3. CASE ~(bot > thief[t].age.top) BY <1>d, <2>3, IdleLocal
  <2> QED BY <2>2, <2>3
<1>f. bot <= Bottom
  BY <1>a, <1>b DEF OwnerInv, Bottom, Fields
<1>1. thief' \in [Thieves -> Locals(ThiefPcs)]
  BY <1>c, <1>d, <1>e
<1>2. ThiefInv'
  <2>1. Bottom' = Bottom BY <1>c DEF Bottom
  <2>2. \A u \in Thieves : u # t => thief'[u] = thief[u] BY <1>c, <1>d
  <2>3. Bottom \in Int BY <1>b DEF Bottom, Fields
  <2> QED BY <1>a, <1>b, <1>c, <1>e, <1>f, <2>1, <2>2, <2>3 DEF ThiefInv, Current, Fields
<1> QED BY <1>c, <1>1, <1>2, LocalStep

LEMMA StealJobStep == ASSUME NoWrap, IInv, NEW t \in Thieves, StealJob(t) PROVE IInv'
<1> USE DEF NoWrap, DequeAssumption
<1>a. Types /\ OwnerInv /\ TagInv /\ ThiefInv /\ SlotsInv /\ JobsInv
  BY DEF IInv
<1>b. Fields BY <1>a, FieldTypes
<1>c. /\ thief \in [Thieves -> Locals(ThiefPcs)] /\ thief[t] \in Locals(ThiefPcs)
      /\ thief[t].pc = "job" /\ UNCHANGED <<bot, age, deq, pushed, obtained, owner>>
  BY <1>a DEF Types, StealJob
<1>d. /\ thief' = [thief EXCEPT ![t] = thief'[t]]
      /\ thief'[t] = [thief[t] EXCEPT !.pc = "cas", !.job = deq[thief[t].age.top]]
  BY <1>c DEF StealJob
<1>e. /\ thief'[t].pc = "cas" /\ thief'[t].age = thief[t].age
      /\ thief'[t].job = deq[thief[t].age.top] /\ thief'[t] \in Locals(ThiefPcs)
  <2>a. thief[t].age.top < QSize BY <1>a, <1>c DEF ThiefInv
  <2>b. thief[t].age.top \in 0..QSize BY <1>b DEF Fields
  <2>1. thief[t].age.top \in Slots BY <2>a, <2>b DEF Slots
  <2>2. deq[thief[t].age.top] \in Jobs \cup {NoJob} /\ "cas" \in ThiefPcs
    BY <1>a, <2>1 DEF Types, ThiefPcs
  <2> QED BY <1>c, <1>d, <2>2 DEF Locals
<1>1. thief' \in [Thieves -> Locals(ThiefPcs)]
  BY <1>c, <1>d, <1>e
<1>2. ThiefInv'
  <2>1. Bottom' = Bottom BY <1>c DEF Bottom
  <2>2. \A u \in Thieves : u # t => thief'[u] = thief[u] BY <1>c, <1>d
  <2> QED BY <1>a, <1>b, <1>c, <1>e, <2>1, <2>2 DEF ThiefInv, Current, Fields
<1> QED BY <1>c, <1>1, <1>2, LocalStep

LEMMA StealCasStep == ASSUME NoWrap, IInv, NEW t \in Thieves, StealCas(t) PROVE IInv'
<1> USE DEF NoWrap, DequeAssumption
<1>a. Types /\ OwnerInv /\ TagInv /\ ThiefInv /\ SlotsInv /\ JobsInv
  BY DEF IInv
<1>b. Fields BY <1>a, FieldTypes
<1>c. /\ thief \in [Thieves -> Locals(ThiefPcs)] /\ thief[t].pc = "cas"
      /\ thief' = [thief EXCEPT ![t] = Idle] /\ UNCHANGED <<bot, deq, pushed, owner>>
  BY <1>a DEF Types, StealCas
<1>d. /\ thief' \in [Thieves -> Locals(ThiefPcs)] /\ thief'[t].pc = "idle"
      /\ \A u \in Thieves : u # t => thief'[u] = thief[u]
  BY <1>c, IdleLocal
<1>A. CASE age = thief[t].age
  <2>c. /\ Current(t) /\ age.top < Bottom /\ thief[t].job = deq[age.top]
    BY <1>A, <1>a, <1>c DEF ThiefInv, Current
  <2>d. /\ Obtain(deq[age.top]) /\ age' = [age EXCEPT !.top = @ + 1]
        /\ age'.tag = age.tag /\ age'.top = age.top + 1
    BY <1>A, <1>a, <2>c DEF StealCas, Types, Ages
  <2>e. /\ Bottom' = Bottom /\ Published' = Published /\ Bottom \in 0..QSize
        /\ age.top \in Slots /\ Live(age.top)
        /\ \A i \in Slots : Live(i)' <=> Live(i) /\ i # age.top
    <3>1. Bottom' = Bottom /\ Published' = Published BY <1>c DEF Bottom, Published
    <3>2. Bottom \in 0..QSize BY <1>a, <1>b DEF Bottom, OwnerInv, Fields
    <3>3. age.top \in 0..QSize BY <1>b DEF Fields
    <3>4. age.top \in Slots /\ Live(age.top) BY <2>c, <3>2, <3>3 DEF Live, Slots
    <3>5. \A i \in Slots : Live(i)' <=> Live(i) /\ i # age.top
      BY <2>d, <3>1, <3>2, <3>3 DEF Live, Slots
    <3> QED BY <3>1, <3>2, <3>4, <3>5
  <2>f. SlotsInv' /\ JobsInv' /\ obtained' \in [Jobs -> 0..1]
    BY <1>c, <2>d, <2>e, Taken
  <2>1. Types'
    <3>1. age' \in Ages
      <4>1. age \in Ages /\ age.top + 1 \in 0..QSize BY <1>a, <1>b, <2>c, <2>e DEF Types, Fields
      <4> QED BY <4>1, <2>d DEF Ages
    <3> QED BY <3>1, <1>a, <1>c, <1>d, <2>f DEF Types
  <2>2. OwnerInv'
    <3>1. owner' = owner /\ bot' = bot /\ deq' = deq /\ pushed' = pushed BY <1>c
    <3>2. owner.pc # "store" BY <1>a, <1>b, <2>c DEF OwnerInv, Bottom, Fields
    <3> QED BY <1>a, <1>b, <2>c, <2>d, <2>e, <3>1, <3>2 DEF OwnerInv, Fields
  <2>3. TagInv'
    BY <1>a, <1>c, <2>d DEF TagInv
  <2>4. ThiefInv'
    BY <1>a, <1>b, <1>c, <1>d, <2>d, <2>e DEF ThiefInv, Current, Fields
  <2> QED BY <2>f, <2>1, <2>2, <2>3, <2>4 DEF IInv
<1>B. CASE age # thief[t].age
  <2>1. UNCHANGED <<bot, age, deq, pushed, obtained, owner>>
    BY <1>B, <1>c DEF StealCas
  <2>2. Bottom' = Bottom BY <2>1 DEF Bottom
  <2>3. ThiefInv'
    BY <1>a, <1>d, <2>1, <2>2 DEF ThiefInv, Current
  <2> QED BY <1>d, <2>1, <2>3, LocalStep
<1> QED BY <1>A, <1>B

LEMMA IInvInit == ASSUME NoWrap, Init PROVE IInv
<1> USE DEF NoWrap, DequeAssumption, Init
<1>1. Idle.pc = "idle" /\ Idle \in Locals(OwnerPcs) /\ Idle \in Locals(ThiefPcs)
  BY IdleLocal
<1>2. Types
  <2>1. age \in Ages BY DEF Ages
  <2> QED BY <1>1, <2>1 DEF Types, NoJob
<1>3. OwnerInv BY <1>1 DEF OwnerInv, Bottom
<1>4. TagInv BY <1>1 DEF TagInv
<1>5. ThiefInv BY <1>1 DEF ThiefInv
<1>6. \A i \in Slots : ~Live(i) BY <1>1 DEF Live, Bottom, Slots
<1>7. SlotsInv BY <1>6 DEF SlotsInv
<1>8. JobsInv BY <1>6, <1>1 DEF JobsInv, Waits, Published, Jobs
<1> QED BY <1>2, <1>3, <1>4, <1>5, <1>7, <1>8 DEF IInv

LEMMA IInvStep == ASSUME NoWrap, IInv, [Next]_vars PROVE IInv'
<1>1. CASE PushSlot BY <1>1, PushSlotStep
<1>2. CASE PushPublish BY <1>2, PushPublishStep
<1>3. CASE PopEmpty \/ UNCHANGED vars
  <2>1. UNCHANGED <<bot, age, deq, pushed, obtained, owner, thief>> BY <1>3 DEF PopEmpty, vars
  <2>2. thief' \in [Thieves -> Locals(ThiefPcs)] /\ ThiefInv'
    BY <2>1 DEF IInv, Types, ThiefInv, Current, Bottom
  <2> QED BY <2>1, <2>2, LocalStep
<1>4. CASE PopClaim BY <1>4, PopClaimStep
<1>5. CASE PopLoadAge BY <1>5, PopLoadAgeStep
<1>6. CASE PopReset BY <1>6, PopResetStep
<1>7. CASE PopCas BY <1>7, PopCasStep
<1>8. CASE PopStore BY <1>8, PopStoreStep
<1>9. ASSUME NEW t \in Thieves, ThiefStep(t) PROVE IInv'
  BY <1>9, StealAgeStep, StealBotStep, StealJobStep, StealCasStep DEF ThiefStep
<1> QED BY <1>1, <1>2, <1>3, <1>4, <1>5, <1>6, <1>7, <1>8, <1>9 DEF Next, OwnerStep

LEMMA MissedStep == ASSUME missed \in BOOLEAN, [Next]_vars PROVE missed' \in BOOLEAN
BY DEF Next, OwnerStep, ThiefStep, PushSlot, PushPublish, PopEmpty, PopClaim, PopLoadAge, PopReset,
       PopCas, PopStore, StealAge, StealBot, StealJob, StealCas, vars

LEMMA IInvAlways == ASSUME NoWrap PROVE Spec => []IInv
<1>1. Init => IInv BY IInvInit
<1>2. IInv /\ [Next]_vars => IInv' BY IInvStep
<1> QED BY <1>1, <1>2, PTL DEF Spec

(* The deque's variables keep their types; in particular no job is returned *)
(* twice.                                                                    *)
THEOREM TypeCorrect == ASSUME NoWrap PROVE Spec => []TypeOK
<1>1. Init => missed \in BOOLEAN BY DEF Init
<1>2. missed \in BOOLEAN /\ [Next]_vars => (missed \in BOOLEAN)' BY MissedStep
<1>3. IInv /\ missed \in BOOLEAN => TypeOK
  BY DEF IInv, Types, TypeOK, Locals, OwnerPcs, ThiefPcs
<1> QED BY <1>1, <1>2, <1>3, IInvAlways, PTL DEF Spec

-----------------------------------------------------------------------------
\* The abstract jobs are those of the live slots, in order.
ContentsInv ==
  /\ Contents \in Seq(Jobs) /\ Len(Contents) = Bottom - age.top
  /\ \A i \in 1..Len(Contents) : Contents[i] = deq[age.top + i - 1]

LEMMA SliceProperties ==
  ASSUME NEW a \in Int, NEW b \in Int, a <= b, \A i \in a..(b - 1) : deq[i] \in Jobs
  PROVE  /\ Slice(a, b) \in Seq(Jobs) /\ Len(Slice(a, b)) = b - a
         /\ \A i \in 1..(b - a) : Slice(a, b)[i] = deq[a + i - 1]
<1> DEFINE n == b - a
<1>1. n \in Nat /\ Slice(a, b) = [i \in 1..n |-> deq[a + i - 1]]
  BY DEF Slice
<1>2. \A i \in 1..n : deq[a + i - 1] \in Jobs
  OBVIOUS
<1>3. Slice(a, b) \in Seq(Jobs) /\ Len(Slice(a, b)) = n
  BY <1>1, <1>2, IsASeq
<1> QED BY <1>1, <1>3

LEMMA LiveRange ==
  ASSUME NoWrap, IInv
  PROVE  /\ QSize \in Nat /\ NumJobs \in Nat /\ age.top \in Int /\ Bottom \in Int
         /\ age.top >= 0 /\ Bottom <= QSize /\ age.top <= Bottom
         /\ Published \in 0..NumJobs /\ pushed \in 0..NumJobs
<1>1. Fields /\ OwnerInv BY FieldTypes DEF IInv
<1>2. QSize \in Nat /\ NumJobs \in Nat BY DEF NoWrap, DequeAssumption
<1> QED BY <1>1, <1>2 DEF OwnerInv, Bottom, Published, Fields

\* The i-th job of the contents is in a live slot.
LEMMA ContentsLive ==
  ASSUME NoWrap, IInv, ContentsInv, NEW i \in 1..Len(Contents)
  PROVE  age.top + i - 1 \in Slots /\ Live(age.top + i - 1)
<1>1. Len(Contents) = Bottom - age.top BY DEF ContentsInv
<1>2. /\ QSize \in Nat /\ age.top \in Int /\ Bottom \in Int /\ age.top >= 0
      /\ Bottom <= QSize /\ age.top <= Bottom
  BY LiveRange
<1>3. i \in Int /\ 1 <= i /\ i <= Bottom - age.top BY <1>1, <1>2
<1> QED BY <1>2, <1>3 DEF Live, Slots

LEMMA ContentsMapped == ASSUME NoWrap PROVE IInv => ContentsInv
<1> SUFFICES ASSUME IInv PROVE ContentsInv
  OBVIOUS
<1> USE DEF NoWrap, DequeAssumption
<1>a. Types /\ OwnerInv /\ TagInv /\ ThiefInv /\ SlotsInv /\ JobsInv
  BY DEF IInv
<1>b. Fields BY <1>a, FieldTypes
<1>c. /\ age.top \in 0..QSize /\ Bottom \in 0..QSize /\ age.top <= Bottom
      /\ Published \in 0..NumJobs
  BY <1>a, <1>b DEF OwnerInv, Bottom, Published, Fields
<1>d. \A i \in age.top..(Bottom - 1) : deq[i] \in Jobs
  BY <1>a, <1>c DEF SlotsInv, Live, Slots, Jobs
<1>e. Contents = Slice(age.top, Bottom) => ContentsInv
  <2>1. /\ Slice(age.top, Bottom) \in Seq(Jobs)
        /\ Len(Slice(age.top, Bottom)) = Bottom - age.top
        /\ \A i \in 1..(Bottom - age.top) : Slice(age.top, Bottom)[i] = deq[age.top + i - 1]
    <3>1. age.top \in Int /\ Bottom \in Int /\ age.top <= Bottom BY <1>c
    <3> HIDE DEF NoWrap, DequeAssumption
    <3> QED BY <3>1, <1>d, SliceProperties
  <2> SUFFICES ASSUME Contents = Slice(age.top, Bottom) PROVE ContentsInv
    OBVIOUS
  <2>2. /\ Contents \in Seq(Jobs) /\ Len(Contents) = Bottom - age.top
        /\ \A i \in 1..(Bottom - age.top) : Contents[i] = deq[age.top + i - 1]
    BY <2>1
  <2> QED BY <2>2 DEF ContentsInv
<1>1. CASE owner.pc \in {"idle", "push", "load"}
  BY <1>1, <1>a, <1>e DEF Contents, Bottom, OwnerInv
<1>2. CASE owner.pc \in {"reset", "cas", "store"}
  <2>1. Bottom = owner.bot + 1 BY <1>2 DEF Bottom
  <2>2. CASE owner.pc \in {"reset", "cas"} /\ owner.age = age /\ owner.bot = age.top
    <3>1. Contents = <<owner.job>> /\ owner.job = deq[age.top]
      BY <1>a, <2>2 DEF Contents, OwnerInv
    <3>2. owner.job \in Jobs BY <1>c, <1>d, <2>1, <2>2, <3>1
    <3> QED BY <1>c, <2>1, <2>2, <3>1, <3>2 DEF ContentsInv
  <2>3. CASE ~(owner.pc \in {"reset", "cas"} /\ owner.age = age /\ owner.bot = age.top)
    <3>1. Contents = <<>> BY <1>2, <2>3 DEF Contents
    <3>2. age.top = Bottom
      <4>1. age \in Ages /\ owner.age \in Ages BY <1>a DEF Types, Locals
      <4>2. owner.age.tag = age.tag /\ owner.age.top = age.top => owner.age = age BY <4>1 DEF Ages
      <4> QED BY <1>2, <1>a, <1>b, <1>c, <2>1, <2>3, <4>2 DEF OwnerInv, Fields
    <3> QED BY <3>1, <3>2, <1>c DEF ContentsInv
  <2> QED BY <2>2, <2>3
<1> QED BY <1>1, <1>2, <1>b DEF Fields

(* A job that was pushed is to be had or was returned exactly once: the reset *)
(* of bot to 0, and the race for the last job, lose none                     *)
(* (work_stealing_deque.h:88-113).                                           *)
THEOREM JobsConserved == ASSUME NoWrap PROVE Spec => []NoJobLost
<1>1. IInv /\ ContentsInv => NoJobLost
  <2> SUFFICES ASSUME IInv, ContentsInv, NEW j \in 1..pushed, ~(owner.pc = "push" /\ j = pushed)
               PROVE  \/ obtained[j] = 1 /\ \A i \in 1..Len(Contents) : Contents[i] # j
                      \/ obtained[j] = 0 /\ \E i \in 1..Len(Contents) : Contents[i] = j
    BY DEF NoJobLost
  <2>a. Types /\ OwnerInv /\ JobsInv /\ Fields /\ NumJobs \in Nat /\ QSize \in Nat
    BY FieldTypes DEF IInv, NoWrap, DequeAssumption
  <2>1. j \in Jobs /\ j <= Published
    BY <2>a DEF Fields, Published, Jobs
  <2>2. Waits(j) => \E i \in 1..Len(Contents) : Contents[i] = j
    <3> SUFFICES ASSUME NEW k \in Slots, Live(k), deq[k] = j
                 PROVE  \E i \in 1..Len(Contents) : Contents[i] = j
      BY DEF Waits
    <3>1. k - age.top + 1 \in 1..Len(Contents)
      <4>1. Len(Contents) = Bottom - age.top BY DEF ContentsInv
      <4>2. age.top \in Int /\ Bottom \in Int BY LiveRange
      <4>3. k \in Int /\ age.top <= k /\ k < Bottom BY DEF Live, Slots
      <4> QED BY <4>1, <4>2, <4>3
    <3>2. Contents[k - age.top + 1] = deq[age.top + (k - age.top + 1) - 1]
      BY <3>1 DEF ContentsInv
    <3>3. age.top + (k - age.top + 1) - 1 = k
      BY <2>a DEF Fields, Slots
    <3> QED BY <3>1, <3>2, <3>3
  <2>3. ASSUME NEW i \in 1..Len(Contents), Contents[i] = j PROVE Waits(j)
    <3>1. age.top + i - 1 \in Slots /\ Live(age.top + i - 1)
      BY ContentsLive
    <3> QED BY <3>1, <2>3 DEF ContentsInv, Waits
  <2> QED BY <2>a, <2>1, <2>2, <2>3 DEF JobsInv
<1> QED BY <1>1, IInvAlways, ContentsMapped, PTL

(* When pop_bottom has returned nullptr every job pushed is with a thief, so *)
(* that pardo is right to wait for its job (work_stealing_deque.h:80-83,     *)
(* 108-110).                                                                 *)
THEOREM MissesStolen == ASSUME NoWrap PROVE Spec => []MissMeansStolen
<1>1. IInv => MissMeansStolen
  <2> SUFFICES ASSUME IInv, owner.pc = "idle", bot = 0, NEW j \in 1..pushed PROVE obtained[j] = 1
    BY DEF MissMeansStolen, Drained
  <2>1. Fields /\ NumJobs \in Nat BY FieldTypes DEF IInv, NoWrap, DequeAssumption
  <2>2. ~Waits(j) BY <2>1 DEF Waits, Live, Bottom, Slots, Fields
  <2>3. j \in Jobs /\ j <= Published BY <2>1 DEF Fields, Jobs, Published
  <2> QED BY <2>2, <2>3 DEF IInv, JobsInv
<1> QED BY <1>1, IInvAlways, PTL
-----------------------------------------------------------------------------
\* A step that leaves the live slots alone is a stuttering step.
LEMMA Stuttering ==
  ASSUME NoWrap, IInv, ContentsInv, ContentsInv', obtained' = obtained, Bottom' = Bottom, age' = age,
         \A i \in Slots : Live(i) => deq'[i] = deq[i]
  PROVE  UNCHANGED Abstract!jobDequeVars
<1> USE DEF NoWrap, DequeAssumption
<1>1. Fields /\ OwnerInv BY FieldTypes DEF IInv
<1>2. Len(Contents') = Len(Contents) /\ Contents \in Seq(Jobs) /\ Contents' \in Seq(Jobs)
  BY DEF ContentsInv
<1>3. ASSUME NEW i \in 1..Len(Contents) PROVE Contents'[i] = Contents[i]
  <2>1. age.top + i - 1 \in Slots /\ Live(age.top + i - 1)
    BY ContentsLive
  <2> QED BY <2>1, <1>2 DEF ContentsInv
<1>4. Contents' = Contents BY <1>2, <1>3, SeqEqual
<1> QED BY <1>4 DEF Abstract!jobDequeVars

\* The linearization points: PushPublish for a push, ...
LEMMA PublishIsPush ==
  ASSUME NoWrap, IInv, ContentsInv, ContentsInv', PushPublish PROVE Abstract!Next
<1> USE DEF NoWrap, DequeAssumption
<1>1. Fields /\ OwnerInv BY FieldTypes DEF IInv
<1>2. /\ owner.pc = "push" /\ Bottom = bot /\ Bottom' = bot + 1 /\ deq' = deq /\ age' = age
      /\ deq[bot] = pushed /\ pushed \in Jobs /\ obtained' = obtained /\ age.top <= bot
  BY <1>1, IdleLocal DEF PushPublish, Fields, OwnerInv, Bottom, Jobs
<1>3. Contents' = Append(Contents, pushed)
  <2>1. /\ Contents \in Seq(Jobs) /\ Contents' \in Seq(Jobs) /\ Append(Contents, pushed) \in Seq(Jobs)
        /\ Len(Contents') = Len(Append(Contents, pushed)) /\ Len(Contents') = Len(Contents) + 1
        /\ Len(Contents) = bot - age.top /\ Len(Contents) \in Nat
    BY <1>1, <1>2, AppendProperties, LenProperties DEF ContentsInv, Fields
  <2>2. ASSUME NEW i \in 1..Len(Contents') PROVE Contents'[i] = Append(Contents, pushed)[i]
    <3>1. CASE i \in 1..Len(Contents)
      <4>1. Contents'[i] = deq[age.top + i - 1] BY <1>2 DEF ContentsInv
      <4>2. Contents[i] = deq[age.top + i - 1] BY <3>1 DEF ContentsInv
      <4>3. Append(Contents, pushed)[i] = Contents[i] BY <1>2, <2>1, <3>1, AppendProperties
      <4> QED BY <4>1, <4>2, <4>3
    <3>2. CASE i = Len(Contents) + 1
      <4>a. bot \in Int /\ age.top \in Int BY <1>2, LiveRange
      <4>b. i = (bot - age.top) + 1 BY <2>1, <3>2
      <4>1. age.top + i - 1 = bot BY <4>a, <4>b
      <4>2. Contents'[i] = deq[bot] BY <1>2, <4>1 DEF ContentsInv
      <4> QED BY <1>2, <2>1, <3>2, <4>2, AppendProperties
    <3> QED BY <2>1, <3>1, <3>2
  <2> QED BY <2>1, <2>2, SeqEqual
<1> QED BY <1>2, <1>3 DEF Abstract!Next, Abstract!PushBottom

\* ... the load of age, or the CAS, for a pop at the bottom, ...
LEMMA TakenAtBottom ==
  ASSUME NoWrap, IInv, ContentsInv, ContentsInv', age.top < Bottom, Obtain(deq[Bottom - 1]),
         deq' = deq, Bottom' - age'.top = Bottom - 1 - age.top,
         age' = age \/ Bottom - 1 = age.top
  PROVE  Abstract!Next
<1> USE DEF NoWrap, DequeAssumption
<1>1. Fields /\ OwnerInv BY FieldTypes DEF IInv
<1>2. Bottom \in Int /\ age.top \in Int BY <1>1 DEF Fields, Bottom
<1>3. /\ Contents \in Seq(Jobs) /\ Contents' \in Seq(Jobs) /\ Contents # <<>>
      /\ Len(Contents) = Bottom - age.top /\ Len(Contents') = Len(Contents) - 1
      /\ Len(Contents) \in Nat /\ Len(Contents) > 0
  BY <1>2 DEF ContentsInv
<1>4. Contents[Len(Contents)] = deq[Bottom - 1]
  <2>1. age.top + Len(Contents) - 1 = Bottom - 1 /\ Len(Contents) \in 1..Len(Contents)
    BY <1>2, <1>3
  <2> QED BY <2>1 DEF ContentsInv
<1>5. Contents' = SubSeq(Contents, 1, Len(Contents) - 1)
  <2> DEFINE s == SubSeq(Contents, 1, Len(Contents) - 1)
  <2>1. s \in Seq(Jobs) /\ Len(s) = Len(Contents) - 1
        /\ \A i \in 1..Len(s) : s[i] = Contents[i]
    BY <1>3, SubSeqProperties
  <2> HIDE DEF s
  <2>2. ASSUME NEW i \in 1..Len(s) PROVE Contents'[i] = s[i]
    <3>1. i \in 1..Len(Contents') /\ i \in 1..Len(Contents) BY <1>3, <2>1
    <3>2. age' = age BY <1>2, <1>3, <3>1
    <3>3. Contents'[i] = deq[age.top + i - 1] BY <3>1, <3>2 DEF ContentsInv
    <3>4. Contents[i] = deq[age.top + i - 1] BY <3>1 DEF ContentsInv
    <3> QED BY <2>1, <3>3, <3>4
  <2>3. Contents' = s BY <1>3, <2>1, <2>2, SeqEqual
  <2> QED BY <2>3 DEF s
<1> QED BY <1>3, <1>4, <1>5 DEF Abstract!Next, Abstract!PopBottom, Obtain

\* ... and the CAS for a pop at the top.
LEMMA TakenAtTop ==
  ASSUME NoWrap, IInv, ContentsInv, ContentsInv', age.top < Bottom, Obtain(deq[age.top]),
         deq' = deq, Bottom' = Bottom, age'.top = age.top + 1
  PROVE  Abstract!Next
<1> USE DEF NoWrap, DequeAssumption
<1>1. Fields /\ OwnerInv BY FieldTypes DEF IInv
<1>2. Bottom \in Int /\ age.top \in Int BY <1>1 DEF Fields, Bottom
<1>3. /\ Contents \in Seq(Jobs) /\ Contents' \in Seq(Jobs) /\ Contents # <<>>
      /\ Len(Contents) = Bottom - age.top /\ Len(Contents') = Len(Contents) - 1
      /\ Len(Contents) \in Nat /\ Len(Contents) > 0
  BY <1>2 DEF ContentsInv
<1>4. Head(Contents) = deq[age.top]
  <2>1. Head(Contents) = Contents[1] BY <1>3, HeadTailProperties
  <2>2. age.top + 1 - 1 = age.top /\ 1 \in 1..Len(Contents) BY <1>2, <1>3
  <2> QED BY <2>1, <2>2 DEF ContentsInv
<1>5. Contents' = Tail(Contents)
  <2>1. Tail(Contents) \in Seq(Jobs) /\ Len(Tail(Contents)) = Len(Contents) - 1
        /\ \A i \in 1..Len(Tail(Contents)) : Tail(Contents)[i] = Contents[i + 1]
    BY <1>3, HeadTailProperties
  <2>2. ASSUME NEW i \in 1..Len(Tail(Contents)) PROVE Contents'[i] = Tail(Contents)[i]
    <3>1. i \in 1..Len(Contents') /\ i + 1 \in 1..Len(Contents) BY <1>3, <2>1
    <3>2. Contents'[i] = deq[age.top + 1 + i - 1] /\ Contents[i + 1] = deq[age.top + (i + 1) - 1]
      BY <3>1 DEF ContentsInv
    <3>3. age.top + 1 + i - 1 = age.top + (i + 1) - 1 BY <1>2
    <3> QED BY <2>1, <3>2, <3>3
  <2> QED BY <1>3, <2>1, <2>2, SeqEqual
<1> QED BY <1>3, <1>4, <1>5 DEF Abstract!Next, Abstract!PopTop, Obtain

LEMMA RefinementStep ==
  ASSUME NoWrap, IInv, ContentsInv, ContentsInv', [Next]_vars
  PROVE  [Abstract!Next]_(Abstract!jobDequeVars)
<1> USE DEF NoWrap, DequeAssumption
<1>a. Types /\ OwnerInv /\ TagInv /\ ThiefInv
  BY DEF IInv
<1>b. Fields BY <1>a, FieldTypes
<1>1. CASE PushSlot
  <2>1. /\ Bottom' = Bottom /\ age' = age /\ obtained' = obtained
        /\ \A i \in Slots : Live(i) => deq'[i] = deq[i]
    BY <1>1, <1>a, <1>b DEF PushSlot, Types, Locals, Bottom, Live, Slots, Fields
  <2> QED BY <2>1, Stuttering
<1>2. CASE PushPublish BY <1>2, PublishIsPush
<1>3. CASE PopEmpty \/ UNCHANGED vars
  <2>1. Bottom' = Bottom /\ age' = age /\ obtained' = obtained /\ deq' = deq
    BY <1>3 DEF PopEmpty, vars, Bottom
  <2> QED BY <2>1, Stuttering
<1>4. CASE PopClaim
  <2>1. owner'.pc = "load" /\ owner'.bot = bot - 1 /\ owner.pc = "idle"
    BY <1>4, <1>a DEF PopClaim, Types, Locals
  <2>2. Bottom' = Bottom /\ age' = age /\ obtained' = obtained /\ deq' = deq
    BY <1>4, <1>b, <2>1 DEF PopClaim, Bottom, Fields
  <2> QED BY <2>2, Stuttering
<1>5. CASE PopLoadAge
  <2>1. /\ owner.pc = "load" /\ owner.job = deq[owner.bot] /\ bot = owner.bot /\ bot' = bot
        /\ deq' = deq /\ age' = age /\ Bottom = owner.bot + 1
    BY <1>5, <1>a DEF PopLoadAge, OwnerInv, Bottom
  <2>2. CASE OutOfReach(owner.bot, age.top)
    <3>1. Bottom' = owner.bot /\ owner.bot > age.top /\ Obtain(deq[owner.bot])
      BY <1>5, <2>1, <2>2, IdleLocal DEF PopLoadAge, OutOfReach, Bottom
    <3>2. Bottom - 1 = owner.bot /\ age.top < Bottom /\ Bottom' - age'.top = Bottom - 1 - age.top
      BY <1>b, <2>1, <3>1 DEF Fields
    <3> QED BY <2>1, <3>1, <3>2, TakenAtBottom
  <2>3. CASE ~OutOfReach(owner.bot, age.top)
    <3>1. owner'.pc = "reset" /\ owner'.bot = owner.bot /\ obtained' = obtained
      BY <1>5, <1>a, <2>3 DEF PopLoadAge, Types, Locals
    <3>2. Bottom' = Bottom BY <2>1, <3>1 DEF Bottom
    <3> QED BY <2>1, <3>1, <3>2, Stuttering
  <2> QED BY <2>2, <2>3
<1>6. CASE PopReset
  <2>1. owner'.pc \in {"cas", "store"} /\ owner'.bot = owner.bot /\ owner.pc = "reset"
    BY <1>6, <1>a DEF PopReset, Types, Locals
  <2>2. Bottom' = Bottom /\ age' = age /\ obtained' = obtained /\ deq' = deq
    BY <1>6, <2>1 DEF PopReset, Bottom
  <2> QED BY <2>2, Stuttering
<1>7. CASE PopCas
  <2>1. /\ owner.pc = "cas" /\ owner.job = deq[owner.bot] /\ bot = 0 /\ bot' = bot
        /\ deq' = deq /\ Bottom = owner.bot + 1 /\ owner.bot = owner.age.top
    BY <1>7, <1>a DEF PopCas, OwnerInv, Bottom
  <2>2. CASE age = owner.age
    <3>1. Bottom' = 0 /\ Obtain(deq[owner.bot]) /\ age' = NewAge(owner.age)
      BY <1>7, <2>1, <2>2, IdleLocal DEF PopCas, Bottom
    <3>2. age'.top = 0 BY <2>1, <3>1, NewTag
    <3>3. Bottom - 1 = owner.bot /\ age.top = owner.bot /\ age.top < Bottom
          /\ Bottom' - age'.top = Bottom - 1 - age.top
      BY <1>b, <2>1, <2>2, <3>1, <3>2 DEF Fields
    <3> QED BY <2>1, <3>1, <3>3, TakenAtBottom
  <2>3. CASE age # owner.age
    <3>1. owner'.pc = "store" /\ owner'.bot = owner.bot /\ obtained' = obtained /\ age' = age
      BY <1>7, <1>a, <2>3 DEF PopCas, Types, Locals
    <3>2. Bottom' = Bottom BY <2>1, <3>1 DEF Bottom
    <3> QED BY <2>1, <3>1, <3>2, Stuttering
  <2> QED BY <2>2, <2>3
<1>8. CASE PopStore
  <2>1. /\ owner.pc = "store" /\ bot' = 0 /\ age' = NewAge(owner.age) /\ age.top = Bottom
        /\ Bottom' = 0 /\ obtained' = obtained
    BY <1>8, <1>a, IdleLocal DEF PopStore, OwnerInv, Bottom
  <2>2. age'.top = 0 BY <2>1, NewTag
  <2>3. Len(Contents) = 0 /\ Len(Contents') = 0
    BY <1>b, <2>1, <2>2 DEF ContentsInv, Fields
  <2>4. Contents' = Contents BY <2>3, EmptySeq DEF ContentsInv
  <2> QED BY <2>1, <2>4 DEF Abstract!jobDequeVars
<1>9. ASSUME NEW t \in Thieves, ThiefStep(t) PROVE [Abstract!Next]_(Abstract!jobDequeVars)
  <2>1. Bottom' = Bottom /\ deq' = deq
    BY <1>9 DEF ThiefStep, StealAge, StealBot, StealJob, StealCas, Bottom
  <2>2. CASE StealCas(t) /\ age = thief[t].age
    <3>1. age.top < Bottom /\ thief[t].job = deq[age.top]
      BY <2>2, <1>a DEF StealCas, ThiefInv, Current
    <3>2. Obtain(deq[age.top]) /\ age'.top = age.top + 1
      BY <2>2, <1>a, <3>1 DEF StealCas, Types, Ages
    <3> QED BY <2>1, <3>1, <3>2, TakenAtTop
  <2>3. CASE ~(StealCas(t) /\ age = thief[t].age)
    <3>1. age' = age /\ obtained' = obtained
      BY <1>9, <2>3 DEF ThiefStep, StealAge, StealBot, StealJob, StealCas
    <3> QED BY <2>1, <3>1, Stuttering
  <2> QED BY <2>2, <2>3
<1> QED BY <1>1, <1>2, <1>3, <1>4, <1>5, <1>6, <1>7, <1>8, <1>9 DEF Next, OwnerStep

(* Every interleaving of the owner's and the thieves' accesses looks like    *)
(* atomic pushes and pops on a deque (work_stealing_deque.h:53-113).         *)
THEOREM DequeRefines == ASSUME NoWrap PROVE Spec => ImplementsJobDeque
<1>1. Init => Abstract!Init
  <2> SUFFICES ASSUME Init PROVE Abstract!Init
    OBVIOUS
  <2>1. Contents = Slice(0, 0) BY IdleLocal DEF Init, Contents
  <2>2. Slice(0, 0) = <<>> BY DEF Slice
  <2> QED BY <2>1, <2>2 DEF Init, Abstract!Init
<1>2. IInv /\ ContentsInv /\ ContentsInv' /\ [Next]_vars => [Abstract!Next]_(Abstract!jobDequeVars)
  BY RefinementStep
<1> QED BY <1>1, <1>2, IInvAlways, ContentsMapped, PTL DEF Spec, ImplementsJobDeque, Abstract!Spec
=============================================================================
