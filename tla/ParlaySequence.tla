--------------------------- MODULE ParlaySequence ---------------------------
(***************************************************************************)
(* parlay::sequence (sequence.h) over its storage                          *)
(* (internal/sequence_base.h): inline cells or one heap buffer, and the    *)
(* elements constructed in them.  Two sequences, and the temporaries an    *)
(* operation makes, are worked on by a program: a public operation is the  *)
(* list of the steps it takes on the storage, todo, and each step is an    *)
(* action.  A cell holds an element or is Raw; a step that constructs over *)
(* an element, destroys or reads a Raw cell, or leaves a buffer's bounds   *)
(* sets fault.                                                             *)
(***************************************************************************)
EXTENDS Integers, Sequences, FiniteSetsExt

CONSTANTS
    Values,         \* what elements hold
    ShortCapacity,  \* cells inside the object; 0 without short-size optimisation
    MaxLen,         \* bound: elements of the two sequences together
    Counts,         \* the n of append, insert, resize and the constructors
    Aliases         \* may a value argument refer into the sequence itself?

SequenceAssumption ==
    /\ ShortCapacity \in Nat /\ MaxLen \in Nat
    /\ Counts \subseteq Nat /\ Aliases \in BOOLEAN

VARIABLES
    seqs,     \* the fields of each sequence object: flag, size, buffer
    mem,      \* the cells of each place: an object's inline ones, a buffer's
    live,     \* the allocated buffers
    todo,     \* steps the running operation still has to take
    it,       \* the iterator it returns: a place and an offset
    fault,    \* some step used memory it may not use
    model,    \* what a vector would hold once the operation is done
    expected  \* and the offset of the iterator it returns

vars == <<seqs, mem, live, todo, it, fault, model, expected>>

Raw == "raw"
Null == "null"
Named == {"a", "b"}
Temp == "t"
Objects == Named \cup {Temp}
Buffers == {"m1", "m2", "m3", "m4"}

Raws(n) == [i \in 1 .. n |-> Raw]
Empty == [flag |-> FALSE, n |-> 0, buf |-> Null]
Outside(v) == [at |-> Null, i |-> 0, val |-> v]

is_small(s) == ShortCapacity > 0 /\ ~seqs[s].flag
size(s) == seqs[s].n
data(s) == IF is_small(s) THEN s ELSE seqs[s].buf
capacity(s) == Len(mem[data(s)])
Contents(s) == SubSeq(mem[data(s)], 1, size(s))

Init ==
    /\ seqs = [s \in Objects |-> Empty]
    /\ mem = [p \in Objects \cup Buffers \cup {Null} |->
                IF p \in Objects THEN Raws(ShortCapacity) ELSE <<>>]
    /\ live = {}
    /\ todo = <<>>
    /\ it = <<Null, 0>>
    /\ fault = FALSE
    /\ model = [s \in Named |-> <<>>]
    /\ expected = -1
-----------------------------------------------------------------------------
(***************************************************************************)
(* The cells of place p with vals constructed from offset at on, and with  *)
(* the elements at offsets lo .. hi - 1 destroyed or relocated away.       *)
(***************************************************************************)
Put(p, at, vals) ==
    [i \in DOMAIN mem[p] |-> IF i \in at + 1 .. at + Len(vals)
                               THEN vals[i - at] ELSE mem[p][i]]
Gone(p, lo, hi) ==
    [i \in DOMAIN mem[p] |-> IF i \in lo + 1 .. hi THEN Raw ELSE mem[p][i]]
AreRaw(p, lo, hi) ==
    \A i \in lo + 1 .. hi : i \in DOMAIN mem[p] /\ mem[p][i] = Raw
AreLive(p, lo, hi) ==
    \A i \in lo + 1 .. hi : i \in DOMAIN mem[p] /\ mem[p][i] # Raw

Fresh == CHOOSE b \in Buffers : b \notin live
NoBuffer(p) == IF p \in Objects THEN Raws(ShortCapacity) ELSE <<>>

(***************************************************************************)
(* A buffer of at least half as much again when desired does not fit; the  *)
(* elements are relocated into it.                                         *)
(***************************************************************************)
new_capacity(current, desired) == Max({desired, (5 * current) \div 2})

FitsBug(s, desired) == capacity(s) + 1 >= desired

Fits(s, desired) == capacity(s) >= desired

ensure_capacity(s, desired) ==
    LET b == Fresh
    IN  IF Fits(s, desired)
        THEN UNCHANGED <<seqs, mem, live, fault>>
        ELSE /\ seqs' = [seqs EXCEPT ![s].flag = TRUE, ![s].buf = b]
             /\ mem' = [mem EXCEPT
                  ![b] = Contents(s) \o
                         Raws(new_capacity(capacity(s), desired) - size(s)),
                  ![data(s)] = NoBuffer(data(s))]
             /\ live' = (live \cup {b}) \ {seqs[s].buf}
             /\ UNCHANGED fault

(***************************************************************************)
(* The storage of an object that has none yet: inline if it fits there, a  *)
(* buffer of exactly desired cells (none is no exception) if not.          *)
(***************************************************************************)
initialize_capacity(s, desired) ==
    LET b == Fresh
    IN  IF ShortCapacity > 0 /\ desired <= ShortCapacity
        THEN /\ seqs' = [seqs EXCEPT ![s].flag = FALSE]
             /\ UNCHANGED <<mem, live, fault>>
        ELSE /\ seqs' = [seqs EXCEPT ![s] = [flag |-> TRUE, n |-> 0, buf |-> b]]
             /\ mem' = [mem EXCEPT ![b] = Raws(desired)]
             /\ live' = live \cup {b}
             /\ UNCHANGED fault

(***************************************************************************)
(* clear: destroy the elements, free the buffer, become the zero-filled    *)
(* object; clear_without_destruction after a relocation, when the cells    *)
(* are Raw already.                                                        *)
(***************************************************************************)
clear(s) ==
    /\ seqs' = [seqs EXCEPT ![s] = Empty]
    /\ live' = live \ {seqs[s].buf}
    /\ mem' = [mem EXCEPT ![data(s)] = NoBuffer(data(s))]
    /\ fault' = (fault \/ ~AreLive(data(s), 0, size(s)))

(***************************************************************************)
(* Swapping the raw bytes of two objects, inline cells included; moving    *)
(* into an empty object is a swap with a zero-filled one.                  *)
(***************************************************************************)
swap(s, r) ==
    /\ seqs' = [seqs EXCEPT ![s] = seqs[r], ![r] = seqs[s]]
    /\ mem' = [mem EXCEPT ![s] = mem[r], ![r] = mem[s]]
    /\ UNCHANGED <<live, fault>>

(***************************************************************************)
(* n elements constructed from one argument at the end.  The argument is   *)
(* read here, after any reallocation before: a reference into the sequence *)
(* may have lost its element by then.                                      *)
(***************************************************************************)
Load(arg) ==
    IF arg.at # Null /\ AreLive(arg.at, arg.i, arg.i + 1)
    THEN mem[arg.at][arg.i + 1] ELSE arg.val

Construct(s, vals) ==
    /\ mem' = [mem EXCEPT ![data(s)] = Put(data(s), size(s), vals)]
    /\ seqs' = [seqs EXCEPT ![s].n = @ + Len(vals)]
    /\ UNCHANGED live

Fill(s, n, arg) ==
    /\ Construct(s, [i \in 1 .. n |-> Load(arg)])
    /\ fault' = \/ fault
                \/ ~AreRaw(data(s), size(s), size(s) + n)
                \/ n > 0 /\ arg.at # Null /\ ~AreLive(arg.at, arg.i, arg.i + 1)

(***************************************************************************)
(* Copies of the elements lo .. hi - 1 of r at the end.                    *)
(***************************************************************************)
CopyRange(s, r, lo, hi) ==
    /\ Construct(s, SubSeq(mem[data(r)], lo + 1, hi))
    /\ fault' = \/ fault
                \/ ~AreLive(data(r), lo, hi)
                \/ ~AreRaw(data(s), size(s), size(s) + hi - lo)

(***************************************************************************)
(* pop_tail: the elements from offset p on, relocated into a sequence made *)
(* without initialising it, the temporary; nothing is made of no elements. *)
(***************************************************************************)
pop_tail(s, p) ==
    LET b == Fresh
        k == size(s) - p
        vals == SubSeq(Contents(s), p + 1, size(s))
        small == ShortCapacity > 0 /\ k <= ShortCapacity
        at == IF small THEN Temp ELSE b
    IN  IF k = 0
        THEN UNCHANGED <<seqs, live, mem, fault>>
        ELSE /\ seqs' = [seqs EXCEPT ![s].n = p,
                           ![Temp] = [flag |-> ~small, n |-> k,
                                      buf |-> IF small THEN Null ELSE b]]
             /\ live' = IF small THEN live ELSE live \cup {b}
             /\ mem' = [mem EXCEPT ![data(s)] = Gone(data(s), p, size(s)),
                   ![at] = vals \o Raws(IF small THEN ShortCapacity - k ELSE 0)]
             /\ UNCHANGED fault

(***************************************************************************)
(* append(sequence&&).  An empty sequence whose capacity is no more than   *)
(* the other's size takes over the other's storage (a move assignment,     *)
(* which frees its own); if not, the elements are relocated to the end     *)
(* and the other's buffer is freed without destroying them.                *)
(***************************************************************************)

TakesOver(s, r) == size(s) = 0 /\ capacity(s) <= size(r)

Relocate(s, r) ==
    /\ seqs' = [seqs EXCEPT ![s].n = size(s) + size(r), ![r] = Empty]
    /\ mem' = [mem EXCEPT ![data(s)] = Put(data(s), size(s), Contents(r)),
                          ![data(r)] = NoBuffer(data(r))]
    /\ live' = live \ {seqs[r].buf}
    /\ fault' = (fault \/ ~AreRaw(data(s), size(s), size(s) + size(r)))

Freed(s) == {seqs[s].buf}

Takeover(s, r) ==
    /\ seqs' = [seqs EXCEPT ![s] = seqs[r], ![r] = Empty]
    /\ mem' = [p \in DOMAIN mem |->
                 CASE p = s -> mem[r]
                   [] p = r -> NoBuffer(r)
                   [] p \in Freed(s) -> <<>>
                   [] OTHER -> mem[p]]
    /\ live' = live \ Freed(s)
    /\ UNCHANGED fault

pop_back(s) ==
    /\ mem' = [mem EXCEPT ![data(s)] = Gone(data(s), size(s) - 1, size(s))]
    /\ seqs' = [seqs EXCEPT ![s].n = @ - 1]
    /\ fault' = (fault \/ ~AreLive(data(s), size(s) - 1, size(s)))
    /\ UNCHANGED live

Shrink(s, n) ==
    /\ mem' = [mem EXCEPT ![data(s)] = Gone(data(s), n, size(s))]
    /\ seqs' = [seqs EXCEPT ![s].n = n]
    /\ fault' = (fault \/ ~AreLive(data(s), n, size(s)))
    /\ UNCHANGED live
-----------------------------------------------------------------------------
(***************************************************************************)
(* One step of the running operation.  What constructs at the end returns  *)
(* where the first new element is, "at" returns begin() + pos, and "move"  *)
(* is append(sequence&&): a takeover, or room first and then a relocation. *)
(***************************************************************************)
Step ==
    LET st == todo[1]
        s == st[2]
        more == CASE st[1] = "move" /\ TakesOver(s, st[3]) ->
                       <<<<"takeover", s, st[3]>>>>
                  [] st[1] = "move" /\ ~TakesOver(s, st[3]) ->
                       <<<<"ensure", s, size(s) + size(st[3])>>,
                         <<"relocate", s, st[3]>>>>
                  [] OTHER -> <<>>
    IN  /\ todo # <<>>
        /\ \/ st[1] = "ensure" /\ ensure_capacity(s, st[3])
           \/ st[1] = "init" /\ initialize_capacity(s, st[3])
           \/ st[1] = "fill" /\ Fill(s, st[3], st[4])
           \/ st[1] = "range" /\ CopyRange(s, st[3], st[4], st[5])
           \/ st[1] = "tail" /\ pop_tail(s, st[3])
           \/ st[1] = "takeover" /\ Takeover(s, st[3])
           \/ st[1] = "relocate" /\ Relocate(s, st[3])
           \/ st[1] = "pop" /\ pop_back(s)
           \/ st[1] = "shrink" /\ Shrink(s, st[3])
           \/ st[1] = "clear" /\ clear(s)
           \/ st[1] = "swap" /\ swap(s, st[3])
           \/ st[1] \in {"at", "move"} /\ UNCHANGED <<seqs, mem, live, fault>>
        /\ it' = CASE expected < 0 -> it
                   [] expected >= 0 /\ st[1] = "at" -> <<data(s), st[3]>>
                   [] expected >= 0 /\ st[1] \in {"fill", "range"} ->
                        <<data(s), size(s)>>
                   [] OTHER -> it
        /\ todo' = more \o Tail(todo)
        /\ UNCHANGED <<model, expected>>
-----------------------------------------------------------------------------
(***************************************************************************)
(* The public operations: their steps, what the sequences then hold, and   *)
(* the offset of the iterator returned (-1 for none).                      *)
(***************************************************************************)
Call(steps, holds, offset) ==
    /\ todo = <<>>
    /\ Len(holds["a"]) + Len(holds["b"]) <= MaxLen
    /\ todo' = steps
    /\ model' = holds
    /\ expected' = offset
    /\ it' = <<Null, 0>>
    /\ UNCHANGED <<seqs, mem, live, fault>>

Ins(x, p, y) == SubSeq(x, 1, p) \o y \o SubSeq(x, p + 1, Len(x))
Del(x, lo, hi) == SubSeq(x, 1, lo) \o SubSeq(x, hi + 1, Len(x))
Copies(n, arg) == [i \in 1 .. n |-> arg.val]
Sub(s, lo, hi) == SubSeq(model[s], lo + 1, hi)
Becomes(s, x) == [model EXCEPT ![s] = x]

(* A value argument: from elsewhere, or a reference to an element of s. *)
Arguments(s) ==
    {Outside(v) : v \in Values} \cup
    IF Aliases THEN {[at |-> data(s), i |-> i - 1, val |-> model[s][i]] :
                       i \in 1 .. size(s)}
    ELSE {}

Assigned(s) == <<<<"swap", s, Temp>>, <<"clear", Temp>>>>

(* sequence(n, t), operator=; also sequence(n) and from_function. *)
ConstructFill(s, n, arg) ==
    Call(<<<<"init", Temp, n>>, <<"fill", Temp, n, arg>>>> \o Assigned(s),
         Becomes(s, Copies(n, arg)), -1)

(* Input iterators: one push_back after another; the iterator is end() - n. *)
PushSteps(s, from, r, lo, hi) ==
    [j \in 1 .. 2 * (hi - lo) |->
        LET i == lo + (j - 1) \div 2
        IN  IF j % 2 = 1 THEN <<"ensure", s, from + i - lo + 1>>
            ELSE <<"range", s, r, i, i + 1>>] \o <<<<"at", s, from>>>>

(* initialize_range: as many cells as elements, or one push_back each. *)
RangeSteps(s, r, lo, hi) ==
    {<<<<"init", s, hi - lo>>, <<"range", s, r, lo, hi>>>>,
     PushSteps(s, 0, r, lo, hi)}

(* subseq, substr, to_sequence: sequence(first, last), then operator=. *)
ConstructRange(s, r, lo, hi) ==
    \E steps \in RangeSteps(Temp, r, lo, hi) :
        Call(steps \o Assigned(s), Becomes(s, Sub(r, lo, hi)), -1)

(* A small sequence is copied as bytes, which leaves the same cells. *)
CopyAssign(s, r) ==
    Call(<<<<"init", Temp, size(r)>>, <<"range", Temp, r, 0, size(r)>>>>
           \o Assigned(s),
         Becomes(s, model[r]), -1)

MoveAssign(s, r) ==
    Call(<<<<"swap", Temp, r>>>> \o Assigned(s),
         [model EXCEPT ![r] = <<>>, ![s] = model[r]], -1)

Swap(s, r) ==
    Call(<<<<"swap", s, r>>>>, [model EXCEPT ![s] = model[r], ![r] = model[s]],
         -1)

(* assign clears first, and so may not be given a part of itself. *)
AssignFill(s, n, arg) ==
    /\ arg.at = Null
    /\ Call(<<<<"clear", s>>, <<"init", s, n>>, <<"fill", s, n, arg>>>>,
            Becomes(s, Copies(n, arg)), -1)

AssignRange(s, r) ==
    /\ s # r
    /\ \E steps \in RangeSteps(s, r, 0, size(r)) :
         Call(<<<<"clear", s>>>> \o steps, Becomes(s, model[r]), -1)

emplace_back(s, arg) ==
    Call(<<<<"ensure", s, size(s) + 1>>, <<"fill", s, 1, arg>>>>,
         Becomes(s, Append(model[s], arg.val)), size(s))

append_n(s, n, arg) ==
    Call(<<<<"ensure", s, size(s) + n>>, <<"fill", s, n, arg>>>>,
         Becomes(s, model[s] \o Copies(n, arg)), size(s))

(* Random-access and forward iterators: one reservation, then the copies. *)
AppendSteps(s, r, lo, hi) ==
    <<<<"ensure", s, size(s) + hi - lo>>, <<"range", s, r, lo, hi>>>>

append_range(s, r, lo, hi) ==
    /\ s # r
    /\ \E steps \in {AppendSteps(s, r, lo, hi),
                     PushSteps(s, size(s), r, lo, hi)} :
         Call(steps, Becomes(s, model[s] \o Sub(r, lo, hi)), size(s))

AppendMove(s, r) ==
    /\ s # r
    /\ Call(<<<<"move", s, r>>, <<"at", s, size(s)>>>>,
            [model EXCEPT ![s] = model[s] \o model[r], ![r] = <<>>], size(s))

(* insert(p, t), emplace: not at the end. *)
emplace(s, p, arg) ==
    /\ p < size(s)
    /\ Call(<<<<"ensure", s, size(s) + 1>>, <<"tail", s, p>>,
              <<"ensure", s, p + 1>>, <<"fill", s, 1, arg>>,
              <<"move", s, Temp>>, <<"clear", Temp>>>>,
            Becomes(s, Ins(model[s], p, <<arg.val>>)), p)

(* insert_n returns append_n's iterator, taken before the tail is back. *)
insert_n(s, p, n, arg) ==
    Call(<<<<"ensure", s, size(s) + n>>, <<"tail", s, p>>, <<"fill", s, n, arg>>,
           <<"move", s, Temp>>, <<"clear", Temp>>>>,
         Becomes(s, Ins(model[s], p, Copies(n, arg))), p)

(* insert_range and insert(sequence&&) compute theirs again at the end. *)
insert_range(s, p, r, lo, hi) ==
    /\ s # r
    /\ \E steps \in {<<<<"ensure", s, p + hi - lo>>, <<"range", s, r, lo, hi>>>>,
                     PushSteps(s, p, r, lo, hi)} :
         Call(<<<<"tail", s, p>>>> \o steps \o
                <<<<"move", s, Temp>>, <<"at", s, p>>, <<"clear", Temp>>>>,
              Becomes(s, Ins(model[s], p, Sub(r, lo, hi))), p)

InsertMove(s, p, r) ==
    /\ s # r
    /\ Call(<<<<"tail", s, p>>, <<"move", s, r>>, <<"move", s, Temp>>,
              <<"at", s, p>>, <<"clear", Temp>>>>,
            [model EXCEPT ![s] = Ins(model[s], p, model[r]), ![r] = <<>>], p)

erase(s, q) ==
    /\ q < size(s)
    /\ Call(IF q = size(s) - 1
              THEN <<<<"pop", s>>, <<"at", s, q>>>>
              ELSE <<<<"tail", s, q + 1>>, <<"pop", s>>, <<"move", s, Temp>>,
                     <<"at", s, q>>, <<"clear", Temp>>>>,
            Becomes(s, Del(model[s], q, q + 1)), q)

EraseRange(s, q1, q2) ==
    Call(<<<<"tail", s, q2>>, <<"shrink", s, q1>>, <<"move", s, Temp>>,
           <<"at", s, q1>>, <<"clear", Temp>>>>,
         Becomes(s, Del(model[s], q1, q2)), q1)

(* r = s.pop_tail(p) *)
TakeTail(s, r, p) ==
    /\ s # r
    /\ Call(<<<<"tail", s, p>>>> \o Assigned(r),
            [model EXCEPT ![s] = SubSeq(model[s], 1, p),
                          ![r] = SubSeq(model[s], p + 1, size(s))], -1)

resize(s, n, arg) ==
    Call(IF n < size(s) THEN <<<<"shrink", s, n>>>>
         ELSE <<<<"ensure", s, n>>, <<"fill", s, n - size(s), arg>>>>,
         Becomes(s, SubSeq(model[s], 1, Min({n, size(s)}))
                      \o Copies(Max({n - size(s), 0}), arg)), -1)

reserve(s, amount) == Call(<<<<"ensure", s, amount>>>>, model, -1)

Clear(s) == Call(<<<<"clear", s>>>>, Becomes(s, <<>>), -1)

Operation ==
    \/ \E s, r \in Named :
         \/ Swap(s, r) \/ CopyAssign(s, r) \/ MoveAssign(s, r)
         \/ AssignRange(s, r) \/ AppendMove(s, r)
         \/ \E p \in 0 .. size(s) : TakeTail(s, r, p) \/ InsertMove(s, p, r)
         \/ \E lo, hi \in 0 .. size(r) :
              /\ lo <= hi
              /\ \/ ConstructRange(s, r, lo, hi) \/ append_range(s, r, lo, hi)
                 \/ \E p \in 0 .. size(s) : insert_range(s, p, r, lo, hi)
    \/ \E s \in Named : \E arg \in Arguments(s) :
         \/ emplace_back(s, arg)
         \/ \E p \in 0 .. size(s) : emplace(s, p, arg)
         \/ \E n \in Counts :
              \/ ConstructFill(s, n, arg) \/ AssignFill(s, n, arg)
              \/ append_n(s, n, arg) \/ resize(s, n, arg)
              \/ \E p \in 0 .. size(s) : insert_n(s, p, n, arg)
    \/ \E s \in Named :
         \/ Clear(s)
         \/ \E n \in 0 .. MaxLen : reserve(s, n)
         \/ \E q1, q2 \in 0 .. size(s) :
              q1 <= q2 /\ (erase(s, q1) \/ EraseRange(s, q1, q2))

Next == Step \/ (todo = <<>> /\ Operation)

Spec == Init /\ [][Next]_vars
-----------------------------------------------------------------------------
Done == todo = <<>>

(***************************************************************************)
(* No step of any operation constructs over an element, destroys or reads  *)
(* a cell that has none, or leaves its buffer: relocation, pop_tail's      *)
(* uninitialised sequence and clear_relocated fit together, and an         *)
(* argument is read before the operation moves or frees what it refers to. *)
(***************************************************************************)
NoMisuse == ~fault

(***************************************************************************)
(* Between operations every element lies in the range of exactly one       *)
(* sequence and every allocated buffer belongs to exactly one: nothing is  *)
(* leaked, nothing is owned twice, and the temporaries are gone.           *)
(***************************************************************************)
StorageExact ==
    Done =>
      /\ seqs[Temp] = Empty
      /\ live = {seqs[s].buf : s \in Objects} \ {Null}
      /\ seqs["a"].buf = seqs["b"].buf => seqs["a"].buf = Null
      /\ \A s \in Named : AreLive(data(s), 0, size(s))
                        /\ AreRaw(data(s), size(s), capacity(s))
      /\ \A b \in Buffers \ live : mem[b] = <<>>

(***************************************************************************)
(* A sequence is used as a vector: after every operation it holds what a   *)
(* vector would ("designed to be a fully-parallel drop-in replacement for  *)
(* std::vector", sequence.h:62).                                           *)
(***************************************************************************)
HoldsAsVector == Done => \A s \in Named : Contents(s) = model[s]

(***************************************************************************)
(* The iterator an operation returns points into the sequence, at the      *)
(* first element it put there or at the one after those it erased          *)
(* (emplace and insert_n claim it remains valid when the tail is appended).*)
(***************************************************************************)
IteratorValid ==
    Done /\ expected >= 0 =>
      \E s \in Named : it = <<data(s), expected>> /\ expected <= size(s)

KeepsCapacity ==
    \A s \in Named :
        todo # <<>> /\ todo[1][1] \in {"takeover", "relocate"} /\ todo[1][2] = s
          => capacity(s)' >= capacity(s)

(***************************************************************************)
(* The step that appends a moved-from sequence never makes the capacity    *)
(* smaller: a reserve is not thrown away.                                  *)
(***************************************************************************)
AppendKeepsCapacity == [][KeepsCapacity]_vars
=============================================================================
