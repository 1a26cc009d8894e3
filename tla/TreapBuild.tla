----------------------------- MODULE TreapBuild -----------------------------
(***************************************************************************)
(* The bulk load of lib/treap/build.hpp as it runs: build halves the       *)
(* elements, merge joins two treaps by splitting the one with the lower    *)
(* root, and augment_parallel sums the result.  Each of the three forks    *)
(* its two halves with parlay::par_do, and they write the nodes of one     *)
(* heap in place.                                                          *)
(*                                                                         *)
(* A call is a frame, named by its path in the tree of forks.  Elements    *)
(* with the same key get nodes of their own until merge joins them, so     *)
(* here a pointer is the pair of the element's index and its key.          *)
(***************************************************************************)
EXTENDS Treap, SequencesExt

CONSTANT MaxElems  \* bound on n

MaxElemsAssumption == MaxElems \in Nat

VARIABLES elems,   \* the elements, in the order of the file
          heap,    \* the nodes
          frames   \* the calls that have not been joined

vars == <<elems, heap, frames>>

\* A call of op on the arguments x and y.  Once it has forked, its halves are
\* the frames below it; root is what a merge will return, drop the node it
\* will then release.
Frame(op, x, y) ==
  [op |-> op, x |-> x, y |-> y, stage |-> "start",
   root |-> nullptr, drop |-> nullptr, res |-> nullptr]

Left(p) == Append(p, "lch")
Right(p) == Append(p, "rch")

Init ==
  /\ elems \in UNION {[1..n -> Keys] : n \in 0..MaxElems}
  /\ heap = <<>>
  /\ frames = (<<>> :> Frame("build", 0, Len(elems)))

At(p, op, stage) == frames[p].op = op /\ frames[p].stage = stage

\* par_do: p waits for the calls f and g.
Fork(p, frame, f, g) ==
  frames' = [frames EXCEPT ![p] = [frame EXCEPT !.stage = "forked"]]
              @@ Left(p) :> f @@ Right(p) :> g

Halves(p) == {Left(p), Right(p)}
Joined(p) == \A q \in Halves(p) : frames[q].stage = "returned"
Without(fs, S) == [q \in DOMAIN fs \ S |-> fs[q]]

\* The call p returns r in heap h.  A half of a merge stores it in the child of
\* the merge's root it was started for.
Return(p, h, r) ==
  LET up == Front(p)
  IN /\ frames' = [Without(frames, Halves(p)) EXCEPT ![p].stage = "returned", ![p].res = r]
     /\ heap' = IF p # <<>> /\ frames[up].op = "merge"
                THEN [h EXCEPT ![frames[up].root][p[Len(p)]] = r] ELSE h
-----------------------------------------------------------------------------
(* build(n, elems): frames carry the offset and n. *)
Build(p) ==
  LET f == frames[p]
      t == <<f.x + 1, elems[f.x + 1]>>
  IN /\ At(p, "build", "start")
     /\ \/ f.y = 0 /\ Return(p, heap, nullptr)
        \/ /\ f.y = 1
           /\ Return(p, Alloc(heap, {make_node(Ver(t), Key(t), nullptr, nullptr)}), t)
        \/ /\ f.y > 1
           /\ Fork(p, f, Frame("build", f.x, f.y \div 2),
                   Frame("build", f.x + f.y \div 2, f.y - f.y \div 2))
           /\ UNCHANGED heap
     /\ UNCHANGED elems

(* Both halves are built: build goes on as the merge of them. *)
BuildJoin(p) ==
  /\ At(p, "build", "forked") /\ Joined(p)
  /\ frames' = [Without(frames, Halves(p)) EXCEPT
                  ![p] = Frame("merge", frames[Left(p)].res, frames[Right(p)].res)]
  /\ UNCHANGED <<elems, heap>>

\* split(t, key) in heap h: the heap after it and the two parts.  t's nodes are
\* relinked in place; key is not among them.
RECURSIVE SplitBug(_, _, _)
SplitBug(h, t, key) ==
  IF t = nullptr THEN [h |-> h, l |-> nullptr, r |-> nullptr]
  ELSE IF key < Key(t)
  THEN LET s == SplitBug(h, h[t].lch, key)
       IN [h |-> [s.h EXCEPT ![t].lch = s.r], l |-> s.l, r |-> t]
  ELSE LET s == SplitBug(h, h[t].rch, key)
       IN [h |-> s.h, l |-> t, r |-> s.r]

RECURSIVE split(_, _, _)
split(h, t, key) ==
  IF t = nullptr THEN [h |-> h, l |-> nullptr, r |-> nullptr]
  ELSE IF key < Key(t)
  THEN LET s == split(h, h[t].lch, key)
       IN [h |-> [s.h EXCEPT ![t].lch = s.r], l |-> s.l, r |-> t]
  ELSE LET s == split(h, h[t].rch, key)
       IN [h |-> [s.h EXCEPT ![t].rch = s.l], l |-> t, r |-> s.r]

OnTop(t_0, t_1) == Pry(t_0) > Pry(t_1)

(* merge up to its par_do: nothing to merge, the same key twice, or the root  *)
(* with the higher priority keeps its place and the other treap is split.     *)
Merge(p) ==
  LET f == frames[p]
      t_0 == f.x
      t_1 == f.y
      MergeOf(a, b) == Frame("merge", a, b)
  IN /\ At(p, "merge", "start")
     /\ UNCHANGED elems
     /\ \/ t_0 = nullptr /\ Return(p, heap, t_1)
        \/ t_0 # nullptr /\ t_1 = nullptr /\ Return(p, heap, t_0)
        \/ /\ t_0 # nullptr /\ t_1 # nullptr
           /\ \/ /\ Key(t_0) = Key(t_1)
                 /\ heap' = [heap EXCEPT ![t_1].val = @ + heap[t_0].val]
                 /\ Fork(p, [f EXCEPT !.root = t_1, !.drop = t_0],
                         MergeOf(heap[t_0].lch, heap[t_1].lch),
                         MergeOf(heap[t_0].rch, heap[t_1].rch))
              \/ /\ Key(t_0) # Key(t_1) /\ OnTop(t_0, t_1)
                 /\ \E s \in {split(heap, t_1, Key(t_0))} :
                      /\ heap' = s.h
                      /\ Fork(p, [f EXCEPT !.root = t_0],
                              MergeOf(heap[t_0].lch, s.l), MergeOf(heap[t_0].rch, s.r))
              \/ /\ Key(t_0) # Key(t_1) /\ ~OnTop(t_0, t_1)
                 /\ \E s \in {split(heap, t_0, Key(t_1))} :
                      /\ heap' = s.h
                      /\ Fork(p, [f EXCEPT !.root = t_1],
                              MergeOf(s.l, heap[t_1].lch), MergeOf(s.r, heap[t_1].rch))

Released(p) == {frames[p].drop} \ {nullptr}

(* Both children are merged; release_node(t_0) if the keys were the same. *)
MergeJoin(p) ==
  /\ At(p, "merge", "forked") /\ Joined(p)
  /\ Return(p, Without(heap, Released(p)), frames[p].root)
  /\ UNCHANGED elems

(* build_parallel hands the built treap to augment_parallel. *)
Built ==
  /\ frames[<<>>].op \in {"build", "merge"} /\ frames[<<>>].stage = "returned"
  /\ frames' = (<<>> :> Frame("augment", frames[<<>>].res, nullptr))
  /\ UNCHANGED <<elems, heap>>

Augment(p) ==
  LET t == frames[p].x
      aug == IF t = nullptr THEN 0 ELSE heap[t].aug
  IN /\ At(p, "augment", "start")
     /\ UNCHANGED elems
     /\ \/ (t = nullptr \/ aug # aug_uninitialized) /\ Return(p, heap, aug)
        \/ /\ t # nullptr /\ aug = aug_uninitialized
           /\ Fork(p, frames[p], Frame("augment", heap[t].lch, nullptr),
                   Frame("augment", heap[t].rch, nullptr))
           /\ UNCHANGED heap

AugmentJoin(p) ==
  LET t == frames[p].x
      sum == frames[Left(p)].res + heap[t].val + frames[Right(p)].res
  IN /\ At(p, "augment", "forked") /\ Joined(p)
     /\ Return(p, [heap EXCEPT ![t].aug = sum], sum)
     /\ UNCHANGED elems

Finished == At(<<>>, "augment", "returned")
Merged == frames[<<>>].x

Step(p) == Build(p) \/ BuildJoin(p) \/ Merge(p) \/ MergeJoin(p)
             \/ Augment(p) \/ AugmentJoin(p)

Next == \/ \E p \in DOMAIN frames : Step(p)
        \/ Built
        \/ Finished /\ UNCHANGED vars

Spec == Init /\ [][Next]_vars
-----------------------------------------------------------------------------
\* The nodes a call that has not forked yet may read and write.
Touches(p) ==
  IF frames[p].stage # "start" \/ frames[p].op = "build" THEN {}
  ELSE LET Pointed == {frames[p].x, frames[p].y} \ {nullptr}
       IN UNION {Nodes(heap, t) : t \in Pointed}

\* Calls of which neither waits for the other run at the same time.
Parallel(p, q) == ~IsPrefix(p, q) /\ ~IsPrefix(q, p)

(***************************************************************************)
(* The halves of a par_do never meet: the nodes that calls which run at    *)
(* the same time work on are apart, allocated, and none of them the root   *)
(* a waiting merge will write.  merge and split relink nodes in place and  *)
(* take no lock, so everything about them rests on this.                   *)
(***************************************************************************)
OwnedApart ==
  \A p \in DOMAIN frames :
    /\ Touches(p) \subseteq DOMAIN heap
    /\ \A q \in DOMAIN frames :
         /\ Parallel(p, q) => Touches(p) \cap Touches(q) = {}
         /\ frames[q].op = "merge" /\ frames[q].stage = "forked"
              => frames[q].root \notin Touches(p)

(***************************************************************************)
(* Whatever the order of the halves, build_parallel makes the treap of the *)
(* elements with their counts and their sums that Treap states and the     *)
(* backends start from.                                                    *)
(***************************************************************************)
BuiltAsStated ==
  Finished =>
    LET c == [k \in Keys |-> Cardinality({i \in DOMAIN elems : elems[i] = k})]
        stated == build_parallel(c)
        Plain(t) == IF t = nullptr THEN nullptr ELSE <<0, Key(t)>>
    IN /\ Plain(Merged) = stated.ref
       /\ {Plain(t) : t \in Nodes(heap, Merged)} = DOMAIN stated.new
       /\ \A t \in Nodes(heap, Merged) :
            [heap[t] EXCEPT !.lch = Plain(@), !.rch = Plain(@)] = stated.new[Plain(t)]

(***************************************************************************)
(* Each node that merge drops in favour of one with the same key is        *)
(* released, and no other: what is left on the heap is the treap.          *)
(***************************************************************************)
NothingLeaked == Finished => DOMAIN heap = Nodes(heap, Merged)
=============================================================================
