------------------------------ MODULE PamTree -------------------------------
(***************************************************************************)
(* The batch tree library lib/pam as the batching backend uses it: every   *)
(* batch is built into a temporary tree with destructive splits and        *)
(* merges, which is then merged into, or subtracted from, the last version *)
(* with path copying, so that parts of the temporary tree and of the old   *)
(* version end up in the new one.                                          *)
(*                                                                         *)
(* A store maps the allocated addresses to nodes; an address is not used   *)
(* again, so a read of a released node is an evaluation error.  The two    *)
(* halves of a par_do touch disjoint nodes and run one after the other.    *)
(***************************************************************************)
EXTENDS Integers, Sequences, SequencesExt, FiniteSets, FiniteSetsExt, TLC

CONSTANTS Keys,       \* the keys, naturals
          Hash,       \* aes_hash::hash
          Loads,      \* bound: the elements Init may load
          MaxElems,   \* bound: the elements of a batch
          MaxBatches  \* bound: the batches

HashInjective == \A j, k \in Keys : Hash[j] = Hash[k] => j = k

nullptr == 0
vstat_uninitialized == 1000000 \* ~0, later than any version

VARIABLES store,   \* the nodes
          next,    \* the address of the next node allocated
          roots,   \* the versions: [ver, t]
          log,     \* history: the updates so far, <<op, key>>
          temps    \* history: the addresses of the last batch's temporary tree
vars == <<store, next, roots, log, temps>>

(* The algorithms take a heap h = [s, n], the store and the next address, *)
(* and hand back the heap they leave. *)
Pry(h, t) == Hash[h.s[t].key]
Set(h, t, field, x) == [h EXCEPT !.s[t][field] = x]
make_node(h, ver, key, val) ==
  [s |-> (h.n :> [vstat |-> vstat_uninitialized, key |-> key, vals |-> <<[val |-> val, ver |-> ver]>>,
                  aug |-> 0, lch |-> nullptr, rch |-> nullptr]) @@ h.s,
   n |-> h.n + 1]
make_weak_copy(h, t) == make_node(h, Last(h.s[t].vals).ver, h.s[t].key, Last(h.s[t].vals).val)
release_node(h, t) == [h EXCEPT !.s = [a \in DOMAIN h.s \ {t} |-> h.s[a]]]

RECURSIVE release_tree(_, _)
release_tree(h, t) ==
  IF t = nullptr THEN h
  ELSE release_node(release_tree(release_tree(h, h.s[t].lch), h.s[t].rch), t)
-----------------------------------------------------------------------------
(* build and build_versioned. *)
RECURSIVE split(_, _, _)
split(h, t, key) ==
  IF t = nullptr THEN [h |-> h, l |-> nullptr, r |-> nullptr]
  ELSE IF key < h.s[t].key
       THEN LET sub == split(h, h.s[t].lch, key) IN [h |-> Set(sub.h, t, "lch", sub.r), l |-> sub.l, r |-> t]
       ELSE LET sub == split(h, h.s[t].rch, key) IN [h |-> Set(sub.h, t, "rch", sub.l), l |-> t, r |-> sub.r]

\* The values of one key in two trees, those of u the later ones: merge counts them
\* together, merge_values keeps each.
AddBase(vals, base) == FoldLeft(LAMBDA a, x : Append(a, [x EXCEPT !.val = @ + base]), <<>>, vals)
JoinValues(versioned, v, u) ==
  IF versioned THEN v \o AddBase(u, Last(v).val) ELSE <<[v[1] EXCEPT !.val = @ + u[1].val]>>

\* merge, and with versioned merge_versioned: t_1's values are the later ones, on
\* whichever side of the recursion it is.
RECURSIVE merge(_, _, _, _)
merge(h, t_0, t_1, versioned) ==
  IF t_0 = nullptr THEN [h |-> h, t |-> t_1]
  ELSE IF t_1 = nullptr THEN [h |-> h, t |-> t_0]
  ELSE IF h.s[t_0].key = h.s[t_1].key
       THEN LET h0 == Set(h, t_0, "vals", JoinValues(versioned, h.s[t_0].vals, h.s[t_1].vals))
                l == merge(h0, h.s[t_0].lch, h.s[t_1].lch, versioned)
                r == merge(Set(l.h, t_0, "lch", l.t), h.s[t_0].rch, h.s[t_1].rch, versioned)
            IN  [h |-> release_node(Set(r.h, t_0, "rch", r.t), t_1), t |-> t_0]
  ELSE IF Pry(h, t_0) > Pry(h, t_1)
       THEN LET p == split(h, t_1, h.s[t_0].key)
                l == merge(p.h, h.s[t_0].lch, p.l, versioned)
                r == merge(Set(l.h, t_0, "lch", l.t), h.s[t_0].rch, p.r, versioned)
            IN  [h |-> Set(r.h, t_0, "rch", r.t), t |-> t_0]
       ELSE LET p == split(h, t_0, h.s[t_1].key)
                l == merge(p.h, p.l, h.s[t_1].lch, versioned)
                r == merge(Set(l.h, t_1, "lch", l.t), p.r, h.s[t_1].rch, versioned)
            IN  [h |-> Set(r.h, t_1, "rch", r.t), t |-> t_1]

\* build (all of version 0) and build_versioned (element i of version ver + i - 1).
RECURSIVE build(_, _, _, _)
build(h, ver, elems, versioned) ==
  LET n == Len(elems)
      half == n \div 2
      t_0 == build(h, ver, SubSeq(elems, 1, half), versioned)
      t_1 == build(t_0.h, IF versioned THEN ver + half ELSE ver, SubSeq(elems, half + 1, n), versioned)
  IN  IF n = 0 THEN [h |-> h, t |-> nullptr]
      ELSE IF n = 1 THEN [h |-> make_node(h, ver, elems[1], 1), t |-> h.n]
      ELSE merge(t_1.h, t_0.t, t_1.t, versioned)
-----------------------------------------------------------------------------
(* copy_merge: the temporary tree t_ins goes into a copy of t_old's path. *)
expose(h, t) == Set(Set(h, t, "lch", nullptr), t, "rch", nullptr)

RECURSIVE copy_split(_, _, _)
copy_split(h, t, key) ==
  LET c == make_weak_copy(h, t)
      me == h.n
  IN  IF t = nullptr THEN [h |-> h, l |-> nullptr, r |-> nullptr]
      ELSE IF key < h.s[t].key
           THEN LET sub == copy_split(Set(c, me, "rch", h.s[t].rch), h.s[t].lch, key)
                IN  [h |-> Set(sub.h, me, "lch", sub.r), l |-> sub.l, r |-> me]
           ELSE LET sub == copy_split(Set(c, me, "lch", h.s[t].lch), h.s[t].rch, key)
                IN  [h |-> Set(sub.h, me, "rch", sub.l), l |-> me, r |-> sub.r]

\* update_values of the node t with the last value of its old node.
update_values(h, t, old) == Set(h, t, "vals", AddBase(h.s[t].vals, Last(h.s[old].vals).val))

RECURSIVE copy_merge(_, _, _)
copy_merge(h, t_old, t_ins) ==
  LET descend(g, t_new, old_l, ins_l, old_r, ins_r) ==
        LET l == copy_merge(g, old_l, ins_l)
            r == copy_merge(Set(l.h, t_new, "lch", l.t), old_r, ins_r)
        IN  [h |-> Set(r.h, t_new, "rch", r.t), t |-> t_new]
      old == h.s[t_old]
      ins == h.s[t_ins]
  IN  IF t_old = nullptr THEN [h |-> h, t |-> t_ins]
      ELSE IF t_ins = nullptr THEN [h |-> h, t |-> t_old]
      ELSE IF Pry(h, t_old) > Pry(h, t_ins)
           THEN LET p == split(make_weak_copy(h, t_old), t_ins, old.key)
                IN  descend(p.h, h.n, old.lch, p.l, old.rch, p.r)
      ELSE IF old.key = ins.key
           THEN descend(update_values(expose(h, t_ins), t_ins, t_old), t_ins, old.lch, ins.lch, old.rch, ins.rch)
      ELSE LET p == copy_split(expose(h, t_ins), t_old, ins.key)
           IN  descend(p.h, t_ins, p.l, ins.lch, p.r, ins.rch)

(* copy_subtract: a node without vstat belongs to the batch at work and is *)
(* changed in place (mutant: every node is). *)
make_copy_if_needBug(h, t) == [h |-> h, t |-> t]
make_copy_if_need(h, t) ==
  IF h.s[t].vstat = vstat_uninitialized THEN [h |-> h, t |-> t]
  ELSE [h |-> make_weak_copy(h, t), t |-> h.n]

\* The left tree's root stays on top.
LeftOnTop(h, t_l, t_r) == Pry(h, t_l) > Pry(h, t_r)

RECURSIVE copy_concat(_, _, _)
copy_concat(h, t_l, t_r) ==
  IF t_l = nullptr THEN [h |-> h, t |-> t_r]
  ELSE IF t_r = nullptr THEN [h |-> h, t |-> t_l]
  ELSE IF LeftOnTop(h, t_l, t_r)
       THEN LET c == make_copy_if_need(h, t_l)
                sub == copy_concat(Set(c.h, c.t, "lch", h.s[t_l].lch), h.s[t_l].rch, t_r)
            IN  [h |-> Set(sub.h, c.t, "rch", sub.t), t |-> c.t]
       ELSE LET c == make_copy_if_need(h, t_r)
                sub == copy_concat(c.h, t_l, h.s[t_r].lch)
            IN  [h |-> Set(Set(sub.h, c.t, "lch", sub.t), c.t, "rch", h.s[t_r].rch), t |-> c.t]

\* What is left of the temporary tree where the old one ends.
Discard(h, t_det) == release_tree(h, t_det)

RECURSIVE copy_subtract(_, _, _)
copy_subtract(h, t_old, t_det) ==
  LET old == h.s[t_old]
      det == h.s[t_det]
  IN  IF t_old = nullptr THEN [h |-> Discard(h, t_det), t |-> nullptr]
      ELSE IF t_det = nullptr THEN [h |-> h, t |-> t_old]
      ELSE IF old.key = det.key
           THEN LET l == copy_subtract(h, old.lch, det.lch)
                    r == copy_subtract(l.h, old.rch, det.rch)
                IN  copy_concat(release_node(r.h, t_det), l.t, r.t)
      ELSE IF Pry(h, t_old) > Pry(h, t_det)
           THEN LET p == split(make_weak_copy(h, t_old), t_det, old.key)
                    l == copy_subtract(p.h, old.lch, p.l)
                    r == copy_subtract(Set(l.h, h.n, "lch", l.t), old.rch, p.r)
                IN  [h |-> Set(r.h, h.n, "rch", r.t), t |-> h.n]
      ELSE LET d == copy_concat(h, det.lch, det.rch)
           IN  copy_subtract(release_node(d.h, t_det), t_old, d.t)
-----------------------------------------------------------------------------
(* augment_parallel: sums and latest versions of the nodes that have none. *)
\* subtree_vstat.
vstat(h, t) ==
  Max({Last(h.s[t].vals).ver} \cup {h.s[c].vstat : c \in {h.s[t].lch, h.s[t].rch} \ {nullptr}})

RECURSIVE augment_parallel(_, _)
augment_parallel(h, t) ==
  IF t = nullptr \/ h.s[t].vstat # vstat_uninitialized THEN h
  ELSE LET g == augment_parallel(augment_parallel(h, h.s[t].lch), h.s[t].rch)
           aug(c) == IF c = nullptr THEN 0 ELSE g.s[c].aug
       IN  Set(Set(g, t, "aug", aug(h.s[t].lch) + Last(h.s[t].vals).val + aug(h.s[t].rch)),
               t, "vstat", vstat(g, t))

find_value(x, v) == LET past == SelectSeq(x.vals, LAMBDA y : y.ver <= v)
                    IN  IF past = <<>> THEN 0 ELSE Last(past).val
RECURSIVE find(_, _, _, _)
find(s, t, v, k) ==
  IF t = nullptr THEN 0
  ELSE IF k = s[t].key THEN find_value(s[t], v)
  ELSE find(s, IF k < s[t].key THEN s[t].lch ELSE s[t].rch, v, k)

\* An end of the range is OPEN while it may lie inside the subtree.
RECURSIVE range_estimate(_, _, _, _, _, _, _)
range_estimate(s, t, v, l, r, left, right) ==
  IF t = nullptr THEN 0
  ELSE LET x == s[t] IN
       IF right = "OPEN" /\ r < x.key THEN range_estimate(s, x.lch, v, l, r, left, right)
       ELSE IF left = "OPEN" /\ l > x.key THEN range_estimate(s, x.rch, v, l, r, left, right)
       ELSE IF left = "CLOSE" /\ right = "CLOSE" /\ x.vstat <= v THEN x.aug
       ELSE range_estimate(s, x.lch, v, l, r, left, "CLOSE") + find_value(x, v)
            + range_estimate(s, x.rch, v, l, r, "CLOSE", right)
-----------------------------------------------------------------------------
(* interface.hpp: the tree Init loads, and a batch of either type. *)
Init ==
  /\ \E elems \in Loads :
       LET b == build([s |-> <<>>, n |-> 1], 0, elems, FALSE)
           h == augment_parallel(b.h, b.t)
       IN  /\ store = h.s /\ next = h.n /\ roots = <<[ver |-> 0, t |-> b.t]>>
           /\ log = [i \in DOMAIN elems |-> <<"load", elems[i]>>]
  /\ temps = {}

Version(elems) == Last(roots).ver + Len(elems)
Apply(op, elems) ==
  LET b == build([s |-> store, n |-> next], Last(roots).ver + 1, elems, TRUE)
      m == IF op = "INSERT" THEN copy_merge(b.h, Last(roots).t, b.t)
                            ELSE copy_subtract(b.h, Last(roots).t, b.t)
      h == augment_parallel(m.h, m.t)
  IN  /\ Len(roots) <= MaxBatches
      /\ store' = h.s /\ next' = h.n
      /\ roots' = Append(roots, [ver |-> Version(elems), t |-> m.t])
      /\ log' = log \o [i \in DOMAIN elems |-> <<op, elems[i]>>]
      /\ temps' = next .. b.h.n - 1
inserted == \E elems \in BoundedSeq(Keys, MaxElems) : Apply("INSERT", elems)
deleted == \E elems \in BoundedSeq(Keys, MaxElems) : Apply("DELETE", elems)
Next == inserted \/ deleted
Spec == Init /\ [][Next]_vars
-----------------------------------------------------------------------------
RECURSIVE Nodes(_, _)
Nodes(s, t) == IF t = nullptr THEN {} ELSE {t} \cup Nodes(s, s[t].lch) \cup Nodes(s, s[t].rch)
Alive == UNION {Nodes(store, roots[i].t) : i \in DOMAIN roots}

(* Every version is finished: a search tree on its keys, a heap on their   *)
(* priorities, every node with its sum, values in the order of their       *)
(* versions and none later than the version itself. *)
VersionsAreTreaps ==
  LET root == Last(roots) IN
  \A t \in Nodes(store, root.t) :
    LET x == store[t] IN
    /\ \A u \in Nodes(store, x.lch) : store[u].key < x.key /\ Hash[store[u].key] < Hash[x.key]
    /\ \A u \in Nodes(store, x.rch) : store[u].key > x.key /\ Hash[store[u].key] < Hash[x.key]
    /\ x.vstat # vstat_uninitialized /\ x.vstat <= root.ver
    /\ \A i \in 1 .. Len(x.vals) - 1 : x.vals[i].ver < x.vals[i + 1].ver

KeepsVersions == \A t \in Alive : t \in DOMAIN store' /\ store'[t] = store[t]

(* Nodes a version shares with the trees that later batches are made of are *)
(* never written or released again, whichever algorithm meets them first. *)
VersionsKept == [][KeepsVersions]_vars

(* Every node of the temporary tree of a batch is either part of the new    *)
(* version or released: none is lost on the way, none is released and used. *)
TemporariesPlaced == temps \cap DOMAIN store \subseteq Nodes(store, Last(roots).t)

(* The shortcut by vstat is exact: a range of any version the tree is asked *)
(* for counts what its keys count one by one. *)
RangeIsSum ==
  LET root == Last(roots) IN
  \A v \in 0 .. root.ver, l, r \in Keys : l <= r =>
     range_estimate(store, root.t, v, l, r, "OPEN", "OPEN")
       = MapThenSumSet(LAMBDA k : find(store, root.t, v, k), {k \in Keys : l <= k /\ k <= r})

(* At the end of a batch every key counts its insertions since its last     *)
(* deletion, through any sequence of merges and subtractions. *)
BatchEndsRight ==
  LET root == Last(roots)
      count[i \in 0 .. Len(log)] ==
        IF i = 0 THEN [k \in Keys |-> 0]
        ELSE [count[i - 1] EXCEPT ![log[i][2]] = IF log[i][1] = "DELETE" THEN 0 ELSE @ + 1]
  IN  \A k \in Keys : find(store, root.t, root.ver, k) = count[Len(log)][k]
=============================================================================
