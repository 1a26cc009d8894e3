------------------------------- MODULE Treap --------------------------------
(***************************************************************************)
(* The persistent treap of lib/treap: nodes on a heap, and the sequential  *)
(* path-copying algorithms every backend shares.                           *)
(*                                                                         *)
(* A version copies a key's node at most once, so the pointer to a node is *)
(* the pair <<ver, key>>: an allocation always returns a fresh pair.  A    *)
(* heap maps the allocated pointers to the fields that are not in the      *)
(* pointer.  An algorithm that allocates reads an old heap and returns     *)
(* [ref, new]: the pointer it hands back and the nodes it allocated.       *)
(***************************************************************************)
EXTENDS Integers, FiniteSets, FiniteSetsExt, TLC

CONSTANTS Keys,     \* the keys, a finite set of naturals
          Hash,     \* aes_hash::hash, a permutation of the 64-bit words
          nullptr

ASSUME KeysAssumption == IsFiniteSet(Keys) /\ Keys \subseteq Nat
\* aes_hash applies AES rounds with fixed keys: no two keys collide.
ASSUME HashAssumption ==
  /\ Hash \in [Keys -> Nat]
  /\ \A j, k \in Keys : Hash[j] = Hash[k] => j = k
\* The null pointer points at no node.
ASSUME NullAssumption == nullptr \notin Nat \X Keys

Ver(t) == t[1]
Key(t) == t[2]
Pry(t) == Hash[Key(t)]

aug_uninitialized == 0
Pointers(h) == DOMAIN h \cup {nullptr}

\* A node an algorithm allocates, at pointer t and not augmented yet.
Node(t, val, lch, rch) == [at |-> t, val |-> val, lch |-> lch, rch |-> rch]

\* The heap h with the nodes that new allocates.
Alloc(h, new) ==
  [t \in DOMAIN h \cup {n.at : n \in new} |->
     IF \E n \in new : n.at = t
     THEN LET n == CHOOSE m \in new : m.at = t
          IN [val |-> n.val, aug |-> aug_uninitialized, lch |-> n.lch, rch |-> n.rch]
     ELSE h[t]]

make_node(ver, key, lch, rch) == Node(<<ver, key>>, 1, lch, rch)

\* A copy of t's entry owned by version ver, which gets the value val and the
\* given children.  make_weak_copy itself leaves the children null.
Copy(ver, t, val, lch, rch) == Node(<<ver, Key(t)>>, val, lch, rch)
make_weak_copy(h, ver, t) == Copy(ver, t, h[t].val, nullptr, nullptr)

\* A copy of t that keeps one child and gets sub as the child in the given field.
CopyWith(h, ver, t, field, sub) ==
  Copy(ver, t, h[t].val, IF field = "lch" THEN sub ELSE h[t].lch,
                         IF field = "rch" THEN sub ELSE h[t].rch)

\* The child of t on the search path of key.
Side(key, t) == IF key < Key(t) THEN "lch" ELSE "rch"

\* A concatenation puts t_l on top of t_r.
Below(t_l, t_r) == Pry(t_l) < Pry(t_r)  \* mutant
Above(t_l, t_r) == Pry(t_l) > Pry(t_r)

\* A delete of t's key removes the node.
AnyOccurrence(h, t) == TRUE  \* mutant
LastOccurrence(h, t) == h[t].val = 1

\* Each recursive function is given by what a call does at one node, with f for
\* the function itself.
Nothing(ref) == [ref |-> ref, new |-> {}]
NoNode == [l |-> nullptr, r |-> nullptr, new |-> {}]

(* split_copy: t's keys below key and above key, as two trees. *)
SplitCall(h, ver, key, f, t) ==
  IF t = nullptr THEN NoNode
  ELSE LET sub == f[h[t][Side(key, t)]]
           me  == <<ver, Key(t)>>
       IN IF key < Key(t)
          THEN [l |-> sub.l, r |-> me, new |-> {CopyWith(h, ver, t, "lch", sub.r)} \cup sub.new]
          ELSE [l |-> me, r |-> sub.r, new |-> {CopyWith(h, ver, t, "rch", sub.l)} \cup sub.new]
split_copy(h, ver, tree, key) ==
  LET split[t \in Pointers(h)] == SplitCall(h, ver, key, split, t)
  IN split[tree]

process_deploy(h, ver, tree, key) ==
  LET sub == split_copy(h, ver, tree, key)
  IN [ref |-> <<ver, key>>, new |-> {make_node(ver, key, sub.l, sub.r)} \cup sub.new]

\* A search copies the nodes it passes.
PassCopy(h, ver, t, side, sub) ==
  [ref |-> <<ver, Key(t)>>, new |-> {CopyWith(h, ver, t, side, sub.ref)} \cup sub.new]

InsertCall(h, ver, key, f, t) ==
  IF t = nullptr
    THEN [ref |-> <<ver, key>>, new |-> {make_node(ver, key, nullptr, nullptr)}]
  ELSE IF Pry(t) > Hash[key]
    THEN PassCopy(h, ver, t, Side(key, t), f[h[t][Side(key, t)]])
  ELSE IF Key(t) = key
    THEN [ref |-> <<ver, key>>, new |-> {Copy(ver, t, h[t].val + 1, h[t].lch, h[t].rch)}]
  ELSE process_deploy(h, ver, t, key)
search_insert(h, ver, tree, key) ==
  LET insert[t \in Pointers(h)] == InsertCall(h, ver, key, insert, t)
  IN insert[tree]

(* process_concat: one tree from two whose keys do not overlap. *)
ConcatCall(h, ver, f, t_l, t_r) ==
  IF t_l = nullptr THEN Nothing(t_r)
  ELSE IF t_r = nullptr THEN Nothing(t_l)
  ELSE IF Above(t_l, t_r) THEN PassCopy(h, ver, t_l, "rch", f[<<h[t_l].rch, t_r>>])
  ELSE PassCopy(h, ver, t_r, "lch", f[<<t_l, h[t_r].lch>>])
process_concat(h, ver, left, right) ==
  LET concat[p \in Pointers(h) \X Pointers(h)] == ConcatCall(h, ver, concat, p[1], p[2])
  IN concat[<<left, right>>]

DeleteCall(h, ver, key, f, t) ==
  IF t = nullptr THEN Nothing(nullptr)
  ELSE IF Pry(t) > Hash[key]
    THEN PassCopy(h, ver, t, Side(key, t), f[h[t][Side(key, t)]])
  ELSE IF Key(t) # key THEN Nothing(t)
  ELSE IF LastOccurrence(h, t) THEN process_concat(h, ver, h[t].lch, h[t].rch)
  ELSE [ref |-> <<ver, key>>, new |-> {Copy(ver, t, h[t].val - 1, h[t].lch, h[t].rch)}]
search_delete(h, ver, tree, key) ==
  LET delete[t \in Pointers(h)] == DeleteCall(h, ver, key, delete, t)
  IN delete[tree]

\* Mutant: only the root stores its sum.
augment_root(h, tree) ==
  LET sum[t \in Pointers(h)] ==
        IF t = nullptr THEN 0 ELSE sum[h[t].lch] + h[t].val + sum[h[t].rch]
  IN [t \in DOMAIN h |-> IF t = tree THEN [h[t] EXCEPT !.aug = sum[t]] ELSE h[t]]

(* augment: the sum of a subtree's counters, stored in every node on the   *)
(* way that has none yet.  A stored sum is trusted and ends the descent.   *)
augment(h, tree) ==
  LET sum[t \in Pointers(h)] ==
        IF t = nullptr THEN 0
        ELSE IF h[t].aug # aug_uninitialized THEN h[t].aug
        ELSE sum[h[t].lch] + h[t].val + sum[h[t].rch]
      visited[t \in Pointers(h)] ==
        IF t = nullptr \/ h[t].aug # aug_uninitialized THEN {}
        ELSE {t} \cup visited[h[t].lch] \cup visited[h[t].rch]
      todo == visited[tree]
  IN [t \in DOMAIN h |-> IF t \in todo THEN [h[t] EXCEPT !.aug = sum[t]] ELSE h[t]]
-----------------------------------------------------------------------------
find(h, tree, key) ==
  LET at[t \in Pointers(h)] ==
        IF t = nullptr \/ Key(t) = key THEN t ELSE at[h[t][Side(key, t)]]
  IN at[tree]

(* range_estimate: the sum of the counters of the keys in l..r.  An OPEN   *)
(* end may still lie inside the subtree; a CLOSE end covers it, and a      *)
(* subtree covered at both ends contributes its stored sum.                *)
range_estimate(h, tree, l, r) ==
  LET est[p \in Pointers(h) \X {"OPEN", "CLOSE"} \X {"OPEN", "CLOSE"}] ==
        LET t == p[1]
        IN IF t = nullptr THEN 0
           ELSE IF p[2] = "CLOSE" /\ p[3] = "CLOSE" THEN h[t].aug
           ELSE IF p[3] = "OPEN" /\ r < Key(t) THEN est[<<h[t].lch, p[2], p[3]>>]
           ELSE IF p[2] = "OPEN" /\ l > Key(t) THEN est[<<h[t].rch, p[2], p[3]>>]
           ELSE est[<<h[t].lch, p[2], "CLOSE">>] + h[t].val + est[<<h[t].rch, "CLOSE", p[3]>>]
  IN est[<<tree, "OPEN", "OPEN">>]
-----------------------------------------------------------------------------
(* What a tree means, independently of the algorithms above. *)

\* The nodes of a tree.
Nodes(h, tree) ==
  LET below[t \in Pointers(h)] ==
        IF t = nullptr THEN {} ELSE {t} \cup below[h[t].lch] \cup below[h[t].rch]
  IN below[tree]

\* The number of times each key occurs in a tree.
Contents(h, tree) ==
  LET nodes == Nodes(h, tree)
  IN [k \in Keys |-> MapThenSumSet(LAMBDA t : h[t].val, {t \in nodes : Key(t) = k})]

SumOf(c, S) == MapThenSumSet(LAMBDA k : c[k], S)

\* Search order on keys, heap order on priorities, and no empty node.
IsTreap(h, tree) ==
  \A t \in Nodes(h, tree) :
     /\ h[t].val > 0
     /\ \A u \in Nodes(h, h[t].lch) : Key(u) < Key(t) /\ Pry(u) < Pry(t)
     /\ \A u \in Nodes(h, h[t].rch) : Key(u) > Key(t) /\ Pry(u) < Pry(t)

(* build_parallel.  The keys and their priorities determine the treap, so  *)
(* what the divide and conquer of build and merge makes of elements that   *)
(* contain each key k c[k] times is stated directly: k's subtree is the    *)
(* keys it reaches without passing a higher priority, and each side of it  *)
(* is led by its highest priority.  The nodes are of version 0 and carry   *)
(* their sums (augment_parallel).                                          *)
Highest(S) == IF S = {} THEN nullptr
              ELSE <<0, CHOOSE k \in S : \A j \in S : Hash[j] <= Hash[k]>>

build_parallel(c) ==
  LET present == {k \in Keys : c[k] > 0}
      \* x lies between j and k
      Between(j, k) == {x \in present : (j <= x /\ x <= k) \/ (k <= x /\ x <= j)}
      Subtree(k) == {j \in present : \A x \in Between(j, k) : Hash[x] <= Hash[k]}
  IN [ref |-> Highest(present),
      new |-> [t \in {<<0, k>> : k \in present} |->
                 LET sub == Subtree(Key(t))
                 IN [val |-> c[Key(t)],
                     aug |-> SumOf(c, sub),
                     lch |-> Highest({j \in sub : j < Key(t)}),
                     rch |-> Highest({j \in sub : j > Key(t)})]]]
=============================================================================
