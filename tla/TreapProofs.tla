---------------------------- MODULE TreapProofs -----------------------------
(***************************************************************************)
(* The sequential algorithms of the treap return the treap they should,    *)
(* for all keys, priorities and contents: search_insert, search_delete,    *)
(* split_copy, process_deploy, process_concat and build_parallel; augment  *)
(* stores the right sums, and range_estimate adds up the right keys.       *)
(*                                                                         *)
(* Keys and priorities determine a treap.  So what a pointer is to lead to *)
(* can be said without following it: Holds(D, cs, p, c, S) tells that p is *)
(* a node, finished according to the contents cs of its own version, below *)
(* which that version has just the keys S, with the counts of c.  A new    *)
(* node shares a subtree of an old version when the two agree there.  The  *)
(* recursion goes down in priority, and each proof is an induction on a    *)
(* bound of the priorities.                                                *)
(***************************************************************************)
EXTENDS Treap, FiniteSetTheorems, WellFoundedInduction, TLAPS

-----------------------------------------------------------------------------
(* Induction, in the form of sets. *)
LEMMA LeastElement == ASSUME NEW T \in SUBSET Nat, T # {} PROVE \E n \in T : \A m \in T : n <= m
<1>1. \E x \in T : \A y \in T : ~ (<<y, x>> \in OpToRel(<, Nat))
  <2>1. IsWellFoundedOn(OpToRel(<, Nat), Nat) BY NatLessThanWellFounded, Zenon
  <2> HIDE DEF OpToRel
  <2> QED BY <2>1, WFMin, Zenon
<1>2. PICK x \in T : \A y \in T : ~ (<<y, x>> \in OpToRel(<, Nat)) BY <1>1, Zenon
<1>3. \A y \in T : ~(y < x) BY <1>2 DEF OpToRel
<1> QED BY <1>3

\* A set that holds 0 and every successor of its members holds all of Nat.
LEMMA SetInduction ==
  ASSUME NEW T, 0 \in T, \A n \in Nat : n \in T => n + 1 \in T PROVE \A n \in Nat : n \in T
<1>1. SUFFICES ASSUME Nat \ T # {} PROVE FALSE OBVIOUS
<1>2. PICK n \in Nat \ T : \A m \in Nat \ T : n <= m BY <1>1, LeastElement
<1>3. n # 0 /\ n - 1 \in Nat /\ n - 1 < n BY <1>2
<1>4. n - 1 \in T BY <1>2, <1>3
<1>5. n - 1 + 1 \in T BY <1>3, <1>4
<1> QED BY <1>5, <1>2

\* A finite set of naturals has an upper bound.
LEMMA FiniteBounded ==
  ASSUME NEW S \in SUBSET Nat, IsFiniteSet(S) PROVE \E n \in Nat : \A k \in S : k < n
<1> DEFINE T == {n \in Nat : \A U \in SUBSET Nat : IsFiniteSet(U) /\ Cardinality(U) = n
                                => \E b \in Nat : \A k \in U : k < b}
<1>1. 0 \in T
  <2>1. \A U \in SUBSET Nat : IsFiniteSet(U) /\ Cardinality(U) = 0 => \A k \in U : k < 0 BY FS_EmptySet
  <2> QED BY <2>1
<1>2. ASSUME NEW n \in Nat, n \in T PROVE n + 1 \in T
  <2> SUFFICES ASSUME NEW U \in SUBSET Nat, IsFiniteSet(U), Cardinality(U) = n + 1
               PROVE  \E b \in Nat : \A k \in U : k < b
    OBVIOUS
  <2>1. U # {} BY FS_EmptySet
  <2>2. PICK x \in U : TRUE BY <2>1
  <2>3. IsFiniteSet(U \ {x}) /\ Cardinality(U \ {x}) = n
    <3> HIDE DEF T
    <3>1. IsFiniteSet(U \ {x}) /\ Cardinality(U \ {x}) = Cardinality(U) - 1 BY <2>2, FS_RemoveElement
    <3>2. n + 1 - 1 = n OBVIOUS
    <3> QED BY <3>1, <3>2
  <2>4. PICK b \in Nat : \A k \in U \ {x} : k < b BY <1>2, <2>3
  <2> DEFINE m == IF b < x + 1 THEN x + 1 ELSE b
  <2>5. m \in Nat /\ x < m /\ b <= m BY <2>2
  <2> HIDE DEF m
  <2>6. \A k \in U : k < m BY <2>4, <2>5
  <2> QED BY <2>5, <2>6
<1> HIDE DEF T
<1>3. \A n \in Nat : n \in T BY <1>1, <1>2, SetInduction
<1>4. Cardinality(S) \in Nat BY FS_CardinalityType
<1> QED BY <1>3, <1>4 DEF T

\* Among some keys one has the highest priority: the one a subtree is rooted at.
LEMMA LargestElement ==
  ASSUME NEW S \in SUBSET Keys, S # {} PROVE \E k \in S : \A j \in S : Hash[j] <= Hash[k]
<1>1. PICK N \in Nat : \A k \in Keys : Hash[k] < N
  <2> DEFINE H == {Hash[k] : k \in Keys}
  <2>1. H \in SUBSET Nat BY HashAssumption
  <2>3. Hash \in Surjection(Keys, H) BY HashAssumption DEF Surjection
  <2> HIDE DEF H
  <2>4. IsFiniteSet(H) BY <2>3, KeysAssumption, FS_Surjection
  <2>2. PICK n \in Nat : \A x \in H : x < n BY <2>1, <2>4, FiniteBounded
  <2> QED BY <2>2 DEF H
<1> DEFINE T == {N - Hash[k] : k \in S}
<1>2. T \in SUBSET Nat /\ T # {} BY <1>1, HashAssumption
<1>3. PICK n \in T : \A m \in T : n <= m BY <1>2, LeastElement
<1>4. PICK k \in S : n = N - Hash[k] BY <1>3
<1>5. \A j \in S : N - Hash[k] <= N - Hash[j] BY <1>3, <1>4
<1>6. \A j \in S : Hash[j] \in Nat BY HashAssumption
<1> QED BY <1>4, <1>5, <1>6

Top == CHOOSE n \in Nat : \A k \in Keys : k < n

\* Top lies above every key, -1 below.
LEMMA TopBounds == Top \in Nat /\ \A k \in Keys : k \in Nat /\ k < Top /\ -1 < k
<1>1. \E n \in Nat : \A k \in Keys : k < n BY FiniteBounded, KeysAssumption
<1>2. Top \in Nat /\ \A k \in Keys : k < Top BY <1>1 DEF Top
<1> QED BY <1>2, KeysAssumption
-----------------------------------------------------------------------------
(* What a tree stands for.  The keys and their priorities determine the     *)
(* treap, so the subtree below a node of a version is known from the        *)
(* contents c of the version.                                               *)
Counts == [Keys -> Nat]
Present(c) == {k \in Keys : c[k] > 0}
Inside(c, lo, hi) == {k \in Keys : c[k] > 0 /\ lo < k /\ k < hi}
Between(j, k) == {x \in Keys : (j <= x /\ x <= k) \/ (k <= x /\ x <= j)}

\* The keys of the subtree k leads, and the keys on the path from the root to k.
SubKeys(c, k) == {j \in Keys : c[j] > 0 /\ \A x \in Between(j, k) : c[x] > 0 => Hash[x] <= Hash[k]}
Ancestors(c, k) ==
  {j \in Keys : /\ c[j] > 0 /\ Hash[k] < Hash[j]
                /\ \A x \in Between(j, k) : c[x] > 0 => Hash[x] <= Hash[j]}

\* The keys between lo and hi are a subtree: at both ends there is a higher
\* priority or nothing.
Fence(c, f, S) == f \in {-1, Top} \/ (f \in Keys /\ c[f] > 0 /\ \A j \in S : Hash[j] < Hash[f])
Fenced(c, lo, hi) == Fence(c, lo, Inside(c, lo, hi)) /\ Fence(c, hi, Inside(c, lo, hi))

Leads(k, S) == k \in S /\ \A j \in S : Hash[j] <= Hash[k]

\* Among the nodes D, where version v is to hold cs[v], p is the subtree of the
\* keys S of contents c.
Holds(D, cs, p, c, S) ==
  IF S = {} THEN p = nullptr
  ELSE p \in D /\ Key(p) \in S /\ SubKeys(cs[Ver(p)], Key(p)) = S /\ \A j \in S : cs[Ver(p)][j] = c[j]

\* n is what the node x is to be.
NodeIs(D, cs, x, n) ==
  LET c == cs[Ver(x)]
      S == SubKeys(c, Key(x))
  IN /\ n.val = c[Key(x)] /\ n.val > 0
     /\ Holds(D, cs, n.lch, c, {j \in S : j < Key(x)})
     /\ Holds(D, cs, n.rch, c, {j \in S : j > Key(x)})

\* Keys and priorities are naturals.
LEMMA KeyFacts == \A k \in Keys : k \in Nat /\ k \in Int /\ Hash[k] \in Nat /\ -1 < k /\ k < Top /\ Top \in Nat
BY TopBounds, HashAssumption

\* The end of an interval is a key, or lies beyond all of them.
LEMMA FencePoint ==
  ASSUME NEW c, NEW f, NEW S, Fence(c, f, S) PROVE f \in Int /\ (f \in Keys \/ f = -1 \/ f = Top)
BY KeyFacts, TopBounds DEF Fence

\* Between two fences the subtree that leads is all of the interval.
LEMMA SubIsInside ==
  ASSUME NEW c \in Counts, NEW lo, NEW hi, Fenced(c, lo, hi), NEW k, Leads(k, Inside(c, lo, hi))
  PROVE  SubKeys(c, k) = Inside(c, lo, hi)
<1>0. k \in Keys /\ c[k] > 0 /\ lo < k /\ k < hi /\ lo \in Int /\ hi \in Int BY FencePoint DEF Leads, Inside, Fenced
<1>1. ASSUME NEW j \in Inside(c, lo, hi) PROVE j \in SubKeys(c, k)
  <2>1. j \in Keys /\ c[j] > 0 /\ lo < j /\ j < hi BY <1>1 DEF Inside
  <2>2. ASSUME NEW x \in Between(j, k), c[x] > 0 PROVE Hash[x] <= Hash[k]
    <3>1. x \in Inside(c, lo, hi) BY <1>0, <2>1, <2>2, KeyFacts DEF Between, Inside
    <3> QED BY <3>1 DEF Leads
  <2> QED BY <2>1, <2>2 DEF SubKeys
<1>2. ASSUME NEW j \in SubKeys(c, k) PROVE j \in Inside(c, lo, hi)
  <2>1. j \in Keys /\ c[j] > 0 /\ \A x \in Between(j, k) : c[x] > 0 => Hash[x] <= Hash[k] BY <1>2 DEF SubKeys
  <2>2. \A f \in Keys : c[f] > 0 /\ Hash[k] < Hash[f] => f \notin Between(j, k) BY <1>0, <2>1, KeyFacts
  <2>3. lo < j
    <3>1. CASE lo = -1 BY <3>1, <2>1, KeyFacts
    <3>2. CASE lo = Top BY <3>2, <1>0, KeyFacts
    <3>3. CASE lo \in Keys /\ c[lo] > 0 /\ Hash[k] < Hash[lo]
      BY <3>3, <2>1, <2>2, <1>0, KeyFacts DEF Between
    <3> QED BY <3>1, <3>2, <3>3 DEF Fenced, Fence, Leads
  <2>4. j < hi
    <3>1. CASE hi = -1 BY <3>1, <1>0, KeyFacts
    <3>2. CASE hi = Top BY <3>2, <2>1, KeyFacts
    <3>3. CASE hi \in Keys /\ c[hi] > 0 /\ Hash[k] < Hash[hi]
      BY <3>3, <2>1, <2>2, <1>0, KeyFacts DEF Between
    <3> QED BY <3>1, <3>2, <3>3 DEF Fenced, Fence, Leads
  <2> QED BY <2>1, <2>3, <2>4 DEF Inside
<1> QED BY <1>1, <1>2

\* The highest key splits the keys of a subtree into those of its two children.
LEMMA Children ==
  ASSUME NEW c \in Counts, NEW lo, NEW hi, Fenced(c, lo, hi), NEW k, Leads(k, Inside(c, lo, hi))
  PROVE  /\ Fenced(c, lo, k) /\ Fenced(c, k, hi)
         /\ {j \in Inside(c, lo, hi) : j < k} = Inside(c, lo, k)
         /\ {j \in Inside(c, lo, hi) : j > k} = Inside(c, k, hi)
         /\ \A j \in Inside(c, lo, k) \cup Inside(c, k, hi) : Hash[j] < Hash[k]
<1>0. k \in Keys /\ c[k] > 0 /\ lo < k /\ k < hi /\ lo \in Int /\ hi \in Int BY FencePoint DEF Leads, Inside, Fenced
<1>1. {j \in Inside(c, lo, hi) : j < k} = Inside(c, lo, k) BY <1>0, KeyFacts DEF Inside
<1>2. {j \in Inside(c, lo, hi) : j > k} = Inside(c, k, hi) BY <1>0, KeyFacts DEF Inside
<1>3. ASSUME NEW j \in Inside(c, lo, k) \cup Inside(c, k, hi) PROVE Hash[j] < Hash[k]
  <2>1. j \in Keys /\ j # k BY <1>0, <1>3, KeyFacts DEF Inside
  <2>2. Hash[j] # Hash[k] BY <2>1, <1>0, HashAssumption
  <2>3. Hash[j] <= Hash[k] BY <1>1, <1>2, <1>3 DEF Leads
  <2> QED BY <1>0, <2>1, <2>2, <2>3, KeyFacts
<1>4. Inside(c, lo, k) \subseteq Inside(c, lo, hi) /\ Inside(c, k, hi) \subseteq Inside(c, lo, hi) BY <1>1, <1>2
<1> QED BY <1>0, <1>1, <1>2, <1>3, <1>4 DEF Fenced, Fence

\* A subtree stays held when nodes are added.
LEMMA HoldsMore ==
  ASSUME NEW D, NEW E, D \subseteq E, NEW cs, NEW p, NEW c, NEW S, Holds(D, cs, p, c, S) PROVE Holds(E, cs, p, c, S)
BY DEF Holds

\* A node stays what it is to be when nodes are added.
LEMMA NodeMore ==
  ASSUME NEW D, NEW E, D \subseteq E, NEW cs, NEW x, NEW n, NodeIs(D, cs, x, n) PROVE NodeIs(E, cs, x, n)
BY HoldsMore DEF NodeIs

\* What is read at a node of a held subtree.
LEMMA NodeRead ==
  ASSUME NEW D, NEW E, NEW cs, NEW p, NEW c \in Counts, NEW lo, NEW hi, NEW n, Fenced(c, lo, hi),
         Holds(E, cs, p, c, Inside(c, lo, hi)), p # nullptr, NodeIs(D, cs, p, n)
  PROVE  /\ Leads(Key(p), Inside(c, lo, hi)) /\ n.val = c[Key(p)]
         /\ Fenced(c, lo, Key(p)) /\ Fenced(c, Key(p), hi)
         /\ Holds(D, cs, n.lch, c, Inside(c, lo, Key(p))) /\ Holds(D, cs, n.rch, c, Inside(c, Key(p), hi))
         /\ \A j \in Inside(c, lo, Key(p)) \cup Inside(c, Key(p), hi) : Hash[j] < Hash[Key(p)]
<1> DEFINE S == Inside(c, lo, hi)  k == Key(p)  d == cs[Ver(p)]
<1>1. k \in S /\ SubKeys(d, k) = S /\ \A j \in S : d[j] = c[j] BY DEF Holds
<1>2. \A j \in S : Hash[j] <= Hash[k]
  <2> SUFFICES ASSUME NEW j \in S PROVE Hash[j] <= Hash[k] OBVIOUS
  <2>1. j \in SubKeys(d, k) BY <1>1
  <2>2. k \in Keys BY <1>1 DEF Inside
  <2> HIDE DEF S, d, k
  <2>3. j \in Keys /\ d[j] > 0 /\ j \in Between(j, k) BY <2>1, <2>2, KeyFacts DEF SubKeys, Between
  <2> QED BY <2>1, <2>3 DEF SubKeys
<1>3. Leads(k, S) BY <1>1, <1>2 DEF Leads
<1>4. /\ Fenced(c, lo, k) /\ Fenced(c, k, hi)
      /\ {j \in S : j < k} = Inside(c, lo, k) /\ {j \in S : j > k} = Inside(c, k, hi)
      /\ \A j \in Inside(c, lo, k) \cup Inside(c, k, hi) : Hash[j] < Hash[k]
  BY <1>3, Children
<1>5. /\ n.val = d[k]
      /\ Holds(D, cs, n.lch, d, Inside(c, lo, k)) /\ Holds(D, cs, n.rch, d, Inside(c, k, hi))
  <2> HIDE DEF S, k, d
  <2>1. SubKeys(d, k) = S BY <1>1
  <2> QED BY <2>1, <1>4 DEF NodeIs, S, k, d
<1>6. \A j \in Inside(c, lo, k) \cup Inside(c, k, hi) : d[j] = c[j] BY <1>1, <1>4
<1> HIDE DEF S, k, d
<1>7. Holds(D, cs, n.lch, c, Inside(c, lo, k)) /\ Holds(D, cs, n.rch, c, Inside(c, k, hi))
  BY <1>5, <1>6 DEF Holds
<1>8. n.val = c[k] BY <1>1, <1>5
<1> QED BY <1>3, <1>4, <1>7, <1>8 DEF S, k

\* What makes a node the root of a subtree.
LEMMA NodeMade ==
  ASSUME NEW D, NEW cs, NEW x, NEW c \in Counts, c = cs[Ver(x)], NEW lo, NEW hi, NEW n, Fenced(c, lo, hi),
         Leads(Key(x), Inside(c, lo, hi)), n.val = c[Key(x)],
         Holds(D, cs, n.lch, c, Inside(c, lo, Key(x))), Holds(D, cs, n.rch, c, Inside(c, Key(x), hi))
  PROVE  /\ NodeIs(D, cs, x, n)
         /\ x \in D => Holds(D, cs, x, c, Inside(c, lo, hi))
<1> DEFINE S == Inside(c, lo, hi)  k == Key(x)
<1>1. SubKeys(c, k) = S BY SubIsInside
<1>2. {j \in S : j < k} = Inside(c, lo, k) /\ {j \in S : j > k} = Inside(c, k, hi) BY Children
<1>3. c[k] > 0 /\ k \in S BY DEF Leads, Inside
<1>4. n.val > 0 BY <1>3
<1> HIDE DEF S, k
<1>5. NodeIs(D, cs, x, n) BY <1>1, <1>2, <1>3, <1>4 DEF NodeIs, S, k
<1>6. x \in D => Holds(D, cs, x, c, S) BY <1>1, <1>3 DEF Holds, k
<1> QED BY <1>5, <1>6 DEF S

\* A change of q's counter leaves the subtrees that do not hold q alone.
Differ(c, d, q) == \A k \in Keys : k # q => c[k] = d[k]

\* Where two contents agree, a subtree held for one is held for the other.
LEMMA HoldsSame ==
  ASSUME NEW D, NEW cs, NEW p, NEW c, NEW d, NEW q, Differ(c, d, q), NEW lo, NEW hi,
         q \notin Inside(c, lo, hi), q \notin Inside(d, lo, hi)
  PROVE  /\ Inside(c, lo, hi) = Inside(d, lo, hi)
         /\ Holds(D, cs, p, c, Inside(c, lo, hi)) => Holds(D, cs, p, d, Inside(d, lo, hi))
<1>1. Inside(c, lo, hi) = Inside(d, lo, hi) BY DEF Inside, Differ
<1>2. \A j \in Inside(c, lo, hi) : j \in Keys /\ j # q BY DEF Inside
<1>3. \A j \in Inside(c, lo, hi) : c[j] = d[j] BY <1>2 DEF Differ
<1> QED BY <1>1, <1>3 DEF Holds
-----------------------------------------------------------------------------
(* The recursive functions of the algorithms exist, because priorities fall *)
(* on the way down, so that each one returns what its call says.            *)
HeapOrdered(h) ==
  /\ DOMAIN h \subseteq Nat \X Keys
  /\ \A t \in DOMAIN h : \A u \in {h[t].lch, h[t].rch} :
        u \in Pointers(h) /\ (u # nullptr => Pry(u) < Pry(t))
Rank(t) == IF t = nullptr THEN 0 ELSE Pry(t) + 1

\* Every child of a node has a smaller rank, so that a descent ends: the order of
\* the recursive calls.
LEMMA Ranks ==
  ASSUME NEW h, HeapOrdered(h)
  PROVE  /\ nullptr \notin DOMAIN h
         /\ \A t \in DOMAIN h : Ver(t) \in Nat /\ Key(t) \in Keys /\ t = <<Ver(t), Key(t)>>
         /\ \A t \in Pointers(h) : Rank(t) \in Nat
         /\ \A t \in DOMAIN h : h[t].lch \in Pointers(h) /\ h[t].rch \in Pointers(h)
                             /\ Rank(h[t].lch) < Rank(t) /\ Rank(h[t].rch) < Rank(t)
         /\ \E N \in Nat : \A t \in Pointers(h) : Rank(t) < N
<1>1. nullptr \notin DOMAIN h BY NullAssumption DEF HeapOrdered
<1>2. \A t \in DOMAIN h : Ver(t) \in Nat /\ Key(t) \in Keys /\ t = <<Ver(t), Key(t)>> BY DEF HeapOrdered, Ver, Key
<1>3. \A t \in DOMAIN h : Pry(t) \in Nat BY <1>2, HashAssumption DEF Pry
<1>4. \A t \in Pointers(h) : Rank(t) \in Nat BY <1>3 DEF Pointers, Rank
<1>5. \A t \in DOMAIN h : \A u \in {h[t].lch, h[t].rch} : u \in Pointers(h) /\ Rank(u) < Rank(t)
  <2> SUFFICES ASSUME NEW t \in DOMAIN h, NEW u \in {h[t].lch, h[t].rch} PROVE u \in Pointers(h) /\ Rank(u) < Rank(t)
    OBVIOUS
  <2>1. u \in Pointers(h) /\ (u # nullptr => Pry(u) < Pry(t)) BY DEF HeapOrdered
  <2>2. u # nullptr => Pry(u) \in Nat BY <1>3, <2>1 DEF Pointers
  <2> QED BY <1>1, <1>3, <2>1, <2>2 DEF Rank
<1>6. \E N \in Nat : \A t \in Pointers(h) : Rank(t) < N
  <2>1. CASE Keys = {}
    <3>1. DOMAIN h = {} BY <1>2, <2>1
    <3> QED BY <3>1 DEF Pointers, Rank
  <2>2. CASE Keys # {}
    <3>1. PICK k \in Keys : \A j \in Keys : Hash[j] <= Hash[k] BY <2>2, LargestElement
    <3>2. \A t \in Pointers(h) : Rank(t) < Hash[k] + 2 BY <1>2, <3>1, HashAssumption DEF Pointers, Rank, Pry
    <3>3. Hash[k] + 2 \in Nat BY HashAssumption
    <3> QED BY <3>2, <3>3
  <2> QED BY <2>1, <2>2
<1> QED BY <1>1, <1>2, <1>4, <1>5, <1>6

SideOf(h, key, t) == h[t][Side(key, t)]

\* The child on the side of a key.
LEMMA Sides ==
  ASSUME NEW h, NEW key, NEW t
  PROVE  /\ key < Key(t) => SideOf(h, key, t) = h[t].lch
         /\ ~(key < Key(t)) => SideOf(h, key, t) = h[t].rch
BY DEF SideOf, Side

SplitFn(h, ver, key) == CHOOSE f : f = [t \in Pointers(h) |-> SplitCall(h, ver, key, f, t)]

\* split_copy returns what its body computes from its own results below.
LEMMA SplitReturns ==
  ASSUME NEW h, HeapOrdered(h), NEW ver, NEW key, NEW t \in Pointers(h)
  PROVE  /\ split_copy(h, ver, t, key) = SplitFn(h, ver, key)[t]
         /\ split_copy(h, ver, t, key) = SplitCall(h, ver, key, SplitFn(h, ver, key), t)
<1> DEFINE S == Pointers(h)
           T == {n \in Nat : \E f : f = [u \in S |-> IF Rank(u) < n THEN SplitCall(h, ver, key, f, u) ELSE 0]}
<1>1. ASSUME NEW u \in S, NEW f, NEW g, \A w \in S : Rank(w) < Rank(u) => f[w] = g[w]
      PROVE  SplitCall(h, ver, key, f, u) = SplitCall(h, ver, key, g, u)
  <2>1. CASE u = nullptr BY <2>1 DEF SplitCall
  <2>2. CASE u # nullptr
    <3>1. SideOf(h, key, u) \in S /\ Rank(SideOf(h, key, u)) < Rank(u) BY <2>2, Ranks, Sides DEF Pointers
    <3>2. f[h[u][Side(key, u)]] = g[h[u][Side(key, u)]] BY <1>1, <3>1 DEF SideOf
    <3> QED BY <3>2 DEF SplitCall
  <2> QED BY <2>1, <2>2
<1>2. 0 \in T
  <2>1. \A u \in S : ~(Rank(u) < 0) BY Ranks
  <2>2. \E f : f = [u \in S |-> 0] OBVIOUS
  <2>3. \A f : [u \in S |-> IF Rank(u) < 0 THEN SplitCall(h, ver, key, f, u) ELSE 0] = [u \in S |-> 0] BY <2>1
  <2> HIDE DEF S
  <2> QED BY <2>2, <2>3
<1>3. ASSUME NEW n \in Nat, n \in T PROVE n + 1 \in T
  <2>1. PICK f : f = [u \in S |-> IF Rank(u) < n THEN SplitCall(h, ver, key, f, u) ELSE 0] BY <1>3
  <2> DEFINE g == [u \in S |-> IF Rank(u) < n + 1 THEN SplitCall(h, ver, key, f, u) ELSE 0]
  <2>2. \A u \in S : Rank(u) < n => f[u] = g[u]
    <3>1. \A u \in S : Rank(u) < n => Rank(u) < n + 1 BY Ranks
    <3> HIDE DEF S
    <3> QED BY <2>1, <3>1
  <2>3. \A u \in S : Rank(u) < n + 1 => SplitCall(h, ver, key, f, u) = SplitCall(h, ver, key, g, u)
    <3> SUFFICES ASSUME NEW u \in S, Rank(u) < n + 1
                 PROVE  SplitCall(h, ver, key, f, u) = SplitCall(h, ver, key, g, u)
      OBVIOUS
    <3>1. \A w \in S : Rank(w) < Rank(u) => f[w] = g[w] BY <2>2, Ranks
    <3> HIDE DEF g, S
    <3> QED BY <1>1, <3>1
  <2>4. g = [u \in S |-> IF Rank(u) < n + 1 THEN SplitCall(h, ver, key, g, u) ELSE 0] BY <2>3
  <2> HIDE DEF g, S
  <2> QED BY <2>4
<1>4. PICK N \in Nat : \A u \in S : Rank(u) < N BY Ranks
<1>5. N \in T
  <2> HIDE DEF T, S
  <2>1. \A n \in Nat : n \in T BY <1>2, <1>3, SetInduction
  <2> QED BY <2>1
<1>6. PICK f : f = [u \in S |-> IF Rank(u) < N THEN SplitCall(h, ver, key, f, u) ELSE 0] BY <1>5
<1>7. f = [u \in S |-> SplitCall(h, ver, key, f, u)]
  <2>1. \A u \in S : (IF Rank(u) < N THEN SplitCall(h, ver, key, f, u) ELSE 0) = SplitCall(h, ver, key, f, u) BY <1>4
  <2> HIDE DEF S
  <2> QED BY <1>6, <2>1
<1>8. SplitFn(h, ver, key) = [u \in Pointers(h) |-> SplitCall(h, ver, key, SplitFn(h, ver, key), u)]
  BY <1>7 DEF SplitFn
<1>9. split_copy(h, ver, t, key) = SplitFn(h, ver, key)[t] BY DEF split_copy, SplitFn
<1> HIDE DEF S
<1>10. SplitFn(h, ver, key)[t] = SplitCall(h, ver, key, SplitFn(h, ver, key), t) BY <1>8
<1> QED BY <1>9, <1>10

InsertFn(h, ver, key) == CHOOSE f : f = [t \in Pointers(h) |-> InsertCall(h, ver, key, f, t)]

\* So does search_insert.
LEMMA InsertReturns ==
  ASSUME NEW h, HeapOrdered(h), NEW ver, NEW key, NEW t \in Pointers(h)
  PROVE  /\ search_insert(h, ver, t, key) = InsertFn(h, ver, key)[t]
         /\ search_insert(h, ver, t, key) = InsertCall(h, ver, key, InsertFn(h, ver, key), t)
<1> DEFINE S == Pointers(h)
           T == {n \in Nat : \E f : f = [u \in S |-> IF Rank(u) < n THEN InsertCall(h, ver, key, f, u) ELSE 0]}
<1>1. ASSUME NEW u \in S, NEW f, NEW g, \A w \in S : Rank(w) < Rank(u) => f[w] = g[w]
      PROVE  InsertCall(h, ver, key, f, u) = InsertCall(h, ver, key, g, u)
  <2>1. CASE u = nullptr BY <2>1 DEF InsertCall
  <2>2. CASE u # nullptr
    <3>1. SideOf(h, key, u) \in S /\ Rank(SideOf(h, key, u)) < Rank(u) BY <2>2, Ranks, Sides DEF Pointers
    <3>2. f[h[u][Side(key, u)]] = g[h[u][Side(key, u)]] BY <1>1, <3>1 DEF SideOf
    <3> QED BY <3>2 DEF InsertCall
  <2> QED BY <2>1, <2>2
<1>2. 0 \in T
  <2>1. \A u \in S : ~(Rank(u) < 0) BY Ranks
  <2>2. \E f : f = [u \in S |-> 0] OBVIOUS
  <2>3. \A f : [u \in S |-> IF Rank(u) < 0 THEN InsertCall(h, ver, key, f, u) ELSE 0] = [u \in S |-> 0] BY <2>1
  <2> HIDE DEF S
  <2> QED BY <2>2, <2>3
<1>3. ASSUME NEW n \in Nat, n \in T PROVE n + 1 \in T
  <2>1. PICK f : f = [u \in S |-> IF Rank(u) < n THEN InsertCall(h, ver, key, f, u) ELSE 0] BY <1>3
  <2> DEFINE g == [u \in S |-> IF Rank(u) < n + 1 THEN InsertCall(h, ver, key, f, u) ELSE 0]
  <2>2. \A u \in S : Rank(u) < n => f[u] = g[u]
    <3>1. \A u \in S : Rank(u) < n => Rank(u) < n + 1 BY Ranks
    <3> HIDE DEF S
    <3> QED BY <2>1, <3>1
  <2>3. \A u \in S : Rank(u) < n + 1 => InsertCall(h, ver, key, f, u) = InsertCall(h, ver, key, g, u)
    <3> SUFFICES ASSUME NEW u \in S, Rank(u) < n + 1
                 PROVE  InsertCall(h, ver, key, f, u) = InsertCall(h, ver, key, g, u)
      OBVIOUS
    <3>1. \A w \in S : Rank(w) < Rank(u) => f[w] = g[w] BY <2>2, Ranks
    <3> HIDE DEF g, S
    <3> QED BY <1>1, <3>1
  <2>4. g = [u \in S |-> IF Rank(u) < n + 1 THEN InsertCall(h, ver, key, g, u) ELSE 0] BY <2>3
  <2> HIDE DEF g, S
  <2> QED BY <2>4
<1>4. PICK N \in Nat : \A u \in S : Rank(u) < N BY Ranks
<1>5. N \in T
  <2> HIDE DEF T, S
  <2>1. \A n \in Nat : n \in T BY <1>2, <1>3, SetInduction
  <2> QED BY <2>1
<1>6. PICK f : f = [u \in S |-> IF Rank(u) < N THEN InsertCall(h, ver, key, f, u) ELSE 0] BY <1>5
<1>7. f = [u \in S |-> InsertCall(h, ver, key, f, u)]
  <2>1. \A u \in S : (IF Rank(u) < N THEN InsertCall(h, ver, key, f, u) ELSE 0) = InsertCall(h, ver, key, f, u) BY <1>4
  <2> HIDE DEF S
  <2> QED BY <1>6, <2>1
<1>8. InsertFn(h, ver, key) = [u \in Pointers(h) |-> InsertCall(h, ver, key, InsertFn(h, ver, key), u)]
  BY <1>7 DEF InsertFn
<1>9. search_insert(h, ver, t, key) = InsertFn(h, ver, key)[t] BY DEF search_insert, InsertFn
<1> HIDE DEF S
<1>10. InsertFn(h, ver, key)[t] = InsertCall(h, ver, key, InsertFn(h, ver, key), t) BY <1>8
<1> QED BY <1>9, <1>10

DeleteFn(h, ver, key) == CHOOSE f : f = [t \in Pointers(h) |-> DeleteCall(h, ver, key, f, t)]

\* So does search_delete.
LEMMA DeleteReturns ==
  ASSUME NEW h, HeapOrdered(h), NEW ver, NEW key, NEW t \in Pointers(h)
  PROVE  /\ search_delete(h, ver, t, key) = DeleteFn(h, ver, key)[t]
         /\ search_delete(h, ver, t, key) = DeleteCall(h, ver, key, DeleteFn(h, ver, key), t)
<1> DEFINE S == Pointers(h)
           T == {n \in Nat : \E f : f = [u \in S |-> IF Rank(u) < n THEN DeleteCall(h, ver, key, f, u) ELSE 0]}
<1>1. ASSUME NEW u \in S, NEW f, NEW g, \A w \in S : Rank(w) < Rank(u) => f[w] = g[w]
      PROVE  DeleteCall(h, ver, key, f, u) = DeleteCall(h, ver, key, g, u)
  <2>1. CASE u = nullptr BY <2>1 DEF DeleteCall
  <2>2. CASE u # nullptr
    <3>1. SideOf(h, key, u) \in S /\ Rank(SideOf(h, key, u)) < Rank(u) BY <2>2, Ranks, Sides DEF Pointers
    <3>2. f[h[u][Side(key, u)]] = g[h[u][Side(key, u)]] BY <1>1, <3>1 DEF SideOf
    <3> QED BY <3>2 DEF DeleteCall
  <2> QED BY <2>1, <2>2
<1>2. 0 \in T
  <2>1. \A u \in S : ~(Rank(u) < 0) BY Ranks
  <2>2. \E f : f = [u \in S |-> 0] OBVIOUS
  <2>3. \A f : [u \in S |-> IF Rank(u) < 0 THEN DeleteCall(h, ver, key, f, u) ELSE 0] = [u \in S |-> 0] BY <2>1
  <2> HIDE DEF S
  <2> QED BY <2>2, <2>3
<1>3. ASSUME NEW n \in Nat, n \in T PROVE n + 1 \in T
  <2>1. PICK f : f = [u \in S |-> IF Rank(u) < n THEN DeleteCall(h, ver, key, f, u) ELSE 0] BY <1>3
  <2> DEFINE g == [u \in S |-> IF Rank(u) < n + 1 THEN DeleteCall(h, ver, key, f, u) ELSE 0]
  <2>2. \A u \in S : Rank(u) < n => f[u] = g[u]
    <3>1. \A u \in S : Rank(u) < n => Rank(u) < n + 1 BY Ranks
    <3> HIDE DEF S
    <3> QED BY <2>1, <3>1
  <2>3. \A u \in S : Rank(u) < n + 1 => DeleteCall(h, ver, key, f, u) = DeleteCall(h, ver, key, g, u)
    <3> SUFFICES ASSUME NEW u \in S, Rank(u) < n + 1
                 PROVE  DeleteCall(h, ver, key, f, u) = DeleteCall(h, ver, key, g, u)
      OBVIOUS
    <3>1. \A w \in S : Rank(w) < Rank(u) => f[w] = g[w] BY <2>2, Ranks
    <3> HIDE DEF g, S
    <3> QED BY <1>1, <3>1
  <2>4. g = [u \in S |-> IF Rank(u) < n + 1 THEN DeleteCall(h, ver, key, g, u) ELSE 0] BY <2>3
  <2> HIDE DEF g, S
  <2> QED BY <2>4
<1>4. PICK N \in Nat : \A u \in S : Rank(u) < N BY Ranks
<1>5. N \in T
  <2> HIDE DEF T, S
  <2>1. \A n \in Nat : n \in T BY <1>2, <1>3, SetInduction
  <2> QED BY <2>1
<1>6. PICK f : f = [u \in S |-> IF Rank(u) < N THEN DeleteCall(h, ver, key, f, u) ELSE 0] BY <1>5
<1>7. f = [u \in S |-> DeleteCall(h, ver, key, f, u)]
  <2>1. \A u \in S : (IF Rank(u) < N THEN DeleteCall(h, ver, key, f, u) ELSE 0) = DeleteCall(h, ver, key, f, u) BY <1>4
  <2> HIDE DEF S
  <2> QED BY <1>6, <2>1
<1>8. DeleteFn(h, ver, key) = [u \in Pointers(h) |-> DeleteCall(h, ver, key, DeleteFn(h, ver, key), u)]
  BY <1>7 DEF DeleteFn
<1>9. search_delete(h, ver, t, key) = DeleteFn(h, ver, key)[t] BY DEF search_delete, DeleteFn
<1> HIDE DEF S
<1>10. DeleteFn(h, ver, key)[t] = DeleteCall(h, ver, key, DeleteFn(h, ver, key), t) BY <1>8
<1> QED BY <1>9, <1>10

PairRank(p) == Rank(p[1]) + Rank(p[2])

\* process_concat goes down one of two trees: the sum of the ranks decreases.
LEMMA PairRanks ==
  ASSUME NEW h, HeapOrdered(h)
  PROVE  /\ \A p \in Pointers(h) \X Pointers(h) : PairRank(p) \in Nat
         /\ \A p \in Pointers(h) \X Pointers(h) : p[1] # nullptr /\ p[2] # nullptr =>
               /\ <<h[p[1]].rch, p[2]>> \in Pointers(h) \X Pointers(h)
               /\ <<p[1], h[p[2]].lch>> \in Pointers(h) \X Pointers(h)
               /\ PairRank(<<h[p[1]].rch, p[2]>>) < PairRank(p)
               /\ PairRank(<<p[1], h[p[2]].lch>>) < PairRank(p)
         /\ \E N \in Nat : \A p \in Pointers(h) \X Pointers(h) : PairRank(p) < N
<1>1. \A t \in Pointers(h) : Rank(t) \in Nat BY Ranks
<1>2. \A t \in Pointers(h) : t # nullptr =>
         /\ h[t].lch \in Pointers(h) /\ h[t].rch \in Pointers(h)
         /\ Rank(h[t].lch) < Rank(t) /\ Rank(h[t].rch) < Rank(t)
  BY Ranks DEF Pointers
<1>3. PICK N \in Nat : \A t \in Pointers(h) : Rank(t) < N BY Ranks
<1>4. \A p \in Pointers(h) \X Pointers(h) : PairRank(p) < N + N BY <1>1, <1>3 DEF PairRank
<1>5. N + N \in Nat OBVIOUS
<1> QED BY <1>1, <1>2, <1>4, <1>5 DEF PairRank

ConcatFn(h, ver) == CHOOSE f : f = [p \in Pointers(h) \X Pointers(h) |-> ConcatCall(h, ver, f, p[1], p[2])]

\* process_concat returns what its body computes from its own results below.
LEMMA ConcatReturns ==
  ASSUME NEW h, HeapOrdered(h), NEW ver, NEW t_l \in Pointers(h), NEW t_r \in Pointers(h)
  PROVE  /\ process_concat(h, ver, t_l, t_r) = ConcatFn(h, ver)[<<t_l, t_r>>]
         /\ process_concat(h, ver, t_l, t_r) = ConcatCall(h, ver, ConcatFn(h, ver), t_l, t_r)
<1> DEFINE S == Pointers(h) \X Pointers(h)
           T == {n \in Nat : \E f : f = [u \in S |-> IF PairRank(u) < n THEN ConcatCall(h, ver, f, u[1], u[2]) ELSE 0]}
<1>1. ASSUME NEW u \in S, NEW f, NEW g, \A w \in S : PairRank(w) < PairRank(u) => f[w] = g[w]
      PROVE  ConcatCall(h, ver, f, u[1], u[2]) = ConcatCall(h, ver, g, u[1], u[2])
  <2>1. CASE u[1] = nullptr \/ u[2] = nullptr BY <2>1 DEF ConcatCall
  <2>2. CASE u[1] # nullptr /\ u[2] # nullptr
    <3> DEFINE l == <<h[u[1]].rch, u[2]>>  r == <<u[1], h[u[2]].lch>>
    <3>1. l \in S /\ r \in S /\ PairRank(l) < PairRank(u) /\ PairRank(r) < PairRank(u) BY <2>2, PairRanks
    <3>2. f[l] = g[l] /\ f[r] = g[r] BY <1>1, <3>1
    <3> QED BY <3>2 DEF ConcatCall
  <2> QED BY <2>1, <2>2
<1>2. 0 \in T
  <2>1. \A u \in S : ~(PairRank(u) < 0) BY PairRanks
  <2>2. \E f : f = [u \in S |-> 0] OBVIOUS
  <2>3. \A f : [u \in S |-> IF PairRank(u) < 0 THEN ConcatCall(h, ver, f, u[1], u[2]) ELSE 0] = [u \in S |-> 0] BY <2>1
  <2> HIDE DEF S
  <2> QED BY <2>2, <2>3
<1>3. ASSUME NEW n \in Nat, n \in T PROVE n + 1 \in T
  <2>1. PICK f : f = [u \in S |-> IF PairRank(u) < n THEN ConcatCall(h, ver, f, u[1], u[2]) ELSE 0] BY <1>3
  <2> DEFINE g == [u \in S |-> IF PairRank(u) < n + 1 THEN ConcatCall(h, ver, f, u[1], u[2]) ELSE 0]
  <2>2. \A u \in S : PairRank(u) < n => f[u] = g[u]
    <3>1. \A u \in S : PairRank(u) < n => PairRank(u) < n + 1 BY PairRanks
    <3> HIDE DEF S
    <3> QED BY <2>1, <3>1
  <2>3. \A u \in S : PairRank(u) < n + 1 => ConcatCall(h, ver, f, u[1], u[2]) = ConcatCall(h, ver, g, u[1], u[2])
    <3> SUFFICES ASSUME NEW u \in S, PairRank(u) < n + 1
                 PROVE  ConcatCall(h, ver, f, u[1], u[2]) = ConcatCall(h, ver, g, u[1], u[2])
      OBVIOUS
    <3>1. \A w \in S : PairRank(w) < PairRank(u) => f[w] = g[w] BY <2>2, PairRanks
    <3> HIDE DEF g, S
    <3> QED BY <1>1, <3>1
  <2>4. g = [u \in S |-> IF PairRank(u) < n + 1 THEN ConcatCall(h, ver, g, u[1], u[2]) ELSE 0] BY <2>3
  <2> HIDE DEF g, S
  <2> QED BY <2>4
<1>4. PICK N \in Nat : \A u \in S : PairRank(u) < N BY PairRanks
<1>5. N \in T
  <2> HIDE DEF T, S
  <2>1. \A n \in Nat : n \in T BY <1>2, <1>3, SetInduction
  <2> QED BY <2>1
<1>6. PICK f : f = [u \in S |-> IF PairRank(u) < N THEN ConcatCall(h, ver, f, u[1], u[2]) ELSE 0] BY <1>5
<1>7. f = [u \in S |-> ConcatCall(h, ver, f, u[1], u[2])]
  <2>1. \A u \in S : (IF PairRank(u) < N THEN ConcatCall(h, ver, f, u[1], u[2]) ELSE 0) = ConcatCall(h, ver, f, u[1], u[2]) BY <1>4
  <2> HIDE DEF S
  <2> QED BY <1>6, <2>1
<1>8. ConcatFn(h, ver) = [p \in Pointers(h) \X Pointers(h) |-> ConcatCall(h, ver, ConcatFn(h, ver), p[1], p[2])]
  BY <1>7 DEF ConcatFn
<1>9. process_concat(h, ver, t_l, t_r) = ConcatFn(h, ver)[<<t_l, t_r>>] BY DEF process_concat, ConcatFn
<1> HIDE DEF S
<1>10. ConcatFn(h, ver)[<<t_l, t_r>>] = ConcatCall(h, ver, ConcatFn(h, ver), t_l, t_r) BY <1>8
<1> QED BY <1>9, <1>10

NodesCall(h, f, t) == IF t = nullptr THEN {} ELSE {t} \cup f[h[t].lch] \cup f[h[t].rch]
NodesFn(h) == CHOOSE f : f = [t \in Pointers(h) |-> NodesCall(h, f, t)]

\* So does Nodes.
LEMMA NodesReturns ==
  ASSUME NEW h, HeapOrdered(h), NEW t \in Pointers(h)
  PROVE  /\ Nodes(h, t) = NodesFn(h)[t]
         /\ Nodes(h, t) = NodesCall(h, NodesFn(h), t)
<1> DEFINE S == Pointers(h)
           T == {n \in Nat : \E f : f = [u \in S |-> IF Rank(u) < n THEN NodesCall(h, f, u) ELSE 0]}
<1>1. ASSUME NEW u \in S, NEW f, NEW g, \A w \in S : Rank(w) < Rank(u) => f[w] = g[w]
      PROVE  NodesCall(h, f, u) = NodesCall(h, g, u)
  <2>1. CASE u = nullptr BY <2>1 DEF NodesCall
  <2>2. CASE u # nullptr
    <3>1. \A w \in {h[u].lch, h[u].rch} : w \in S /\ Rank(w) < Rank(u) BY <2>2, Ranks DEF Pointers
    <3>2. f[h[u].lch] = g[h[u].lch] /\ f[h[u].rch] = g[h[u].rch] BY <1>1, <3>1
    <3> QED BY <3>2 DEF NodesCall
  <2> QED BY <2>1, <2>2
<1>2. 0 \in T
  <2>1. \A u \in S : ~(Rank(u) < 0) BY Ranks
  <2>2. \E f : f = [u \in S |-> 0] OBVIOUS
  <2>3. \A f : [u \in S |-> IF Rank(u) < 0 THEN NodesCall(h, f, u) ELSE 0] = [u \in S |-> 0] BY <2>1
  <2> HIDE DEF S
  <2> QED BY <2>2, <2>3
<1>3. ASSUME NEW n \in Nat, n \in T PROVE n + 1 \in T
  <2>1. PICK f : f = [u \in S |-> IF Rank(u) < n THEN NodesCall(h, f, u) ELSE 0] BY <1>3
  <2> DEFINE g == [u \in S |-> IF Rank(u) < n + 1 THEN NodesCall(h, f, u) ELSE 0]
  <2>2. \A u \in S : Rank(u) < n => f[u] = g[u]
    <3>1. \A u \in S : Rank(u) < n => Rank(u) < n + 1 BY Ranks
    <3> HIDE DEF S
    <3> QED BY <2>1, <3>1
  <2>3. \A u \in S : Rank(u) < n + 1 => NodesCall(h, f, u) = NodesCall(h, g, u)
    <3> SUFFICES ASSUME NEW u \in S, Rank(u) < n + 1
                 PROVE  NodesCall(h, f, u) = NodesCall(h, g, u)
      OBVIOUS
    <3>1. \A w \in S : Rank(w) < Rank(u) => f[w] = g[w] BY <2>2, Ranks
    <3> HIDE DEF g, S
    <3> QED BY <1>1, <3>1
  <2>4. g = [u \in S |-> IF Rank(u) < n + 1 THEN NodesCall(h, g, u) ELSE 0] BY <2>3
  <2> HIDE DEF g, S
  <2> QED BY <2>4
<1>4. PICK N \in Nat : \A u \in S : Rank(u) < N BY Ranks
<1>5. N \in T
  <2> HIDE DEF T, S
  <2>1. \A n \in Nat : n \in T BY <1>2, <1>3, SetInduction
  <2> QED BY <2>1
<1>6. PICK f : f = [u \in S |-> IF Rank(u) < N THEN NodesCall(h, f, u) ELSE 0] BY <1>5
<1>7. f = [u \in S |-> NodesCall(h, f, u)]
  <2>1. \A u \in S : (IF Rank(u) < N THEN NodesCall(h, f, u) ELSE 0) = NodesCall(h, f, u) BY <1>4
  <2> HIDE DEF S
  <2> QED BY <1>6, <2>1
<1>8. NodesFn(h) = [u \in Pointers(h) |-> NodesCall(h, NodesFn(h), u)]
  BY <1>7 DEF NodesFn
<1>9. Nodes(h, t) = NodesFn(h)[t] BY DEF Nodes, NodesCall, NodesFn
<1> HIDE DEF S
<1>10. NodesFn(h)[t] = NodesCall(h, NodesFn(h), t) BY <1>8
<1> QED BY <1>9, <1>10
-----------------------------------------------------------------------------
(* The algorithms, among nodes D that are finished. *)
Finished(h, D, cs) ==
  /\ HeapOrdered(h) /\ D \subseteq DOMAIN h
  /\ \A x \in D : NodeIs(D, cs, x, h[x])
At(new) == {n.at : n \in new}

\* The nodes new of version ver are finished too.
Makes(D, cs, ver, new) ==
  \A n \in new : n.at \in {ver} \X Keys /\ NodeIs(D \cup At(new), cs, n.at, n)

\* One more node of the version.
LEMMA MakesOne ==
  ASSUME NEW D, NEW cs, NEW ver, NEW new, Makes(D, cs, ver, new), NEW n, n.at \in {ver} \X Keys,
         NodeIs(D \cup At({n} \cup new), cs, n.at, n)
  PROVE  Makes(D, cs, ver, {n} \cup new)
<1>1. D \cup At(new) \subseteq D \cup At({n} \cup new) BY DEF At
<1>2. ASSUME NEW m \in new PROVE m.at \in {ver} \X Keys /\ NodeIs(D \cup At({n} \cup new), cs, m.at, m)
  BY <1>1, <1>2, NodeMore DEF Makes
<1> QED BY <1>2 DEF Makes

\* The fields of a pointer and of a new node.
LEMMA PointerFacts ==
  ASSUME NEW ver, NEW k, NEW val, NEW lch, NEW rch
  PROVE  /\ Ver(<<ver, k>>) = ver /\ Key(<<ver, k>>) = k
         /\ LET n == Node(<<ver, k>>, val, lch, rch)
            IN n.at = <<ver, k>> /\ n.val = val /\ n.lch = lch /\ n.rch = rch
BY DEF Ver, Key, Node

\* A held subtree is null, or its root is a finished node.
LEMMA HeldNode ==
  ASSUME NEW h, NEW D, NEW cs, Finished(h, D, cs), NEW t, NEW c, NEW S, Holds(D, cs, t, c, S)
  PROVE  /\ t \in Pointers(h) /\ (t = nullptr <=> S = {})
         /\ t # nullptr => t \in D /\ t \in DOMAIN h /\ Key(t) \in S /\ NodeIs(D, cs, t, h[t])
<1>1. nullptr \notin D BY Ranks DEF Finished
<1> QED BY <1>1 DEF Holds, Finished, Pointers

\* split_copy(h, ver, t, key), of a subtree t that does not hold the key and whose
\* priorities are lower, makes the two subtrees of version ver on the sides of it.
LEMMA SplitSpec ==
  ASSUME NEW h, NEW D, NEW cs, Finished(h, D, cs), NEW ver, NEW key \in Keys, NEW c \in Counts, NEW d \in Counts,
         d = cs[ver], Differ(c, d, key), c[key] = 0, d[key] > 0
  PROVE  \A n \in Nat : \A lo, hi, t :
           lo < key /\ key < hi /\ Fenced(c, lo, hi) /\ Holds(D, cs, t, c, Inside(c, lo, hi))
             /\ (\A j \in Inside(c, lo, hi) : Hash[j] < Hash[key] /\ Hash[j] < n)
           => LET r == split_copy(h, ver, t, key)
              IN /\ Makes(D, cs, ver, r.new)
                 /\ Holds(D \cup At(r.new), cs, r.l, d, Inside(d, lo, key))
                 /\ Holds(D \cup At(r.new), cs, r.r, d, Inside(d, key, hi))
<1> DEFINE Pre(n, lo, hi, t) ==
             lo < key /\ key < hi /\ Fenced(c, lo, hi) /\ Holds(D, cs, t, c, Inside(c, lo, hi))
             /\ (\A j \in Inside(c, lo, hi) : Hash[j] < Hash[key] /\ Hash[j] < n)
           Post(r, lo, hi) ==
             /\ Makes(D, cs, ver, r.new)
             /\ Holds(D \cup At(r.new), cs, r.l, d, Inside(d, lo, key))
             /\ Holds(D \cup At(r.new), cs, r.r, d, Inside(d, key, hi))
           T == {n \in Nat : \A lo, hi, t : Pre(n, lo, hi, t) => Post(split_copy(h, ver, t, key), lo, hi)}
<1> USE KeyFacts
<1>1. ASSUME NEW n, NEW lo, NEW hi, NEW t, Pre(n, lo, hi, t), t = nullptr
      PROVE  Post(split_copy(h, ver, t, key), lo, hi)
  <2>1. split_copy(h, ver, t, key) = NoNode BY <1>1, SplitReturns DEF SplitCall, Finished, Pointers
  <2>2. Inside(c, lo, hi) = {} BY <1>1, HeldNode
  <2>3. Inside(d, lo, key) = {} /\ Inside(d, key, hi) = {}
    <3>1. lo \in Int /\ hi \in Int BY <1>1, FencePoint DEF Fenced
    <3>2. \A j \in Inside(d, lo, key) \cup Inside(d, key, hi) : j \in Inside(c, lo, hi)
      BY <1>1, <3>1 DEF Inside, Differ
    <3> QED BY <2>2, <3>2
  <2> QED BY <2>1, <2>3 DEF NoNode, Makes, Holds
<1>2. ASSUME NEW n \in Nat, n \in T, NEW lo, NEW hi, NEW t, Pre(n + 1, lo, hi, t), t # nullptr
      PROVE  Post(split_copy(h, ver, t, key), lo, hi)
  <2> DEFINE k == Key(t)  r == split_copy(h, ver, t, key)
  <2>1. t \in D /\ t \in DOMAIN h /\ t \in Pointers(h) /\ k \in Inside(c, lo, hi) /\ NodeIs(D, cs, t, h[t])
    BY <1>2, HeldNode
  <2>2. /\ Leads(k, Inside(c, lo, hi)) /\ h[t].val = c[k]
        /\ Fenced(c, lo, k) /\ Fenced(c, k, hi)
        /\ Holds(D, cs, h[t].lch, c, Inside(c, lo, k)) /\ Holds(D, cs, h[t].rch, c, Inside(c, k, hi))
        /\ \A j \in Inside(c, lo, k) \cup Inside(c, k, hi) : Hash[j] < Hash[k]
    BY <1>2, <2>1, NodeRead
  <2>3. k \in Keys /\ lo \in Int /\ hi \in Int /\ k # key /\ lo < k /\ k < hi /\ Hash[k] < Hash[key] /\ Hash[k] < n + 1
    BY <1>2, <2>1, FencePoint DEF Inside, Fenced
  <2>4. \A j \in Inside(c, lo, k) \cup Inside(c, k, hi) : Hash[j] < Hash[key] /\ Hash[j] < n
    <3> HIDE DEF k
    <3> QED BY <2>2, <2>3 DEF Inside
  <2>5. c[k] = d[k] BY <2>3 DEF Differ
  <2>6. Ver(<<ver, k>>) = ver /\ Key(<<ver, k>>) = k /\ <<ver, k>> \in {ver} \X Keys BY <2>3, PointerFacts
  <2>7. CASE key < k
    <3> DEFINE sub == split_copy(h, ver, h[t].lch, key)
               m == CopyWith(h, ver, t, "lch", sub.r)
               E == D \cup At({m} \cup sub.new)
    <3>1. r = [l |-> sub.l, r |-> <<ver, k>>, new |-> {m} \cup sub.new]
      <4>1. r = SplitCall(h, ver, key, SplitFn(h, ver, key), t) BY <2>1, SplitReturns DEF Finished
      <4>2. h[t].lch \in Pointers(h) BY <2>1, Ranks DEF Finished
      <4>3. sub = SplitFn(h, ver, key)[h[t].lch] BY <4>2, SplitReturns DEF Finished
      <4>4. h[t][Side(key, t)] = h[t].lch BY <2>7 DEF Side
      <4> QED BY <1>2, <4>1, <4>3, <4>4, <2>7 DEF SplitCall
    <3>2. m.at = <<ver, k>> /\ m.val = h[t].val /\ m.lch = sub.r /\ m.rch = h[t].rch
      BY PointerFacts DEF CopyWith, Copy
    <3>3. Post(sub, lo, k)
      <4>1. Pre(n, lo, k, h[t].lch) BY <1>2, <2>2, <2>4, <2>7
      <4> HIDE DEF Pre, Post
      <4> QED BY <1>2, <4>1
    <3>4. D \subseteq E /\ D \cup At(sub.new) \subseteq E /\ <<ver, k>> \in E BY <3>2 DEF At
    <3> HIDE DEF m, E, sub, r
    <3>5. Holds(E, cs, sub.l, d, Inside(d, lo, key)) /\ Holds(E, cs, sub.r, d, Inside(d, key, k))
      BY <3>3, <3>4, HoldsMore
    <3>6. Holds(E, cs, h[t].rch, d, Inside(d, k, hi))
      <4>1. key \notin Inside(c, k, hi) /\ key \notin Inside(d, k, hi) BY <2>3, <2>7 DEF Inside
      <4>2. Holds(D, cs, h[t].rch, d, Inside(d, k, hi)) BY <2>2, <4>1, HoldsSame
      <4> QED BY <3>4, <4>2, HoldsMore
    <3>7. \A j \in Inside(d, key, hi) : j \in Inside(c, lo, hi) /\ Hash[j] < Hash[key]
      <4>1. \A j \in Inside(d, key, hi) : j \in Inside(c, lo, hi) BY <1>2, <2>3 DEF Inside, Differ
      <4> QED BY <1>2, <4>1
    <3>8. Fenced(d, key, hi)
      <4>1. Fence(d, key, Inside(d, key, hi)) BY <3>7 DEF Fence
      <4>2. Fence(c, hi, Inside(c, lo, hi)) /\ hi # key BY <1>2, <2>3 DEF Fenced
      <4>3. Fence(d, hi, Inside(d, key, hi)) BY <3>7, <4>2 DEF Fence, Differ
      <4> QED BY <4>1, <4>3 DEF Fenced
    <3>9. Leads(k, Inside(d, key, hi)) /\ m.val = d[k]
      <4>1. k \in Inside(d, key, hi) BY <2>1, <2>3, <2>5, <2>7 DEF Inside
      <4> QED BY <2>2, <2>5, <3>2, <3>7, <4>1 DEF Leads
    <3>10. NodeIs(E, cs, <<ver, k>>, m) /\ Holds(E, cs, <<ver, k>>, d, Inside(d, key, hi))
      <4> DEFINE x == <<ver, k>>
      <4>1. Key(x) = k /\ d = cs[Ver(x)] /\ x \in E BY <2>6, <3>4
      <4>2. Holds(E, cs, m.lch, d, Inside(d, key, k)) /\ Holds(E, cs, m.rch, d, Inside(d, k, hi)) BY <3>2, <3>5, <3>6
      <4> HIDE DEF x
      <4> QED BY <3>8, <3>9, <4>1, <4>2, NodeMade DEF x
    <3>11. Makes(D, cs, ver, {m} \cup sub.new) BY <2>6, <3>2, <3>3, <3>10, MakesOne DEF E
    <3> QED BY <3>1, <3>5, <3>10, <3>11 DEF E, r
  <2>8. CASE ~(key < k)
    <3> DEFINE sub == split_copy(h, ver, h[t].rch, key)
               m == CopyWith(h, ver, t, "rch", sub.l)
               E == D \cup At({m} \cup sub.new)
    <3>0. k < key BY <2>3, <2>8
    <3>1. r = [l |-> <<ver, k>>, r |-> sub.r, new |-> {m} \cup sub.new]
      <4>1. r = SplitCall(h, ver, key, SplitFn(h, ver, key), t) BY <2>1, SplitReturns DEF Finished
      <4>2. h[t].rch \in Pointers(h) BY <2>1, Ranks DEF Finished
      <4>3. sub = SplitFn(h, ver, key)[h[t].rch] BY <4>2, SplitReturns DEF Finished
      <4>4. h[t][Side(key, t)] = h[t].rch BY <2>8 DEF Side
      <4> QED BY <1>2, <4>1, <4>3, <4>4, <2>8 DEF SplitCall
    <3>2. m.at = <<ver, k>> /\ m.val = h[t].val /\ m.lch = h[t].lch /\ m.rch = sub.l
      BY PointerFacts DEF CopyWith, Copy
    <3>3. Post(sub, k, hi)
      <4>1. Pre(n, k, hi, h[t].rch) BY <1>2, <2>2, <2>4, <3>0
      <4> HIDE DEF Pre, Post
      <4> QED BY <1>2, <4>1
    <3>4. D \subseteq E /\ D \cup At(sub.new) \subseteq E /\ <<ver, k>> \in E BY <3>2 DEF At
    <3> HIDE DEF m, E, sub, r
    <3>5. Holds(E, cs, sub.l, d, Inside(d, k, key)) /\ Holds(E, cs, sub.r, d, Inside(d, key, hi))
      BY <3>3, <3>4, HoldsMore
    <3>6. Holds(E, cs, h[t].lch, d, Inside(d, lo, k))
      <4>1. key \notin Inside(c, lo, k) /\ key \notin Inside(d, lo, k) BY <2>3, <3>0 DEF Inside
      <4>2. Holds(D, cs, h[t].lch, d, Inside(d, lo, k)) BY <2>2, <4>1, HoldsSame
      <4> QED BY <3>4, <4>2, HoldsMore
    <3>7. \A j \in Inside(d, lo, key) : j \in Inside(c, lo, hi) /\ Hash[j] < Hash[key]
      <4>1. \A j \in Inside(d, lo, key) : j \in Inside(c, lo, hi) BY <1>2, <2>3 DEF Inside, Differ
      <4> QED BY <1>2, <4>1
    <3>8. Fenced(d, lo, key)
      <4>1. Fence(d, key, Inside(d, lo, key)) BY <3>7 DEF Fence
      <4>2. Fence(c, lo, Inside(c, lo, hi)) /\ lo # key BY <1>2, <2>3 DEF Fenced
      <4>3. Fence(d, lo, Inside(d, lo, key)) BY <3>7, <4>2 DEF Fence, Differ
      <4> QED BY <4>1, <4>3 DEF Fenced
    <3>9. Leads(k, Inside(d, lo, key)) /\ m.val = d[k]
      <4>1. k \in Inside(d, lo, key) BY <2>1, <2>3, <2>5, <3>0 DEF Inside
      <4> QED BY <2>2, <2>5, <3>2, <3>7, <4>1 DEF Leads
    <3>10. NodeIs(E, cs, <<ver, k>>, m) /\ Holds(E, cs, <<ver, k>>, d, Inside(d, lo, key))
      <4> DEFINE x == <<ver, k>>
      <4>1. Key(x) = k /\ d = cs[Ver(x)] /\ x \in E BY <2>6, <3>4
      <4>2. Holds(E, cs, m.lch, d, Inside(d, lo, k)) /\ Holds(E, cs, m.rch, d, Inside(d, k, key)) BY <3>2, <3>5, <3>6
      <4> HIDE DEF x
      <4> QED BY <3>8, <3>9, <4>1, <4>2, NodeMade DEF x
    <3>11. Makes(D, cs, ver, {m} \cup sub.new) BY <2>6, <3>2, <3>3, <3>10, MakesOne DEF E
    <3> QED BY <3>1, <3>5, <3>10, <3>11 DEF E, r
  <2> QED BY <2>7, <2>8
<1>3. 0 \in T
  <2> SUFFICES ASSUME NEW lo, NEW hi, NEW t, Pre(0, lo, hi, t) PROVE Post(split_copy(h, ver, t, key), lo, hi)
    OBVIOUS
  <2>1. \A j \in Inside(c, lo, hi) : FALSE BY DEF Inside
  <2>2. t = nullptr BY <2>1, HeldNode
  <2> HIDE DEF Pre, Post
  <2> QED BY <2>2, <1>1
<1>4. ASSUME NEW n \in Nat, n \in T PROVE n + 1 \in T
  <2> HIDE DEF Pre, Post
  <2>1. n + 1 \in Nat OBVIOUS
  <2> QED BY <1>1, <1>2, <1>4, <2>1
<1> HIDE DEF T
<1>5. \A n \in Nat : n \in T BY <1>3, <1>4, SetInduction
<1> QED BY <1>5 DEF T

\* The bounds of a subtree in two versions.
LEMMA FencedSame ==
  ASSUME NEW c \in Counts, NEW d \in Counts, NEW key, Differ(c, d, key), NEW lo, NEW hi, lo # key, hi # key,
         Fenced(c, lo, hi), Inside(d, lo, hi) \subseteq Inside(c, lo, hi)
  PROVE  Fenced(d, lo, hi)
BY DEF Fenced, Fence, Differ

\* What a held subtree shows to the code that reads its root.
LEMMA HeldRead ==
  ASSUME NEW h, NEW D, NEW cs, Finished(h, D, cs), NEW c \in Counts, NEW lo, NEW hi, Fenced(c, lo, hi),
         NEW t, t # nullptr, Holds(D, cs, t, c, Inside(c, lo, hi))
  PROVE  /\ t \in D /\ t \in DOMAIN h /\ t \in Pointers(h) /\ NodeIs(D, cs, t, h[t])
         /\ Leads(Key(t), Inside(c, lo, hi)) /\ Key(t) \in Inside(c, lo, hi) /\ h[t].val = c[Key(t)]
         /\ Fenced(c, lo, Key(t)) /\ Fenced(c, Key(t), hi)
         /\ Holds(D, cs, h[t].lch, c, Inside(c, lo, Key(t))) /\ Holds(D, cs, h[t].rch, c, Inside(c, Key(t), hi))
         /\ \A j \in Inside(c, lo, Key(t)) \cup Inside(c, Key(t), hi) : Hash[j] < Hash[Key(t)]
         /\ h[t].lch \in Pointers(h) /\ h[t].rch \in Pointers(h)
<1>1. t \in D /\ t \in DOMAIN h /\ t \in Pointers(h) /\ Key(t) \in Inside(c, lo, hi) /\ NodeIs(D, cs, t, h[t]) BY HeldNode
<1>2. h[t].lch \in Pointers(h) /\ h[t].rch \in Pointers(h) BY <1>1, Ranks DEF Finished
<1> QED BY <1>1, <1>2, NodeRead

\* A search copies a node it passes, with the changed subtree below it.
LEMMA PassSpec ==
  ASSUME NEW h, NEW D, NEW cs, Finished(h, D, cs), NEW ver, NEW key \in Keys, NEW c \in Counts, NEW d \in Counts,
         d = cs[ver], Differ(c, d, key), NEW lo, NEW hi, lo < key, key < hi, Fenced(c, lo, hi), Fenced(d, lo, hi),
         NEW t, t # nullptr, Holds(D, cs, t, c, Inside(c, lo, hi)), Pry(t) > Hash[key],
         NEW sub, Makes(D, cs, ver, sub.new),
         key < Key(t) => Holds(D \cup At(sub.new), cs, sub.ref, d, Inside(d, lo, Key(t))),
         ~(key < Key(t)) => Holds(D \cup At(sub.new), cs, sub.ref, d, Inside(d, Key(t), hi))
  PROVE  LET r == PassCopy(h, ver, t, Side(key, t), sub)
         IN /\ Makes(D, cs, ver, r.new)
            /\ Holds(D \cup At(r.new), cs, r.ref, d, Inside(d, lo, hi))
<1> DEFINE k == Key(t)
           m == CopyWith(h, ver, t, Side(key, t), sub.ref)
           E == D \cup At({m} \cup sub.new)
           x == <<ver, k>>
<1>1. t \in D /\ k \in Inside(c, lo, hi) /\ NodeIs(D, cs, t, h[t]) BY HeldNode
<1>2. /\ Leads(k, Inside(c, lo, hi)) /\ h[t].val = c[k]
      /\ Holds(D, cs, h[t].lch, c, Inside(c, lo, k)) /\ Holds(D, cs, h[t].rch, c, Inside(c, k, hi))
  BY HeldRead
<1> USE KeyFacts
<1>3. k \in Keys /\ Hash[key] < Hash[k] /\ k # key /\ lo \in Int /\ hi \in Int /\ c[k] = d[k]
  BY <1>1, FencePoint DEF Inside, Fenced, Pry, Differ
<1>4. Leads(k, Inside(d, lo, hi))
  <2>1. k \in Inside(d, lo, hi) BY <1>1, <1>3 DEF Inside
  <2>2. \A j \in Inside(d, lo, hi) : j = key \/ j \in Inside(c, lo, hi) BY DEF Inside, Differ
  <2> QED BY <1>2, <1>3, <2>1, <2>2 DEF Leads
<1>5. m.at = x /\ m.val = h[t].val /\ Ver(x) = ver /\ Key(x) = k /\ x \in {ver} \X Keys /\ x \in E
  BY <1>3, PointerFacts DEF CopyWith, Copy, At
<1>6. D \subseteq E /\ D \cup At(sub.new) \subseteq E BY DEF At
<1>7. Holds(E, cs, m.lch, d, Inside(d, lo, k)) /\ Holds(E, cs, m.rch, d, Inside(d, k, hi))
  <2>1. CASE key < k
    <3>1. m.lch = sub.ref /\ m.rch = h[t].rch BY <2>1, PointerFacts DEF CopyWith, Copy, Side
    <3>2. key \notin Inside(c, k, hi) /\ key \notin Inside(d, k, hi) BY <1>3, <2>1 DEF Inside
    <3> HIDE DEF m, E, k
    <3>3. Holds(D, cs, h[t].rch, d, Inside(d, k, hi)) BY <1>2, <3>2, HoldsSame
    <3>4. Holds(D \cup At(sub.new), cs, sub.ref, d, Inside(d, lo, k)) BY <2>1 DEF k
    <3> QED BY <1>6, <3>1, <3>3, <3>4, HoldsMore
  <2>2. CASE ~(key < k)
    <3>1. m.rch = sub.ref /\ m.lch = h[t].lch BY <2>2, PointerFacts DEF CopyWith, Copy, Side
    <3>2. key \notin Inside(c, lo, k) /\ key \notin Inside(d, lo, k) BY <1>3, <2>2 DEF Inside
    <3> HIDE DEF m, E, k
    <3>3. Holds(D, cs, h[t].lch, d, Inside(d, lo, k)) BY <1>2, <3>2, HoldsSame
    <3>4. Holds(D \cup At(sub.new), cs, sub.ref, d, Inside(d, k, hi)) BY <2>2 DEF k
    <3> QED BY <1>6, <3>1, <3>3, <3>4, HoldsMore
  <2> QED BY <2>1, <2>2
<1>8. PassCopy(h, ver, t, Side(key, t), sub) = [ref |-> x, new |-> {m} \cup sub.new] BY DEF PassCopy
<1> HIDE DEF m, E, x, k
<1>9. m.val = d[k] BY <1>2, <1>3, <1>5
<1>10. NodeIs(E, cs, x, m) /\ Holds(E, cs, x, d, Inside(d, lo, hi)) BY <1>4, <1>5, <1>7, <1>9, NodeMade
<1>11. Makes(D, cs, ver, {m} \cup sub.new) BY <1>5, <1>10, MakesOne DEF E
<1> QED BY <1>8, <1>10, <1>11 DEF E

\* process_deploy puts a new key above a subtree of lower priorities.
LEMMA DeploySpec ==
  ASSUME NEW h, NEW D, NEW cs, Finished(h, D, cs), NEW ver, NEW key \in Keys, NEW c \in Counts, NEW d \in Counts,
         d = cs[ver], Differ(c, d, key), c[key] = 0, d[key] = 1,
         NEW lo, NEW hi, lo < key, key < hi, Fenced(c, lo, hi), Fenced(d, lo, hi),
         NEW t, Holds(D, cs, t, c, Inside(c, lo, hi)), \A j \in Inside(c, lo, hi) : Hash[j] < Hash[key]
  PROVE  LET r == process_deploy(h, ver, t, key)
         IN /\ Makes(D, cs, ver, r.new)
            /\ Holds(D \cup At(r.new), cs, r.ref, d, Inside(d, lo, hi))
<1> USE KeyFacts
<1> DEFINE sub == split_copy(h, ver, t, key)
           m == make_node(ver, key, sub.l, sub.r)
           E == D \cup At({m} \cup sub.new)
           x == <<ver, key>>
<1>1. /\ Makes(D, cs, ver, sub.new)
      /\ Holds(D \cup At(sub.new), cs, sub.l, d, Inside(d, lo, key))
      /\ Holds(D \cup At(sub.new), cs, sub.r, d, Inside(d, key, hi))
  <2>1. Hash[key] \in Nat /\ d[key] > 0 OBVIOUS
  <2> QED BY <2>1, SplitSpec
<1>2. m.at = x /\ m.val = 1 /\ m.lch = sub.l /\ m.rch = sub.r /\ Ver(x) = ver /\ Key(x) = key
      /\ x \in {ver} \X Keys /\ x \in E
  BY PointerFacts DEF make_node, At
<1>3. D \cup At(sub.new) \subseteq E BY DEF At
<1>4. process_deploy(h, ver, t, key) = [ref |-> x, new |-> {m} \cup sub.new] BY DEF process_deploy
<1>5. Leads(key, Inside(d, lo, hi))
  <2>1. lo \in Int /\ hi \in Int BY FencePoint DEF Fenced
  <2>2. key \in Inside(d, lo, hi) BY DEF Inside
  <2>3. \A j \in Inside(d, lo, hi) : j = key \/ j \in Inside(c, lo, hi) BY DEF Inside, Differ
  <2>4. \A j \in Inside(d, lo, hi) : j \in Keys BY DEF Inside
  <2> QED BY <2>2, <2>3, <2>4 DEF Leads
<1> HIDE DEF m, E, x, sub
<1>6. Holds(E, cs, m.lch, d, Inside(d, lo, key)) /\ Holds(E, cs, m.rch, d, Inside(d, key, hi))
  BY <1>1, <1>2, <1>3, HoldsMore
<1>7. NodeIs(E, cs, x, m) /\ Holds(E, cs, x, d, Inside(d, lo, hi)) BY <1>2, <1>5, <1>6, NodeMade
<1>8. Makes(D, cs, ver, {m} \cup sub.new) BY <1>1, <1>2, <1>7, MakesOne DEF E
<1> QED BY <1>4, <1>7, <1>8 DEF E

\* A node without a recursive call below it.
LEMMA OneNode ==
  ASSUME NEW D, NEW cs, NEW ver, NEW d \in Counts, d = cs[ver], NEW lo, NEW hi, Fenced(d, lo, hi), NEW k \in Keys,
         Leads(k, Inside(d, lo, hi)), NEW val, val = d[k], NEW lch, NEW rch,
         Holds(D, cs, lch, d, Inside(d, lo, k)), Holds(D, cs, rch, d, Inside(d, k, hi))
  PROVE  LET new == {Node(<<ver, k>>, val, lch, rch)}
         IN Makes(D, cs, ver, new) /\ Holds(D \cup At(new), cs, <<ver, k>>, d, Inside(d, lo, hi))
<1> DEFINE m == Node(<<ver, k>>, val, lch, rch)
           x == <<ver, k>>
           E == D \cup At({m})
<1>1. m.at = x /\ m.val = val /\ m.lch = lch /\ m.rch = rch /\ Ver(x) = ver /\ Key(x) = k
      /\ x \in {ver} \X Keys /\ x \in E /\ D \subseteq E
  BY PointerFacts DEF At
<1> HIDE DEF m, E, x
<1>2. Holds(E, cs, m.lch, d, Inside(d, lo, k)) /\ Holds(E, cs, m.rch, d, Inside(d, k, hi)) BY <1>1, HoldsMore
<1>3. NodeIs(E, cs, x, m) /\ Holds(E, cs, x, d, Inside(d, lo, hi)) BY <1>1, <1>2, NodeMade
<1>4. Makes(D, cs, ver, {m}) BY <1>1, <1>3 DEF E, Makes
<1> QED BY <1>3, <1>4 DEF E, m, x

\* The result r of an algorithm, where its version is to hold d.
Result(D, cs, ver, r, d, lo, hi) ==
  Makes(D, cs, ver, r.new) /\ Holds(D \cup At(r.new), cs, r.ref, d, Inside(d, lo, hi))

\* A subtree that needs no change is returned as it is.
LEMMA NothingSpec ==
  ASSUME NEW D, NEW cs, NEW ver, NEW t, NEW d, NEW lo, NEW hi, Holds(D, cs, t, d, Inside(d, lo, hi))
  PROVE  Result(D, cs, ver, Nothing(t), d, lo, hi)
<1>1. Nothing(t).new = {} /\ Nothing(t).ref = t BY DEF Nothing
<1>2. D \subseteq D \cup At({}) OBVIOUS
<1> QED BY <1>1, <1>2, HoldsMore DEF Result, Makes

\* search_insert(h, ver, t, key) returns the subtree of version ver where the key
\* counts one more, and makes only finished nodes of version ver.
THEOREM InsertSpec ==
  ASSUME NEW h, NEW D, NEW cs, Finished(h, D, cs), NEW ver, NEW key \in Keys, NEW c \in Counts, NEW d \in Counts,
         d = cs[ver], Differ(c, d, key), d[key] = c[key] + 1
  PROVE  \A n \in Nat : \A lo, hi, t :
           lo < key /\ key < hi /\ Fenced(c, lo, hi) /\ Fenced(d, lo, hi) /\ Holds(D, cs, t, c, Inside(c, lo, hi))
             /\ (\A j \in Inside(c, lo, hi) : Hash[j] < n)
           => Result(D, cs, ver, search_insert(h, ver, t, key), d, lo, hi)
<1> DEFINE Pre(n, lo, hi, t) ==
             lo < key /\ key < hi /\ Fenced(c, lo, hi) /\ Fenced(d, lo, hi) /\ Holds(D, cs, t, c, Inside(c, lo, hi))
             /\ (\A j \in Inside(c, lo, hi) : Hash[j] < n)
           Post(r, lo, hi) == Result(D, cs, ver, r, d, lo, hi)
           T == {n \in Nat : \A lo, hi, t : Pre(n, lo, hi, t) => Post(search_insert(h, ver, t, key), lo, hi)}
<1>1. ASSUME NEW n, NEW lo, NEW hi, NEW t, Pre(n, lo, hi, t), t = nullptr
      PROVE  Post(search_insert(h, ver, t, key), lo, hi)
  <2>1. search_insert(h, ver, t, key) = [ref |-> <<ver, key>>, new |-> {Node(<<ver, key>>, 1, nullptr, nullptr)}]
    BY <1>1, InsertReturns DEF InsertCall, Finished, Pointers, make_node
  <2>2. Inside(c, lo, hi) = {} BY <1>1, HeldNode
  <2>3. lo \in Int /\ hi \in Int BY <1>1, FencePoint DEF Fenced
  <2>4. Inside(d, lo, hi) = {key} /\ d[key] = 1
    <3>1. key \notin Inside(c, lo, hi) BY <2>2
    <3>2. c[key] = 0 BY <3>1, <1>1, KeyFacts DEF Inside, Counts
    <3>3. key \in Inside(d, lo, hi) BY <1>1, <3>2 DEF Inside
    <3>4. \A j \in Inside(d, lo, hi) : j # key => j \in Inside(c, lo, hi) BY DEF Inside, Differ
    <3> QED BY <2>2, <3>2, <3>3, <3>4
  <2>5. Inside(d, lo, key) = {} /\ Inside(d, key, hi) = {}
    <3>1. Inside(d, lo, key) \cup Inside(d, key, hi) \subseteq Inside(d, lo, hi) \ {key}
      BY <1>1, <2>3, KeyFacts DEF Inside
    <3> QED BY <2>4, <3>1
  <2>6. Leads(key, Inside(d, lo, hi)) BY <2>4, KeyFacts DEF Leads
  <2>7. Holds(D, cs, nullptr, d, Inside(d, lo, key)) /\ Holds(D, cs, nullptr, d, Inside(d, key, hi)) BY <2>5 DEF Holds
  <2>8. 1 = d[key] /\ Fenced(d, lo, hi) BY <1>1, <2>4
  <2> DEFINE new == {Node(<<ver, key>>, 1, nullptr, nullptr)}
  <2>9. Makes(D, cs, ver, new) /\ Holds(D \cup At(new), cs, <<ver, key>>, d, Inside(d, lo, hi))
    BY <2>6, <2>7, <2>8, OneNode
  <2> HIDE DEF new
  <2> QED BY <2>1, <2>9 DEF Result, new
<1>2. ASSUME NEW n \in Nat, n \in T, NEW lo, NEW hi, NEW t, Pre(n + 1, lo, hi, t), t # nullptr
      PROVE  Post(search_insert(h, ver, t, key), lo, hi)
  <2> DEFINE k == Key(t)  r == search_insert(h, ver, t, key)
  <2>1. /\ t \in D /\ t \in DOMAIN h /\ t \in Pointers(h) /\ NodeIs(D, cs, t, h[t])
        /\ Leads(k, Inside(c, lo, hi)) /\ k \in Inside(c, lo, hi) /\ h[t].val = c[k]
        /\ Fenced(c, lo, k) /\ Fenced(c, k, hi)
        /\ Holds(D, cs, h[t].lch, c, Inside(c, lo, k)) /\ Holds(D, cs, h[t].rch, c, Inside(c, k, hi))
        /\ \A j \in Inside(c, lo, k) \cup Inside(c, k, hi) : Hash[j] < Hash[k]
        /\ h[t].lch \in Pointers(h) /\ h[t].rch \in Pointers(h)
    BY <1>2, HeldRead
  <2>2. k \in Keys /\ k \in Int /\ key \in Int /\ lo \in Int /\ hi \in Int /\ lo < k /\ k < hi /\ lo < key /\ key < hi
        /\ Hash[k] < n + 1 /\ Hash[k] \in Nat /\ Hash[key] \in Nat
    BY <1>2, <2>1, FencePoint, KeyFacts DEF Inside, Fenced
  <2>3. \A j \in Inside(c, lo, k) \cup Inside(c, k, hi) : Hash[j] < n
    <3>1. \A j \in Inside(c, lo, k) \cup Inside(c, k, hi) : Hash[j] \in Nat BY KeyFacts DEF Inside
    <3> QED BY <2>1, <2>2, <3>1
  <2>4. r = InsertCall(h, ver, key, InsertFn(h, ver, key), t) BY <2>1, InsertReturns DEF Finished
  <2>5. CASE Pry(t) > Hash[key]
    <3> DEFINE sub == search_insert(h, ver, SideOf(h, key, t), key)
    <3>1. Leads(k, Inside(d, lo, hi))
      <4>1. k # key /\ Hash[key] < Hash[k] BY <2>2, <2>5 DEF Pry
      <4>2. c[k] = d[k] BY <2>2, <4>1 DEF Differ
      <4>3. k \in Inside(d, lo, hi) BY <2>1, <4>2 DEF Inside
      <4>4. \A j \in Inside(d, lo, hi) : j = key \/ j \in Inside(c, lo, hi) BY DEF Inside, Differ
      <4> QED BY <2>1, <2>2, <4>1, <4>3, <4>4 DEF Leads
    <3>2. Fenced(d, lo, k) /\ Fenced(d, k, hi) BY <3>1, <1>2, Children
    <3>3. k # key BY <2>2, <2>5 DEF Pry
    <3>4. SideOf(h, key, t) \in Pointers(h) BY <2>1, Sides
    <3>5. r = PassCopy(h, ver, t, Side(key, t), sub)
      <4>1. sub = InsertFn(h, ver, key)[SideOf(h, key, t)] BY <3>4, InsertReturns DEF Finished
      <4> QED BY <1>2, <2>4, <2>5, <4>1 DEF InsertCall, SideOf
    <3>6. CASE key < k
      <4>1. SideOf(h, key, t) = h[t].lch BY <3>6, Sides
      <4>2. Pre(n, lo, k, h[t].lch) BY <1>2, <2>1, <2>3, <3>2, <3>6
      <4>3. Result(D, cs, ver, sub, d, lo, k) BY <1>2, <4>1, <4>2
      <4> HIDE DEF sub, r, k
      <4>4. Result(D, cs, ver, PassCopy(h, ver, t, Side(key, t), sub), d, lo, hi)
        BY <1>2, <2>5, <3>6, <4>3, PassSpec DEF Result, k
      <4> QED BY <3>5, <4>4 DEF r
    <3>7. CASE ~(key < k)
      <4>1. SideOf(h, key, t) = h[t].rch BY <3>7, Sides
      <4>2. Pre(n, k, hi, h[t].rch) BY <1>2, <2>1, <2>2, <2>3, <3>2, <3>3, <3>7
      <4>3. Result(D, cs, ver, sub, d, k, hi) BY <1>2, <4>1, <4>2
      <4> HIDE DEF sub, r, k
      <4>4. Result(D, cs, ver, PassCopy(h, ver, t, Side(key, t), sub), d, lo, hi)
        BY <1>2, <2>5, <3>7, <4>3, PassSpec DEF Result, k
      <4> QED BY <3>5, <4>4 DEF r
    <3> QED BY <3>6, <3>7
  <2>6. CASE ~(Pry(t) > Hash[key]) /\ k = key
    <3>1. r = [ref |-> <<ver, key>>, new |-> {Node(<<ver, key>>, h[t].val + 1, h[t].lch, h[t].rch)}]
      BY <1>2, <2>4, <2>6 DEF InsertCall, Copy
    <3>2. h[t].val + 1 = d[key] BY <2>1, <2>6
    <3>3. Inside(d, lo, hi) = Inside(c, lo, hi) BY <2>1, <2>6, KeyFacts DEF Inside, Differ, Counts
    <3>4. key \notin Inside(c, lo, key) /\ key \notin Inside(d, lo, key)
          /\ key \notin Inside(c, key, hi) /\ key \notin Inside(d, key, hi)
      BY <2>2 DEF Inside
    <3>5. Holds(D, cs, h[t].lch, d, Inside(d, lo, key)) /\ Holds(D, cs, h[t].rch, d, Inside(d, key, hi))
      BY <2>1, <2>6, <3>4, HoldsSame
    <3>6. Leads(key, Inside(d, lo, hi)) BY <2>1, <2>6, <3>3
    <3>7. Fenced(d, lo, hi) BY <1>2
    <3> HIDE DEF r
    <3>8. Result(D, cs, ver, r, d, lo, hi) BY <3>1, <3>2, <3>5, <3>6, <3>7, OneNode DEF Result
    <3> QED BY <3>8 DEF r
  <2>7. CASE ~(Pry(t) > Hash[key]) /\ k # key
    <3>1. r = process_deploy(h, ver, t, key) BY <1>2, <2>4, <2>7 DEF InsertCall
    <3>2. Hash[k] < Hash[key] BY <2>2, <2>7, HashAssumption DEF Pry
    <3>3. \A j \in Inside(c, lo, hi) : Hash[j] < Hash[key]
      <4>1. \A j \in Inside(c, lo, hi) : Hash[j] \in Nat BY KeyFacts DEF Inside
      <4> QED BY <2>1, <2>2, <3>2, <4>1 DEF Leads
    <3>4. c[key] = 0
      <4>1. key \notin Inside(c, lo, hi) BY <3>3, <2>2
      <4> QED BY <4>1, <2>2, KeyFacts DEF Inside, Counts
    <3>5. d[key] = 1 BY <3>4
    <3> HIDE DEF r
    <3>6. Result(D, cs, ver, r, d, lo, hi) BY <1>2, <3>1, <3>3, <3>4, <3>5, DeploySpec DEF Result
    <3> QED BY <3>6 DEF r
  <2> QED BY <2>5, <2>6, <2>7
<1>3. 0 \in T
  <2> SUFFICES ASSUME NEW lo, NEW hi, NEW t, Pre(0, lo, hi, t) PROVE Post(search_insert(h, ver, t, key), lo, hi)
    OBVIOUS
  <2>1. \A j \in Inside(c, lo, hi) : FALSE BY KeyFacts DEF Inside
  <2>2. t = nullptr BY <2>1, HeldNode
  <2> HIDE DEF Pre, Post
  <2> QED BY <2>2, <1>1
<1>4. ASSUME NEW n \in Nat, n \in T PROVE n + 1 \in T
  <2> HIDE DEF Pre, Post
  <2>1. n + 1 \in Nat OBVIOUS
  <2> QED BY <1>1, <1>2, <1>4, <2>1
<1> HIDE DEF T
<1>5. \A n \in Nat : n \in T BY <1>3, <1>4, SetInduction
<1> QED BY <1>5 DEF T

\* The keys around one that has left.
LEMMA WithoutKey ==
  ASSUME NEW key \in Keys, NEW c, NEW d, Differ(c, d, key), d[key] = 0,
         NEW lo \in Int, NEW hi \in Int, lo < key, key < hi, NEW D, NEW cs
  PROVE  /\ Inside(d, lo, hi) = Inside(c, lo, key) \cup Inside(c, key, hi)
         /\ Inside(c, lo, key) = Inside(d, lo, key) /\ Inside(c, key, hi) = Inside(d, key, hi)
         /\ \A k \in Inside(c, lo, key) : k \in Keys /\ c[k] = d[k] /\ k < key /\ lo < k
         /\ \A k \in Inside(c, key, hi) : k \in Keys /\ c[k] = d[k] /\ key < k /\ k < hi
         /\ \A p : Holds(D, cs, p, c, Inside(c, lo, key)) => Holds(D, cs, p, d, Inside(d, lo, key))
         /\ \A p : Holds(D, cs, p, c, Inside(c, key, hi)) => Holds(D, cs, p, d, Inside(d, key, hi))
<1>1. key \in Int /\ \A k \in Keys : k \in Int BY KeyFacts
<1>2. key \notin Inside(c, lo, key) /\ key \notin Inside(d, lo, key)
      /\ key \notin Inside(c, key, hi) /\ key \notin Inside(d, key, hi)
  BY <1>1 DEF Inside
<1>3. Inside(c, lo, key) = Inside(d, lo, key) /\ Inside(c, key, hi) = Inside(d, key, hi) BY <1>2, HoldsSame
<1>4. ASSUME NEW k \in Keys PROVE k \in Inside(d, lo, hi) <=> k \in Inside(d, lo, key) \/ k \in Inside(d, key, hi)
  <2>1. CASE k < key BY <1>1, <2>1 DEF Inside
  <2>2. CASE k = key BY <1>1, <2>2 DEF Inside
  <2>3. CASE key < k BY <1>1, <2>3 DEF Inside
  <2> QED BY <1>1, <2>1, <2>2, <2>3
<1>5. Inside(d, lo, hi) \subseteq Keys /\ Inside(d, lo, key) \subseteq Keys /\ Inside(d, key, hi) \subseteq Keys
  BY DEF Inside
<1>6. Inside(d, lo, hi) = Inside(d, lo, key) \cup Inside(d, key, hi) BY <1>4, <1>5
<1>7. /\ \A p : Holds(D, cs, p, c, Inside(c, lo, key)) => Holds(D, cs, p, d, Inside(d, lo, key))
      /\ \A p : Holds(D, cs, p, c, Inside(c, key, hi)) => Holds(D, cs, p, d, Inside(d, key, hi))
  BY <1>2, HoldsSame
<1>8. ASSUME NEW k \in Inside(c, lo, key) \cup Inside(c, key, hi) PROVE k \in Keys /\ c[k] = d[k]
  BY <1>2 DEF Inside, Differ
<1> QED BY <1>3, <1>6, <1>7, <1>8 DEF Inside

\* A concatenation, once key has left: c is the version in which it still led.
LEMMA ConcatSpec ==
  ASSUME NEW h, NEW D, NEW cs, Finished(h, D, cs), NEW ver, NEW key \in Keys, NEW c \in Counts, NEW d \in Counts,
         d = cs[ver], Differ(c, d, key), d[key] = 0
  PROVE  \A n \in Nat : \A lo, hi, t_l, t_r :
           lo < key /\ key < hi /\ Fenced(c, lo, key) /\ Fenced(c, key, hi) /\ Fenced(d, lo, hi)
             /\ Holds(D, cs, t_l, c, Inside(c, lo, key)) /\ Holds(D, cs, t_r, c, Inside(c, key, hi))
             /\ (\A j \in Inside(d, lo, hi) : Hash[j] < n)
           => Result(D, cs, ver, process_concat(h, ver, t_l, t_r), d, lo, hi)
<1> DEFINE Pre(n, lo, hi, t_l, t_r) ==
             lo < key /\ key < hi /\ Fenced(c, lo, key) /\ Fenced(c, key, hi) /\ Fenced(d, lo, hi)
             /\ Holds(D, cs, t_l, c, Inside(c, lo, key)) /\ Holds(D, cs, t_r, c, Inside(c, key, hi))
             /\ (\A j \in Inside(d, lo, hi) : Hash[j] < n)
           Post(r, lo, hi) == Result(D, cs, ver, r, d, lo, hi)
           T == {n \in Nat : \A lo, hi, t_l, t_r :
                    Pre(n, lo, hi, t_l, t_r) => Post(process_concat(h, ver, t_l, t_r), lo, hi)}
<1>1. ASSUME NEW lo, NEW hi, lo < key, key < hi, lo \in Int, hi \in Int
      PROVE  /\ Inside(d, lo, hi) = Inside(c, lo, key) \cup Inside(c, key, hi)
             /\ Inside(c, lo, key) = Inside(d, lo, key) /\ Inside(c, key, hi) = Inside(d, key, hi)
             /\ \A k \in Inside(c, lo, key) : k \in Keys /\ c[k] = d[k] /\ k < key /\ lo < k
             /\ \A k \in Inside(c, key, hi) : k \in Keys /\ c[k] = d[k] /\ key < k /\ k < hi
             /\ \A p : Holds(D, cs, p, c, Inside(c, lo, key)) => Holds(D, cs, p, d, Inside(d, lo, key))
             /\ \A p : Holds(D, cs, p, c, Inside(c, key, hi)) => Holds(D, cs, p, d, Inside(d, key, hi))
  BY <1>1, WithoutKey
<1>2. ASSUME NEW n, NEW lo, NEW hi, NEW t_l, NEW t_r, Pre(n, lo, hi, t_l, t_r), t_l = nullptr \/ t_r = nullptr
      PROVE  Post(process_concat(h, ver, t_l, t_r), lo, hi)
  <2>1. lo \in Int /\ hi \in Int /\ t_l \in Pointers(h) /\ t_r \in Pointers(h)
    BY <1>2, FencePoint, HeldNode DEF Fenced
  <2>2. process_concat(h, ver, t_l, t_r) = ConcatCall(h, ver, ConcatFn(h, ver), t_l, t_r)
    BY <2>1, ConcatReturns DEF Finished
  <2>3. Inside(d, lo, hi) = Inside(c, lo, key) \cup Inside(c, key, hi) BY <1>1, <1>2, <2>1
  <2>4. CASE t_l = nullptr
    <3>1. Inside(c, lo, key) = {} BY <1>2, <2>4, HeldNode
    <3>2. Inside(d, lo, hi) = Inside(c, key, hi) BY <2>3, <3>1
    <3>3. Holds(D, cs, t_r, d, Inside(d, key, hi)) BY <1>1, <1>2, <2>1
    <3>4. Holds(D, cs, t_r, d, Inside(d, lo, hi)) BY <1>1, <1>2, <2>1, <3>2, <3>3
    <3>5. process_concat(h, ver, t_l, t_r) = Nothing(t_r) BY <2>2, <2>4 DEF ConcatCall
    <3> QED BY <3>4, <3>5, NothingSpec
  <2>5. CASE t_l # nullptr /\ t_r = nullptr
    <3>1. Inside(c, key, hi) = {} BY <1>2, <2>5, HeldNode
    <3>2. Inside(d, lo, hi) = Inside(c, lo, key) BY <2>3, <3>1
    <3>3. Holds(D, cs, t_l, d, Inside(d, lo, key)) BY <1>1, <1>2, <2>1
    <3>4. Holds(D, cs, t_l, d, Inside(d, lo, hi)) BY <1>1, <1>2, <2>1, <3>2, <3>3
    <3>5. process_concat(h, ver, t_l, t_r) = Nothing(t_l) BY <2>2, <2>5 DEF ConcatCall
    <3> QED BY <3>4, <3>5, NothingSpec
  <2> QED BY <1>2, <2>4, <2>5
<1>3. ASSUME NEW n \in Nat, n \in T, NEW lo, NEW hi, NEW t_l, NEW t_r, Pre(n + 1, lo, hi, t_l, t_r),
             t_l # nullptr, t_r # nullptr
      PROVE  Post(process_concat(h, ver, t_l, t_r), lo, hi)
  <2> DEFINE i == Key(t_l)  k == Key(t_r)  r == process_concat(h, ver, t_l, t_r)
  <2>0. lo \in Int /\ hi \in Int BY <1>3, FencePoint DEF Fenced
  <2>1. /\ t_l \in D /\ t_l \in DOMAIN h /\ t_l \in Pointers(h)
        /\ Leads(i, Inside(c, lo, key)) /\ i \in Inside(c, lo, key) /\ h[t_l].val = c[i]
        /\ Fenced(c, i, key) /\ Holds(D, cs, h[t_l].lch, c, Inside(c, lo, i))
        /\ Holds(D, cs, h[t_l].rch, c, Inside(c, i, key)) /\ h[t_l].rch \in Pointers(h)
    BY <1>3, HeldRead
  <2>2. /\ t_r \in D /\ t_r \in DOMAIN h /\ t_r \in Pointers(h)
        /\ Leads(k, Inside(c, key, hi)) /\ k \in Inside(c, key, hi) /\ h[t_r].val = c[k]
        /\ Fenced(c, key, k) /\ Holds(D, cs, h[t_r].lch, c, Inside(c, key, k))
        /\ Holds(D, cs, h[t_r].rch, c, Inside(c, k, hi)) /\ h[t_r].lch \in Pointers(h)
    BY <1>3, HeldRead
  <2>3. /\ Inside(d, lo, hi) = Inside(c, lo, key) \cup Inside(c, key, hi)
        /\ i \in Keys /\ c[i] = d[i] /\ i < key /\ lo < i /\ k \in Keys /\ c[k] = d[k] /\ key < k /\ k < hi
    BY <1>1, <1>3, <2>0, <2>1, <2>2
  <2>4. i \in Int /\ k \in Int /\ key \in Int /\ Hash[i] \in Nat /\ Hash[k] \in Nat /\ \A j \in Inside(d, lo, hi) : Hash[j] \in Nat
    BY <2>3, KeyFacts DEF Inside
  <2>5. r = ConcatCall(h, ver, ConcatFn(h, ver), t_l, t_r) BY <2>1, <2>2, ConcatReturns DEF Finished
  <2>6. CASE Above(t_l, t_r)
    <3> DEFINE sub == process_concat(h, ver, h[t_l].rch, t_r)
               m == CopyWith(h, ver, t_l, "rch", sub.ref)
               E == D \cup At({m} \cup sub.new)
               x == <<ver, i>>
    <3>1. Leads(i, Inside(d, lo, hi))
      <4>1. Hash[k] < Hash[i] BY <2>4, <2>6 DEF Above, Pry
      <4>2. \A j \in Inside(c, key, hi) : Hash[j] < Hash[i] BY <2>2, <2>3, <2>4, <4>1 DEF Leads
      <4> QED BY <2>1, <2>3, <2>4, <4>2 DEF Leads
    <3>2. /\ Fenced(d, i, hi) /\ \A j \in Inside(d, i, hi) : j \in Inside(d, lo, hi) /\ Hash[j] < Hash[i]
      <4>1. {j \in Inside(d, lo, hi) : j > i} = Inside(d, i, hi) /\ Fenced(d, i, hi)
            /\ \A j \in Inside(d, lo, i) \cup Inside(d, i, hi) : Hash[j] < Hash[i]
        BY <1>3, <3>1, Children
      <4> QED BY <4>1
    <3>3. \A j \in Inside(d, i, hi) : Hash[j] < n
      <4>1. Hash[i] < n + 1 BY <1>3, <2>1, <2>3
      <4> QED BY <2>4, <3>2, <4>1
    <3>4. Pre(n, i, hi, h[t_l].rch, t_r) BY <1>3, <2>1, <2>3, <3>2, <3>3
    <3>5. Result(D, cs, ver, sub, d, i, hi) BY <1>3, <3>4
    <3>6. r = [ref |-> x, new |-> {m} \cup sub.new]
      <4>1. sub = ConcatFn(h, ver)[<<h[t_l].rch, t_r>>] BY <2>1, <2>2, ConcatReturns DEF Finished
      <4> QED BY <1>3, <2>5, <2>6, <4>1 DEF ConcatCall, PassCopy
    <3>7. m.at = x /\ m.val = h[t_l].val /\ m.lch = h[t_l].lch /\ m.rch = sub.ref
          /\ Ver(x) = ver /\ Key(x) = i /\ x \in {ver} \X Keys /\ x \in E
      BY <2>3, PointerFacts DEF CopyWith, Copy, At
    <3>8. D \subseteq E /\ D \cup At(sub.new) \subseteq E BY DEF At
    <3> HIDE DEF m, E, x, sub, r, Pre, Post, i, k
    <3>9. Holds(E, cs, m.rch, d, Inside(d, i, hi)) BY <3>5, <3>7, <3>8, HoldsMore DEF Result
    <3>10. Holds(E, cs, m.lch, d, Inside(d, lo, i))
      <4>1. key \notin Inside(c, lo, i) /\ key \notin Inside(d, lo, i) BY <2>3, <2>4 DEF Inside
      <4>2. Holds(D, cs, h[t_l].lch, d, Inside(d, lo, i)) BY <2>1, <4>1, HoldsSame
      <4> QED BY <3>7, <3>8, <4>2, HoldsMore
    <3>11. m.val = d[i] /\ Fenced(d, lo, hi) BY <1>3, <2>1, <2>3, <3>7 DEF Pre
    <3>12. NodeIs(E, cs, x, m) /\ Holds(E, cs, x, d, Inside(d, lo, hi)) BY <3>1, <3>7, <3>9, <3>10, <3>11, NodeMade
    <3>13. Makes(D, cs, ver, {m} \cup sub.new) BY <3>5, <3>7, <3>12, MakesOne DEF E, Result
    <3>14. Result(D, cs, ver, r, d, lo, hi) BY <3>6, <3>12, <3>13 DEF E, Result
    <3> QED BY <3>14 DEF r, Post
  <2>7. CASE ~Above(t_l, t_r)
    <3> DEFINE sub == process_concat(h, ver, t_l, h[t_r].lch)
               m == CopyWith(h, ver, t_r, "lch", sub.ref)
               E == D \cup At({m} \cup sub.new)
               x == <<ver, k>>
    <3>1. Leads(k, Inside(d, lo, hi))
      <4>1. Hash[i] <= Hash[k] BY <2>4, <2>7 DEF Above, Pry
      <4>2. \A j \in Inside(c, lo, key) : Hash[j] <= Hash[k] BY <2>1, <2>3, <2>4, <4>1 DEF Leads
      <4> QED BY <2>2, <2>3, <2>4, <4>2 DEF Leads
    <3>2. /\ Fenced(d, lo, k) /\ \A j \in Inside(d, lo, k) : j \in Inside(d, lo, hi) /\ Hash[j] < Hash[k]
      <4>1. {j \in Inside(d, lo, hi) : j < k} = Inside(d, lo, k) /\ Fenced(d, lo, k)
            /\ \A j \in Inside(d, lo, k) \cup Inside(d, k, hi) : Hash[j] < Hash[k]
        BY <1>3, <3>1, Children
      <4> QED BY <4>1
    <3>3. \A j \in Inside(d, lo, k) : Hash[j] < n
      <4>1. Hash[k] < n + 1 BY <1>3, <2>2, <2>3
      <4> QED BY <2>4, <3>2, <4>1
    <3>4. Pre(n, lo, k, t_l, h[t_r].lch) BY <1>3, <2>2, <2>3, <3>2, <3>3
    <3>5. Result(D, cs, ver, sub, d, lo, k) BY <1>3, <3>4
    <3>6. r = [ref |-> x, new |-> {m} \cup sub.new]
      <4>1. sub = ConcatFn(h, ver)[<<t_l, h[t_r].lch>>] BY <2>1, <2>2, ConcatReturns DEF Finished
      <4> QED BY <1>3, <2>5, <2>7, <4>1 DEF ConcatCall, PassCopy
    <3>7. m.at = x /\ m.val = h[t_r].val /\ m.lch = sub.ref /\ m.rch = h[t_r].rch
          /\ Ver(x) = ver /\ Key(x) = k /\ x \in {ver} \X Keys /\ x \in E
      BY <2>3, PointerFacts DEF CopyWith, Copy, At
    <3>8. D \subseteq E /\ D \cup At(sub.new) \subseteq E BY DEF At
    <3> HIDE DEF m, E, x, sub, r, Pre, Post, i, k
    <3>9. Holds(E, cs, m.lch, d, Inside(d, lo, k)) BY <3>5, <3>7, <3>8, HoldsMore DEF Result
    <3>10. Holds(E, cs, m.rch, d, Inside(d, k, hi))
      <4>1. key \notin Inside(c, k, hi) /\ key \notin Inside(d, k, hi) BY <2>3, <2>4 DEF Inside
      <4>2. Holds(D, cs, h[t_r].rch, d, Inside(d, k, hi)) BY <2>2, <4>1, HoldsSame
      <4> QED BY <3>7, <3>8, <4>2, HoldsMore
    <3>11. m.val = d[k] /\ Fenced(d, lo, hi) BY <1>3, <2>2, <2>3, <3>7 DEF Pre
    <3>12. NodeIs(E, cs, x, m) /\ Holds(E, cs, x, d, Inside(d, lo, hi)) BY <3>1, <3>7, <3>9, <3>10, <3>11, NodeMade
    <3>13. Makes(D, cs, ver, {m} \cup sub.new) BY <3>5, <3>7, <3>12, MakesOne DEF E, Result
    <3>14. Result(D, cs, ver, r, d, lo, hi) BY <3>6, <3>12, <3>13 DEF E, Result
    <3> QED BY <3>14 DEF r, Post
  <2> QED BY <2>6, <2>7
<1>4. 0 \in T
  <2> SUFFICES ASSUME NEW lo, NEW hi, NEW t_l, NEW t_r, Pre(0, lo, hi, t_l, t_r)
               PROVE  Post(process_concat(h, ver, t_l, t_r), lo, hi)
    OBVIOUS
  <2>1. \A j \in Inside(d, lo, hi) : FALSE BY KeyFacts DEF Inside
  <2>2. lo \in Int /\ hi \in Int BY FencePoint DEF Fenced
  <2>3. Inside(c, lo, key) = {} BY <1>1, <2>1, <2>2
  <2>4. t_l = nullptr BY <2>3, HeldNode
  <2> HIDE DEF Pre, Post
  <2> QED BY <2>4, <1>2
<1>5. ASSUME NEW n \in Nat, n \in T PROVE n + 1 \in T
  <2> HIDE DEF Pre, Post
  <2>1. n + 1 \in Nat OBVIOUS
  <2> QED BY <1>2, <1>3, <1>5, <2>1
<1> HIDE DEF T
<1>6. \A n \in Nat : n \in T BY <1>4, <1>5, SetInduction
<1> QED BY <1>6 DEF T

\* search_delete(h, ver, t, key) returns the subtree of version ver where the key
\* counts one less, if it was there, and makes only finished nodes of version ver.
THEOREM DeleteSpec ==
  ASSUME NEW h, NEW D, NEW cs, Finished(h, D, cs), NEW ver, NEW key \in Keys, NEW c \in Counts, NEW d \in Counts,
         d = cs[ver], Differ(c, d, key), d[key] = (IF c[key] > 0 THEN c[key] - 1 ELSE 0)
  PROVE  \A n \in Nat : \A lo, hi, t :
           lo < key /\ key < hi /\ Fenced(c, lo, hi) /\ Fenced(d, lo, hi) /\ Holds(D, cs, t, c, Inside(c, lo, hi))
             /\ (\A j \in Inside(c, lo, hi) : Hash[j] < n)
           => Result(D, cs, ver, search_delete(h, ver, t, key), d, lo, hi)
<1> DEFINE Pre(n, lo, hi, t) ==
             lo < key /\ key < hi /\ Fenced(c, lo, hi) /\ Fenced(d, lo, hi) /\ Holds(D, cs, t, c, Inside(c, lo, hi))
             /\ (\A j \in Inside(c, lo, hi) : Hash[j] < n)
           Post(r, lo, hi) == Result(D, cs, ver, r, d, lo, hi)
           T == {n \in Nat : \A lo, hi, t : Pre(n, lo, hi, t) => Post(search_delete(h, ver, t, key), lo, hi)}
<1>1. ASSUME NEW n, NEW lo, NEW hi, NEW t, Pre(n, lo, hi, t), t = nullptr
      PROVE  Post(search_delete(h, ver, t, key), lo, hi)
  <2>1. search_delete(h, ver, t, key) = Nothing(nullptr)
    BY <1>1, DeleteReturns DEF DeleteCall, Finished, Pointers
  <2>2. Inside(c, lo, hi) = {} BY <1>1, HeldNode
  <2>3. Inside(d, lo, hi) \subseteq Inside(c, lo, hi) BY KeyFacts DEF Inside, Differ, Counts
  <2>4. Holds(D, cs, nullptr, d, Inside(d, lo, hi)) BY <2>2, <2>3 DEF Holds
  <2> QED BY <2>1, <2>4, NothingSpec
<1>2. ASSUME NEW n \in Nat, n \in T, NEW lo, NEW hi, NEW t, Pre(n + 1, lo, hi, t), t # nullptr
      PROVE  Post(search_delete(h, ver, t, key), lo, hi)
  <2> DEFINE k == Key(t)  r == search_delete(h, ver, t, key)
  <2>1. /\ t \in D /\ t \in DOMAIN h /\ t \in Pointers(h) /\ NodeIs(D, cs, t, h[t])
        /\ Leads(k, Inside(c, lo, hi)) /\ k \in Inside(c, lo, hi) /\ h[t].val = c[k]
        /\ Fenced(c, lo, k) /\ Fenced(c, k, hi)
        /\ Holds(D, cs, h[t].lch, c, Inside(c, lo, k)) /\ Holds(D, cs, h[t].rch, c, Inside(c, k, hi))
        /\ \A j \in Inside(c, lo, k) \cup Inside(c, k, hi) : Hash[j] < Hash[k]
        /\ h[t].lch \in Pointers(h) /\ h[t].rch \in Pointers(h)
    BY <1>2, HeldRead
  <2>2. k \in Keys /\ k \in Int /\ key \in Int /\ lo \in Int /\ hi \in Int /\ lo < k /\ k < hi /\ lo < key /\ key < hi
        /\ Hash[k] < n + 1 /\ Hash[k] \in Nat /\ Hash[key] \in Nat
    BY <1>2, <2>1, FencePoint, KeyFacts DEF Inside, Fenced
  <2>3. \A j \in Inside(c, lo, k) \cup Inside(c, k, hi) : Hash[j] < n
    <3>1. \A j \in Inside(c, lo, k) \cup Inside(c, k, hi) : Hash[j] \in Nat BY KeyFacts DEF Inside
    <3> QED BY <2>1, <2>2, <3>1
  <2>4. r = DeleteCall(h, ver, key, DeleteFn(h, ver, key), t) BY <2>1, DeleteReturns DEF Finished
  <2>5. CASE Pry(t) > Hash[key]
    <3> DEFINE sub == search_delete(h, ver, SideOf(h, key, t), key)
    <3>1. Leads(k, Inside(d, lo, hi))
      <4>1. k # key /\ Hash[key] < Hash[k] BY <2>2, <2>5 DEF Pry
      <4>2. c[k] = d[k] BY <2>2, <4>1 DEF Differ
      <4>3. k \in Inside(d, lo, hi) BY <2>1, <4>2 DEF Inside
      <4>4. \A j \in Inside(d, lo, hi) : j = key \/ j \in Inside(c, lo, hi) BY DEF Inside, Differ
      <4> QED BY <2>1, <2>2, <4>1, <4>3, <4>4 DEF Leads
    <3>2. Fenced(d, lo, k) /\ Fenced(d, k, hi) BY <3>1, <1>2, Children
    <3>3. k # key BY <2>2, <2>5 DEF Pry
    <3>4. SideOf(h, key, t) \in Pointers(h) BY <2>1, Sides
    <3>5. r = PassCopy(h, ver, t, Side(key, t), sub)
      <4>1. sub = DeleteFn(h, ver, key)[SideOf(h, key, t)] BY <3>4, DeleteReturns DEF Finished
      <4> QED BY <1>2, <2>4, <2>5, <4>1 DEF DeleteCall, SideOf
    <3>6. CASE key < k
      <4>1. SideOf(h, key, t) = h[t].lch BY <3>6, Sides
      <4>2. Pre(n, lo, k, h[t].lch) BY <1>2, <2>1, <2>3, <3>2, <3>6
      <4>3. Result(D, cs, ver, sub, d, lo, k) BY <1>2, <4>1, <4>2
      <4> HIDE DEF sub, r, k
      <4>4. Result(D, cs, ver, PassCopy(h, ver, t, Side(key, t), sub), d, lo, hi)
        BY <1>2, <2>5, <3>6, <4>3, PassSpec DEF Result, k
      <4> QED BY <3>5, <4>4 DEF r
    <3>7. CASE ~(key < k)
      <4>1. SideOf(h, key, t) = h[t].rch BY <3>7, Sides
      <4>2. Pre(n, k, hi, h[t].rch) BY <1>2, <2>1, <2>2, <2>3, <3>2, <3>3, <3>7
      <4>3. Result(D, cs, ver, sub, d, k, hi) BY <1>2, <4>1, <4>2
      <4> HIDE DEF sub, r, k
      <4>4. Result(D, cs, ver, PassCopy(h, ver, t, Side(key, t), sub), d, lo, hi)
        BY <1>2, <2>5, <3>7, <4>3, PassSpec DEF Result, k
      <4> QED BY <3>5, <4>4 DEF r
    <3> QED BY <3>6, <3>7
  <2>6. CASE ~(Pry(t) > Hash[key]) /\ k = key
    <3>1. c[key] > 0 /\ d[key] = c[key] - 1 /\ h[t].val = c[key] /\ c[key] \in Nat
      BY <2>1, <2>6, KeyFacts DEF Inside, Counts
    <3>2. CASE LastOccurrence(h, t)
      <4>1. d[key] = 0 BY <3>1, <3>2 DEF LastOccurrence
      <4>2. r = process_concat(h, ver, h[t].lch, h[t].rch) BY <1>2, <2>4, <2>6, <3>2 DEF DeleteCall
      <4>3. \A j \in Inside(d, lo, hi) : Hash[j] < n + 1
        <5>1. Inside(d, lo, hi) \subseteq Inside(c, lo, hi) BY <2>2, <4>1, KeyFacts DEF Inside, Differ
        <5> QED BY <1>2, <5>1
      <4>4. n + 1 \in Nat OBVIOUS
      <4> HIDE DEF r
      <4>5. Result(D, cs, ver, r, d, lo, hi) BY <1>2, <2>1, <2>2, <2>6, <4>1, <4>2, <4>3, <4>4, ConcatSpec
      <4> QED BY <4>5 DEF r
    <3>3. CASE ~LastOccurrence(h, t)
      <4>1. r = [ref |-> <<ver, key>>, new |-> {Node(<<ver, key>>, h[t].val - 1, h[t].lch, h[t].rch)}]
        BY <1>2, <2>4, <2>6, <3>3 DEF DeleteCall, Copy
      <4>2. h[t].val - 1 = d[key] /\ d[key] > 0 BY <3>1, <3>3 DEF LastOccurrence
      <4>3. Inside(d, lo, hi) = Inside(c, lo, hi) BY <2>1, <2>6, <4>2, KeyFacts DEF Inside, Differ, Counts
      <4>4. key \notin Inside(c, lo, key) /\ key \notin Inside(d, lo, key)
            /\ key \notin Inside(c, key, hi) /\ key \notin Inside(d, key, hi)
        BY <2>2 DEF Inside
      <4>5. Holds(D, cs, h[t].lch, d, Inside(d, lo, key)) /\ Holds(D, cs, h[t].rch, d, Inside(d, key, hi))
        BY <2>1, <2>6, <4>4, HoldsSame
      <4>6. Leads(key, Inside(d, lo, hi)) BY <2>1, <2>6, <4>3
      <4>7. Fenced(d, lo, hi) BY <1>2
      <4> HIDE DEF r
      <4>8. Result(D, cs, ver, r, d, lo, hi) BY <4>1, <4>2, <4>5, <4>6, <4>7, OneNode DEF Result
      <4> QED BY <4>8 DEF r
    <3> QED BY <3>2, <3>3
  <2>7. CASE ~(Pry(t) > Hash[key]) /\ k # key
    <3>1. r = Nothing(t) BY <1>2, <2>4, <2>7 DEF DeleteCall
    <3>2. Hash[k] < Hash[key] BY <2>2, <2>7, HashAssumption DEF Pry
    <3>3. key \notin Inside(c, lo, hi)
      <4>1. ~(Hash[key] <= Hash[k]) BY <2>2, <3>2
      <4> QED BY <2>1, <4>1 DEF Leads
    <3>4. c[key] = 0 /\ d[key] = 0 BY <2>2, <3>3, KeyFacts DEF Inside, Counts
    <3>5. key \notin Inside(d, lo, hi) BY <3>4 DEF Inside
    <3> HIDE DEF r
    <3>6. Holds(D, cs, t, d, Inside(d, lo, hi)) BY <1>2, <3>3, <3>5, HoldsSame
    <3>7. Result(D, cs, ver, r, d, lo, hi) BY <3>1, <3>6, NothingSpec
    <3> QED BY <3>7 DEF r
  <2> QED BY <2>5, <2>6, <2>7
<1>3. 0 \in T
  <2> SUFFICES ASSUME NEW lo, NEW hi, NEW t, Pre(0, lo, hi, t) PROVE Post(search_delete(h, ver, t, key), lo, hi)
    OBVIOUS
  <2>1. \A j \in Inside(c, lo, hi) : FALSE BY KeyFacts DEF Inside
  <2>2. t = nullptr BY <2>1, HeldNode
  <2> HIDE DEF Pre, Post
  <2> QED BY <2>2, <1>1
<1>4. ASSUME NEW n \in Nat, n \in T PROVE n + 1 \in T
  <2> HIDE DEF Pre, Post
  <2>1. n + 1 \in Nat OBVIOUS
  <2> QED BY <1>1, <1>2, <1>4, <2>1
<1> HIDE DEF T
<1>5. \A n \in Nat : n \in T BY <1>3, <1>4, SetInduction
<1> QED BY <1>5 DEF T
-----------------------------------------------------------------------------
(* Where a key lies in a version. *)
LEMMA AncestorsSame ==
  ASSUME NEW c, NEW d, NEW q \in Keys, Differ(c, d, q), NEW k \in Keys, Hash[q] <= Hash[k]
  PROVE  Ancestors(c, k) = Ancestors(d, k)
<1>1. \A j \in Keys : Hash[k] < Hash[j] => j # q /\ c[j] = d[j] /\ Hash[q] <= Hash[j] BY KeyFacts DEF Differ
<1>2. \A x \in Keys : x # q => c[x] = d[x] BY DEF Differ
<1>3. \A j \in Keys : Hash[k] < Hash[j] =>
         ((\A x \in Between(j, k) : c[x] > 0 => Hash[x] <= Hash[j])
            <=> (\A x \in Between(j, k) : d[x] > 0 => Hash[x] <= Hash[j]))
  <2>1. \A j \in Keys : \A x \in Between(j, k) : x \in Keys BY DEF Between
  <2> QED BY <1>1, <1>2, <2>1
<1> QED BY <1>1, <1>3 DEF Ancestors

\* The root has no ancestors.
LEMMA AncestorsRoot ==
  ASSUME NEW c, NEW k, Leads(k, Present(c)) PROVE Ancestors(c, k) = {}
BY KeyFacts DEF Ancestors, Leads, Present

\* A key has fewer ancestors than there are keys.
LEMMA AncestorsFinite ==
  ASSUME NEW c, NEW k \in Keys
  PROVE  /\ IsFiniteSet(Ancestors(c, k)) /\ k \notin Ancestors(c, k)
         /\ Cardinality(Ancestors(c, k)) \in Nat /\ Cardinality(Ancestors(c, k)) < Cardinality(Keys)
         /\ Cardinality(Keys) \in Nat
<1>1. Ancestors(c, k) \in SUBSET (Keys \ {k}) BY KeyFacts DEF Ancestors
<1>2. IsFiniteSet(Keys \ {k}) /\ Cardinality(Keys \ {k}) = Cardinality(Keys) - 1 BY KeysAssumption, FS_RemoveElement
<1>3. IsFiniteSet(Ancestors(c, k)) /\ Cardinality(Ancestors(c, k)) <= Cardinality(Keys \ {k}) BY <1>1, <1>2, FS_Subset
<1>4. Cardinality(Ancestors(c, k)) \in Nat /\ Cardinality(Keys) \in Nat BY <1>3, KeysAssumption, FS_CardinalityType
<1> QED BY <1>1, <1>2, <1>3, <1>4

\* The path to a child.
LEMMA AncestorsChild ==
  ASSUME NEW c \in Counts, NEW lo, NEW hi, Fenced(c, lo, hi), NEW k, Leads(k, Inside(c, lo, hi)),
         NEW i, Leads(i, Inside(c, lo, k)) \/ Leads(i, Inside(c, k, hi))
  PROVE  Ancestors(c, i) = Ancestors(c, k) \cup {k}
<1> DEFINE S == Inside(c, lo, hi)
<1>1. /\ lo \in Int /\ hi \in Int /\ k \in Keys /\ i \in Keys /\ c[k] > 0 /\ c[i] > 0
      /\ lo < k /\ k < hi /\ lo < i /\ i < hi /\ Hash[i] < Hash[k] /\ k \in S /\ i \in S
  <2>1. lo \in Int /\ hi \in Int BY FencePoint DEF Fenced
  <2>2. k \in S /\ i \in S /\ Hash[i] < Hash[k] BY Children DEF Leads
  <2> QED BY <2>1, <2>2 DEF Inside
<1>2. /\ \A x \in Keys : x \in Int /\ Hash[x] \in Nat
      /\ \A x, y \in Keys : Hash[x] = Hash[y] => x = y
  BY KeyFacts, HashAssumption
<1>3. \A j \in S : Hash[j] <= Hash[k] BY DEF Leads
<1>4. \A x \in Between(i, k) : x \in Keys /\ (c[x] > 0 => x \in S) BY <1>1, <1>2 DEF Between, Inside
<1>5. \A j \in Keys : c[j] > 0 /\ j \notin S => j <= lo \/ j >= hi BY <1>1, <1>2 DEF Inside
<1>6. \A j \in Keys : \A x \in Between(j, i) : x \in Between(j, k) \/ x \in Between(i, k) BY <1>1, <1>2 DEF Between
<1>7. \A j \in Keys : \A x \in Between(j, k) : x \in Between(j, i) \/ x \in Between(i, k) BY <1>1, <1>2 DEF Between
<1>8. \A j \in Keys : k \in Between(j, i) => \A x \in Between(j, k) : x \in Between(j, i) BY <1>1, <1>2 DEF Between
<1>9. k \in Ancestors(c, i) BY <1>1, <1>3, <1>4 DEF Ancestors, Between
<1>10. ASSUME NEW j \in Ancestors(c, k) PROVE j \in Ancestors(c, i)
  <2>1. j \in Keys /\ c[j] > 0 /\ Hash[k] < Hash[j] /\ \A x \in Between(j, k) : c[x] > 0 => Hash[x] <= Hash[j]
    BY <1>10 DEF Ancestors
  <2>2. \A x \in Between(i, k) : c[x] > 0 => Hash[x] <= Hash[j] BY <1>1, <1>2, <1>3, <1>4, <2>1
  <2>3. Hash[i] < Hash[j] BY <1>1, <1>2, <2>1
  <2> QED BY <1>6, <2>1, <2>2, <2>3 DEF Ancestors
<1>11. ASSUME NEW j \in Ancestors(c, i), j # k PROVE j \in Ancestors(c, k)
  <2>1. j \in Keys /\ c[j] > 0 /\ Hash[i] < Hash[j] /\ \A x \in Between(j, i) : c[x] > 0 => Hash[x] <= Hash[j]
    BY <1>11 DEF Ancestors
  <2>2. Hash[k] < Hash[j]
    <3>1. CASE k \in Between(j, i)
      <4>1. Hash[k] <= Hash[j] /\ Hash[k] # Hash[j] BY <1>1, <1>2, <1>11, <2>1, <3>1
      <4> QED BY <1>1, <1>2, <2>1, <4>1
    <3>2. CASE k \notin Between(j, i) /\ j \in S
      <4>1. CASE Leads(i, Inside(c, lo, k))
        <5>1. i < k BY <4>1 DEF Leads, Inside
        <5>2. j < k BY <1>1, <1>2, <2>1, <3>2, <5>1 DEF Between
        <5>3. j \in Inside(c, lo, k) BY <3>2, <5>2 DEF Inside
        <5> QED BY <1>1, <1>2, <2>1, <4>1, <5>3 DEF Leads
      <4>2. CASE Leads(i, Inside(c, k, hi))
        <5>1. k < i BY <4>2 DEF Leads, Inside
        <5>2. k < j BY <1>1, <1>2, <2>1, <3>2, <5>1 DEF Between
        <5>3. j \in Inside(c, k, hi) BY <3>2, <5>2 DEF Inside
        <5> QED BY <1>1, <1>2, <2>1, <4>2, <5>3 DEF Leads
      <4> QED BY <4>1, <4>2
    <3>3. CASE j \notin S
      <4>1. \A f \in Keys : Fence(c, f, S) => c[f] > 0 /\ Hash[k] < Hash[f]
        <5>1. \A f \in Keys : f \notin {-1, Top} BY KeyFacts
        <5> QED BY <1>1, <5>1 DEF Fence
      <4>2. CASE j <= lo
        <5>1. lo \in Keys BY <1>1, <2>1, <4>2, KeyFacts, FencePoint DEF Fenced
        <5>2. lo \in Between(j, i) BY <1>1, <1>2, <2>1, <4>2, <5>1 DEF Between
        <5>3. Hash[k] < Hash[lo] /\ Hash[lo] <= Hash[j] BY <2>1, <4>1, <5>1, <5>2 DEF Fenced
        <5> QED BY <1>1, <1>2, <2>1, <5>1, <5>3
      <4>3. CASE j >= hi
        <5>1. hi \in Keys BY <1>1, <2>1, <4>3, KeyFacts, FencePoint DEF Fenced
        <5>2. hi \in Between(j, i) BY <1>1, <1>2, <2>1, <4>3, <5>1 DEF Between
        <5>3. Hash[k] < Hash[hi] /\ Hash[hi] <= Hash[j] BY <2>1, <4>1, <5>1, <5>2 DEF Fenced
        <5> QED BY <1>1, <1>2, <2>1, <5>1, <5>3
      <4> QED BY <1>5, <2>1, <3>3, <4>2, <4>3
    <3> QED BY <3>1, <3>2, <3>3
  <2>3. \A x \in Between(i, k) : c[x] > 0 => Hash[x] <= Hash[j] BY <1>1, <1>2, <1>3, <1>4, <2>1, <2>2
  <2> QED BY <1>7, <2>1, <2>2, <2>3 DEF Ancestors
<1> QED BY <1>9, <1>10, <1>11

\* Every key leads a subtree.
LEMMA HasBounds ==
  ASSUME NEW c \in Counts, NEW k \in Keys, c[k] > 0
  PROVE  \E lo, hi : Fenced(c, lo, hi) /\ Leads(k, Inside(c, lo, hi))
<1> DEFINE R == {j \in Keys : c[j] > 0 /\ k < j /\ Hash[k] < Hash[j]}
           L == {j \in Keys : c[j] > 0 /\ j < k /\ Hash[k] < Hash[j]}
<1>1. \A x \in Keys : x \in Nat /\ Hash[x] \in Nat /\ x < Top /\ -1 < x /\ Top \in Nat BY KeyFacts
<1>2. PICK hi \in R \cup {Top} : \A j \in R : hi <= j
  <2>1. CASE R = {} BY <2>1
  <2>2. CASE R # {}
    <3>1. R \in SUBSET Nat BY <1>1
    <3> HIDE DEF R
    <3>2. PICK n \in R : \A m \in R : n <= m BY <2>2, <3>1, LeastElement
    <3> QED BY <3>2
  <2> QED BY <2>1, <2>2
<1>3. PICK lo \in L \cup {-1} : \A j \in L : j <= lo
  <2>1. CASE L = {} BY <2>1
  <2>2. CASE L # {}
    <3> DEFINE U == {Top - j : j \in L}
    <3>1. U \in SUBSET Nat BY <1>1
    <3>2. U # {} BY <2>2
    <3> HIDE DEF U
    <3>3. PICK n \in U : \A m \in U : n <= m BY <3>1, <3>2, LeastElement
    <3> USE DEF U
    <3>4. PICK j \in L : n = Top - j BY <3>3
    <3>5. \A i \in L : Top - j <= Top - i BY <3>3, <3>4
    <3>6. \A i \in L : i <= j BY <1>1, <3>5
    <3> QED BY <3>6
  <2> QED BY <2>1, <2>2
<1>4. \A j \in Inside(c, lo, hi) : Hash[j] <= Hash[k]
  <2> SUFFICES ASSUME NEW j \in Inside(c, lo, hi), ~(Hash[j] <= Hash[k]) PROVE FALSE OBVIOUS
  <2>1. j \in Keys /\ c[j] > 0 /\ lo < j /\ j < hi /\ Hash[k] < Hash[j] BY <1>1 DEF Inside
  <2>2. lo \in Int /\ hi \in Int BY <1>1, <1>2, <1>3
  <2>3. CASE j < k
    <3>1. j \in L BY <2>1, <2>3
    <3> QED BY <1>1, <1>3, <2>1, <2>2, <3>1
  <2>4. CASE k < j
    <3>1. j \in R BY <2>1, <2>4
    <3> QED BY <1>1, <1>2, <2>1, <2>2, <3>1
  <2>5. CASE j = k BY <1>1, <2>1, <2>5
  <2> QED BY <1>1, <2>1, <2>3, <2>4, <2>5
<1>5. k \in Inside(c, lo, hi) BY <1>1, <1>2, <1>3 DEF Inside
<1>6. \A f \in R \cup L : \A j \in Inside(c, lo, hi) : Hash[j] < Hash[f]
  <2>1. \A j \in Inside(c, lo, hi) : j \in Keys BY DEF Inside
  <2> QED BY <1>1, <1>4, <2>1
<1>7. Fenced(c, lo, hi)
  <2>1. Fence(c, hi, Inside(c, lo, hi)) BY <1>2, <1>6 DEF Fence
  <2>2. Fence(c, lo, Inside(c, lo, hi)) BY <1>3, <1>6 DEF Fence
  <2> QED BY <2>1, <2>2 DEF Fenced
<1> QED BY <1>4, <1>5, <1>7 DEF Leads
-----------------------------------------------------------------------------
(* What Nodes, Contents and IsTreap make of finished nodes. *)
LEMMA NodesNull == ASSUME NEW h, HeapOrdered(h) PROVE Nodes(h, nullptr) = {}
BY NodesReturns DEF NodesCall, Pointers

\* The nodes below a node.
LEMMA NodesNode ==
  ASSUME NEW h, HeapOrdered(h), NEW t \in DOMAIN h
  PROVE  Nodes(h, t) = {t} \cup Nodes(h, h[t].lch) \cup Nodes(h, h[t].rch)
<1>1. t # nullptr /\ t \in Pointers(h) /\ h[t].lch \in Pointers(h) /\ h[t].rch \in Pointers(h) BY Ranks DEF Pointers
<1>2. Nodes(h, t) = NodesCall(h, NodesFn(h), t) BY <1>1, NodesReturns
<1>3. Nodes(h, h[t].lch) = NodesFn(h)[h[t].lch] BY <1>1, NodesReturns
<1>4. Nodes(h, h[t].rch) = NodesFn(h)[h[t].rch] BY <1>1, NodesReturns
<1> QED BY <1>1, <1>2, <1>3, <1>4 DEF NodesCall

\* Nodes stays among nodes that point only at each other.
LEMMA NodesWithin ==
  ASSUME NEW h, HeapOrdered(h), NEW W \in SUBSET DOMAIN h,
         \A x \in W : h[x].lch \in W \cup {nullptr} /\ h[x].rch \in W \cup {nullptr}
  PROVE  \A t \in W \cup {nullptr} : Nodes(h, t) \subseteq W
<1> DEFINE T == {n \in Nat : \A t \in W \cup {nullptr} : Rank(t) < n => Nodes(h, t) \subseteq W}
<1>1. \A t \in W \cup {nullptr} : Rank(t) \in Nat BY Ranks DEF Pointers
<1>2. 0 \in T BY <1>1
<1>3. ASSUME NEW n \in Nat, n \in T PROVE n + 1 \in T
  <2> SUFFICES ASSUME NEW t \in W \cup {nullptr}, Rank(t) < n + 1 PROVE Nodes(h, t) \subseteq W OBVIOUS
  <2>1. CASE t = nullptr BY <2>1, NodesNull
  <2>2. CASE t \in W
    <3>1. Rank(h[t].lch) < Rank(t) /\ Rank(h[t].rch) < Rank(t) BY <2>2, Ranks
    <3>2. Rank(h[t].lch) < n /\ Rank(h[t].rch) < n BY <1>1, <2>2, <3>1
    <3>3. Nodes(h, h[t].lch) \subseteq W /\ Nodes(h, h[t].rch) \subseteq W BY <1>3, <2>2, <3>2
    <3>4. Nodes(h, t) = {t} \cup Nodes(h, h[t].lch) \cup Nodes(h, h[t].rch) BY <2>2, NodesNode
    <3> QED BY <2>2, <3>3, <3>4
  <2> QED BY <2>1, <2>2
<1>4. PICK N \in Nat : \A t \in Pointers(h) : Rank(t) < N BY Ranks
<1> HIDE DEF T
<1>5. N \in T
  <2>1. \A n \in Nat : n \in T BY <1>2, <1>3, SetInduction
  <2> QED BY <2>1
<1>6. \A t \in W \cup {nullptr} : t \in Pointers(h) BY DEF Pointers
<1> QED BY <1>4, <1>5, <1>6 DEF T

\* The nodes of a held subtree are one for each of its keys, with its counter.
OneEach(h, N, D, c, S) ==
  /\ N \subseteq D /\ \A u \in N : Key(u) \in S /\ h[u].val = c[Key(u)]
  /\ \A k \in S : \E u \in N : Key(u) = k
  /\ \A u, v \in N : Key(u) = Key(v) => u = v

\* The nodes of a held subtree are finished, one for each of its keys.
LEMMA NodesSpec ==
  ASSUME NEW h, NEW D, NEW cs, Finished(h, D, cs), NEW c \in Counts
  PROVE  \A n \in Nat : \A lo, hi, t :
           Fenced(c, lo, hi) /\ Holds(D, cs, t, c, Inside(c, lo, hi)) /\ (\A j \in Inside(c, lo, hi) : Hash[j] < n)
           => OneEach(h, Nodes(h, t), D, c, Inside(c, lo, hi))
<1> DEFINE Pre(n, lo, hi, t) ==
             Fenced(c, lo, hi) /\ Holds(D, cs, t, c, Inside(c, lo, hi)) /\ (\A j \in Inside(c, lo, hi) : Hash[j] < n)
           Post(lo, hi, t) == OneEach(h, Nodes(h, t), D, c, Inside(c, lo, hi))
           T == {n \in Nat : \A lo, hi, t : Pre(n, lo, hi, t) => Post(lo, hi, t)}
<1>1. ASSUME NEW n, NEW lo, NEW hi, NEW t, Pre(n, lo, hi, t), t = nullptr PROVE Post(lo, hi, t)
  <2>1. Inside(c, lo, hi) = {} /\ Nodes(h, t) = {} BY <1>1, HeldNode, NodesNull DEF Finished
  <2> QED BY <2>1 DEF OneEach
<1>2. ASSUME NEW n \in Nat, n \in T, NEW lo, NEW hi, NEW t, Pre(n + 1, lo, hi, t), t # nullptr PROVE Post(lo, hi, t)
  <2> DEFINE k == Key(t)  A == Nodes(h, h[t].lch)  B == Nodes(h, h[t].rch)
  <2>1. /\ t \in D /\ t \in DOMAIN h /\ k \in Inside(c, lo, hi) /\ h[t].val = c[k]
        /\ Leads(k, Inside(c, lo, hi)) /\ Fenced(c, lo, k) /\ Fenced(c, k, hi)
        /\ Holds(D, cs, h[t].lch, c, Inside(c, lo, k)) /\ Holds(D, cs, h[t].rch, c, Inside(c, k, hi))
        /\ \A j \in Inside(c, lo, k) \cup Inside(c, k, hi) : Hash[j] < Hash[k]
    BY <1>2, HeldRead
  <2>2. \A j \in Inside(c, lo, k) \cup Inside(c, k, hi) : Hash[j] < n
    <3>1. \A j \in Inside(c, lo, k) \cup Inside(c, k, hi) : Hash[j] \in Nat BY KeyFacts DEF Inside
    <3>2. Hash[k] < n + 1 /\ Hash[k] \in Nat BY <1>2, <2>1, KeyFacts DEF Inside
    <3> QED BY <2>1, <3>1, <3>2
  <2>3. OneEach(h, A, D, c, Inside(c, lo, k)) /\ OneEach(h, B, D, c, Inside(c, k, hi)) BY <1>2, <2>1, <2>2
  <2>4. Nodes(h, t) = {t} \cup A \cup B BY <2>1, NodesNode DEF Finished
  <2>5. /\ \A j \in Inside(c, lo, hi) : j = k \/ j \in Inside(c, lo, k) \/ j \in Inside(c, k, hi)
        /\ \A j \in Inside(c, lo, k) : j < k /\ j \in Int /\ j \in Inside(c, lo, hi)
        /\ \A j \in Inside(c, k, hi) : k < j /\ j \in Int /\ j \in Inside(c, lo, hi)
        /\ k \in Int
    <3>1. /\ {j \in Inside(c, lo, hi) : j < k} = Inside(c, lo, k)
          /\ {j \in Inside(c, lo, hi) : j > k} = Inside(c, k, hi)
      BY <1>2, <2>1, Children
    <3>2. \A j \in Inside(c, lo, hi) : j \in Int BY KeyFacts DEF Inside
    <3> HIDE DEF k
    <3> QED BY <2>1, <3>1, <3>2
  <2> HIDE DEF A, B
  <2>6. \A u \in A, v \in B : Key(u) # Key(v) BY <2>3, <2>5 DEF OneEach
  <2>7. \A u \in A \cup B : Key(u) # Key(t) BY <2>3, <2>5 DEF OneEach
  <2> QED BY <2>1, <2>3, <2>4, <2>5, <2>6, <2>7 DEF OneEach
<1>3. 0 \in T
  <2> SUFFICES ASSUME NEW lo, NEW hi, NEW t, Pre(0, lo, hi, t) PROVE Post(lo, hi, t) OBVIOUS
  <2>1. \A j \in Inside(c, lo, hi) : FALSE BY KeyFacts DEF Inside
  <2>2. t = nullptr BY <2>1, HeldNode
  <2> HIDE DEF Pre, Post
  <2> QED BY <2>2, <1>1
<1>4. ASSUME NEW n \in Nat, n \in T PROVE n + 1 \in T
  <2> HIDE DEF Pre, Post
  <2>1. n + 1 \in Nat OBVIOUS
  <2> QED BY <1>1, <1>2, <1>4, <2>1
<1> HIDE DEF T
<1>5. \A n \in Nat : n \in T BY <1>3, <1>4, SetInduction
<1> QED BY <1>5 DEF T

\* The priorities are bounded.
LEMMA HashBound == \E N \in Nat : \A k \in Keys : Hash[k] < N
<1>1. CASE Keys = {} BY <1>1
<1>2. CASE Keys # {}
  <2>1. PICK k \in Keys : \A j \in Keys : Hash[j] <= Hash[k] BY <1>2, LargestElement
  <2>2. \A j \in Keys : Hash[j] < Hash[k] + 1 BY <2>1, HashAssumption
  <2>3. Hash[k] + 1 \in Nat BY HashAssumption
  <2> QED BY <2>2, <2>3
<1> QED BY <1>1, <1>2

\* NodesSpec, with the induction done.
LEMMA HeldNodes ==
  ASSUME NEW h, NEW D, NEW cs, Finished(h, D, cs), NEW c \in Counts, NEW lo, NEW hi, Fenced(c, lo, hi),
         NEW t, Holds(D, cs, t, c, Inside(c, lo, hi))
  PROVE  OneEach(h, Nodes(h, t), D, c, Inside(c, lo, hi))
<1>1. PICK N \in Nat : \A k \in Keys : Hash[k] < N BY HashBound
<1>2. \A j \in Inside(c, lo, hi) : Hash[j] < N BY <1>1 DEF Inside
<1> QED BY <1>2, NodesSpec

\* All the keys of a version are a subtree.
LEMMA WholeVersion ==
  ASSUME NEW c PROVE Present(c) = Inside(c, -1, Top) /\ Fenced(c, -1, Top)
BY KeyFacts DEF Present, Inside, Fenced, Fence

\* A version whose root is held is a treap of its contents.
LEMMA HeldTreap ==
  ASSUME NEW h, NEW D, NEW cs, Finished(h, D, cs), \A x \in D : cs[Ver(x)] \in Counts,
         NEW c \in Counts, NEW t, Holds(D, cs, t, c, Present(c))
  PROVE  IsTreap(h, t)
<1>1. Nodes(h, t) \subseteq D BY WholeVersion, HeldNodes DEF OneEach
<1> SUFFICES ASSUME NEW x \in D
             PROVE  /\ h[x].val > 0
                    /\ \A u \in Nodes(h, h[x].lch) : Key(u) < Key(x) /\ Pry(u) < Pry(x)
                    /\ \A u \in Nodes(h, h[x].rch) : Key(u) > Key(x) /\ Pry(u) < Pry(x)
  BY <1>1 DEF IsTreap
<1> DEFINE d == cs[Ver(x)]  k == Key(x)
<1>2. NodeIs(D, cs, x, h[x]) /\ d \in Counts /\ k \in Keys BY Ranks DEF Finished
<1>3. h[x].val > 0 /\ d[k] > 0 BY <1>2 DEF NodeIs
<1>4. PICK lo, hi : Fenced(d, lo, hi) /\ Leads(k, Inside(d, lo, hi)) BY <1>2, <1>3, HasBounds
<1>5. SubKeys(d, k) = Inside(d, lo, hi) BY <1>2, <1>4, SubIsInside
<1>6. /\ Fenced(d, lo, k) /\ Fenced(d, k, hi)
      /\ {j \in Inside(d, lo, hi) : j < k} = Inside(d, lo, k) /\ {j \in Inside(d, lo, hi) : j > k} = Inside(d, k, hi)
      /\ \A j \in Inside(d, lo, k) \cup Inside(d, k, hi) : Hash[j] < Hash[k]
  BY <1>2, <1>4, Children
<1>7. Holds(D, cs, h[x].lch, d, Inside(d, lo, k)) /\ Holds(D, cs, h[x].rch, d, Inside(d, k, hi))
  BY <1>2, <1>5, <1>6 DEF NodeIs
<1>8. /\ OneEach(h, Nodes(h, h[x].lch), D, d, Inside(d, lo, k))
      /\ OneEach(h, Nodes(h, h[x].rch), D, d, Inside(d, k, hi))
  BY <1>2, <1>6, <1>7, HeldNodes
<1>9. \A j \in Inside(d, lo, k) : j < k BY DEF Inside
<1>10. \A j \in Inside(d, k, hi) : j > k BY DEF Inside
<1> QED BY <1>3, <1>6, <1>8, <1>9, <1>10 DEF OneEach, Pry

\* The sums that Contents takes are of one node at most.
LEMMA SumOne == ASSUME NEW h, NEW t, h[t].val \in Nat PROVE MapThenSumSet(LAMBDA u : h[u].val, {t}) = h[t].val
<1> DEFINE P(f) == f = [s \in SUBSET {t} |-> IF s = {} THEN 0
                                             ELSE LET x == CHOOSE y \in s : TRUE IN h[x].val + f[s \ {x}]]
           e == [s \in SUBSET {t} |-> IF s = {} THEN 0 ELSE h[t].val]
<1>1. P(e)
  <2>1. ASSUME NEW s \in SUBSET {t}, s # {}
        PROVE  (CHOOSE y \in s : TRUE) = t /\ s \ {CHOOSE y \in s : TRUE} = {}
    BY <2>1
  <2>2. e[{}] = 0 OBVIOUS
  <2> HIDE DEF e
  <2>3. \A s \in SUBSET {t} : s # {} => (LET x == CHOOSE y \in s : TRUE IN h[x].val + e[s \ {x}]) = h[t].val
    BY <2>1, <2>2
  <2> QED BY <2>3 DEF e
<1>2. P(CHOOSE f : P(f)) 
  <2> HIDE DEF P, e
  <2> QED BY <1>1
<1> DEFINE g == CHOOSE f : P(f)
<1>3. g[{t}] = h[t].val
  <2>1. g = [s \in SUBSET {t} |-> IF s = {} THEN 0
                                  ELSE LET x == CHOOSE y \in s : TRUE IN h[x].val + g[s \ {x}]] BY <1>2
  <2>2. (CHOOSE y \in {t} : TRUE) = t /\ {t} \ {t} = {} OBVIOUS
  <2> HIDE DEF g
  <2>3. g[{}] = 0 BY <2>1
  <2>4. g[{t}] = h[t].val + g[{t} \ {t}]
    <3>1. g[{t}] = (LET x == CHOOSE y \in {t} : TRUE IN h[x].val + g[{t} \ {x}]) BY <2>1
    <3> QED BY <2>2, <3>1
  <2> QED BY <2>2, <2>3, <2>4
<1> QED BY <1>3 DEF MapThenSumSet, MapThenFoldSet

\* The nodes below the root of a version hold its contents.
LEMMA HeldContents ==
  ASSUME NEW h, NEW D, NEW cs, Finished(h, D, cs), NEW c \in Counts, NEW t, Holds(D, cs, t, c, Present(c))
  PROVE  Contents(h, t) = c
<1> DEFINE N == Nodes(h, t)
<1>1. OneEach(h, N, D, c, Present(c)) BY WholeVersion, HeldNodes
<1>5. MapThenSumSet(LAMBDA u : h[u].val, {}) = 0
  <2> DEFINE P(f) == f = [s \in SUBSET {} |-> IF s = {} THEN 0
                                             ELSE LET x == CHOOSE y \in s : TRUE IN h[x].val + f[s \ {x}]]
  <2>1. P([s \in SUBSET {} |-> 0]) OBVIOUS
  <2>2. P(CHOOSE f : P(f)) BY <2>1
  <2> DEFINE g == CHOOSE f : P(f)
  <2>3. g[{}] = 0
    <3>1. g = [s \in SUBSET {} |-> IF s = {} THEN 0
                                    ELSE LET x == CHOOSE y \in s : TRUE IN h[x].val + g[s \ {x}]] BY <2>2
    <3> HIDE DEF g
    <3> QED BY <3>1
  <2> QED BY <2>3 DEF MapThenSumSet, MapThenFoldSet
<1>2. ASSUME NEW k \in Keys PROVE MapThenSumSet(LAMBDA u : h[u].val, {u \in N : Key(u) = k}) = c[k]
  <2> HIDE DEF N
  <2>1. c[k] \in Nat BY DEF Counts
  <2>2. CASE c[k] = 0
    <3>1. {u \in N : Key(u) = k} = {} BY <1>1, <2>2 DEF OneEach, Present
    <3> QED BY <1>5, <2>2, <3>1, Zenon
  <2>3. CASE c[k] > 0
    <3>1. PICK u \in N : Key(u) = k BY <1>1, <2>3 DEF OneEach, Present
    <3>2. {v \in N : Key(v) = k} = {u} BY <1>1, <3>1 DEF OneEach
    <3>3. h[u].val = c[k] BY <1>1, <3>1 DEF OneEach
    <3>4. h[u].val \in Nat BY <2>1, <3>3
    <3>5. MapThenSumSet(LAMBDA v : h[v].val, {u}) = h[u].val BY <3>4, SumOne
    <3> QED BY <3>2, <3>3, <3>5, Zenon
  <2> QED BY <2>1, <2>2, <2>3
<1>3. Contents(h, t) = [k \in Keys |-> MapThenSumSet(LAMBDA u : h[u].val, {u \in N : Key(u) = k})] BY DEF Contents
<1>4. c = [k \in Keys |-> c[k]] BY DEF Counts
<1> HIDE DEF N
<1> QED BY <1>2, <1>3, <1>4, Zenon
-----------------------------------------------------------------------------
(* Allocation and bulk load. *)
\* The fields of a node, as the heap keeps them.
IsNode(r) == r = [val |-> r.val, aug |-> r.aug, lch |-> r.lch, rch |-> r.rch]

\* Allocation puts the new nodes in the heap and leaves the others alone.
LEMMA AllocSpec ==
  ASSUME NEW h, NEW new
  PROVE  /\ DOMAIN Alloc(h, new) = DOMAIN h \cup At(new)
         /\ \A x \in DOMAIN h \ At(new) : Alloc(h, new)[x] = h[x]
         /\ \A x \in At(new) : \E n \in new :
               /\ n.at = x /\ IsNode(Alloc(h, new)[x])
               /\ Alloc(h, new)[x].val = n.val /\ Alloc(h, new)[x].lch = n.lch /\ Alloc(h, new)[x].rch = n.rch
<1> DEFINE D == DOMAIN h \cup {n.at : n \in new}
           n(x) == CHOOSE m \in new : m.at = x
           r(x) == [val |-> n(x).val, aug |-> aug_uninitialized, lch |-> n(x).lch, rch |-> n(x).rch]
<1>1. Alloc(h, new) = [x \in D |-> IF \E m \in new : m.at = x THEN r(x) ELSE h[x]] BY DEF Alloc
<1>2. At(new) = {m.at : m \in new} BY DEF At
<1>3. \A x \in At(new) : \E m \in new : m.at = x BY <1>2
<1>4. \A x \in At(new) : n(x) \in new /\ n(x).at = x BY <1>3
<1>5. \A x \in DOMAIN h \ At(new) : ~(\E m \in new : m.at = x) BY <1>2
<1> HIDE DEF n
<1>6. DOMAIN Alloc(h, new) = DOMAIN h \cup At(new) BY <1>1, <1>2
<1>7. \A x \in DOMAIN h \ At(new) : Alloc(h, new)[x] = h[x]
  <2> HIDE DEF r
  <2> QED BY <1>1, <1>2, <1>5
<1>8. \A x \in At(new) : Alloc(h, new)[x] = r(x)
  <2> HIDE DEF r
  <2> QED BY <1>1, <1>2, <1>3
<1>9. \A x : IsNode(r(x)) /\ r(x).val = n(x).val /\ r(x).lch = n(x).lch /\ r(x).rch = n(x).rch BY DEF IsNode
<1> HIDE DEF r
<1> QED BY <1>4, <1>6, <1>7, <1>8, <1>9

\* The subtree of version 0 that has the keys S.
LEMMA HighestHolds ==
  ASSUME NEW c \in Counts, NEW lo, NEW hi, Fenced(c, lo, hi), NEW D, NEW cs, cs[0] = c,
         \A k \in Inside(c, lo, hi) : <<0, k>> \in D
  PROVE  Holds(D, cs, Highest(Inside(c, lo, hi)), c, Inside(c, lo, hi))
<1> DEFINE S == Inside(c, lo, hi)
<1>1. CASE S = {} BY <1>1 DEF Highest, Holds
<1>2. CASE S # {}
  <2> DEFINE k == CHOOSE i \in S : \A j \in S : Hash[j] <= Hash[i]
  <2>1. S \in SUBSET Keys BY DEF Inside
  <2>2. \E i \in S : \A j \in S : Hash[j] <= Hash[i] BY <1>2, <2>1, LargestElement
  <2>3. k \in S /\ \A j \in S : Hash[j] <= Hash[k] BY <2>2
  <2>4. Highest(S) = <<0, k>> BY <1>2 DEF Highest
  <2> HIDE DEF k
  <2>5. Leads(k, S) BY <2>3 DEF Leads
  <2>6. SubKeys(c, k) = S BY <2>5, SubIsInside
  <2>7. Ver(<<0, k>>) = 0 /\ Key(<<0, k>>) = k BY DEF Ver, Key
  <2> HIDE DEF S
  <2> QED BY <1>2, <2>3, <2>4, <2>6, <2>7 DEF Holds, S
<1> QED BY <1>1, <1>2

\* build_parallel makes version 0, a treap of finished nodes that holds the contents
\* and has its sums.
THEOREM BuildSpec ==
  ASSUME NEW c \in Counts, NEW cs, cs[0] = c
  PROVE  LET b == build_parallel(c)
             D == DOMAIN b.new
         IN /\ D = {<<0, k>> : k \in Present(c)}
            /\ Holds(D, cs, b.ref, c, Present(c))
            /\ \A x \in D : /\ NodeIs(D, cs, x, b.new[x])
                            /\ IsNode(b.new[x])
                            /\ b.new[x].aug = SumOf(c, SubKeys(c, Key(x)))
<1> DEFINE P == Present(c)
           D == {<<0, k>> : k \in P}
           B(j, k) == {x \in P : (j <= x /\ x <= k) \/ (k <= x /\ x <= j)}
           Sub(k) == {j \in P : \A x \in B(j, k) : Hash[x] <= Hash[k]}
           N(t) == [val |-> c[Key(t)], aug |-> SumOf(c, Sub(Key(t))),
                    lch |-> Highest({j \in Sub(Key(t)) : j < Key(t)}),
                    rch |-> Highest({j \in Sub(Key(t)) : j > Key(t)})]
           b == build_parallel(c)
<1>1. b = [ref |-> Highest(P), new |-> [t \in D |-> N(t)]] BY Zenon DEF build_parallel, Present
<1>2. b.ref = Highest(P) /\ b.new = [t \in D |-> N(t)]
  <2> HIDE DEF b, P, D, N
  <2> QED BY <1>1
<1>3. \A k \in Keys : Sub(k) = SubKeys(c, k) BY DEF Present, SubKeys, Between
<1>4. Holds(D, cs, b.ref, c, P)
  <2>1. P = Inside(c, -1, Top) /\ Fenced(c, -1, Top) BY WholeVersion
  <2>2. \A k \in P : <<0, k>> \in D OBVIOUS
  <2> HIDE DEF P, D, b
  <2> QED BY <1>2, <2>1, <2>2, HighestHolds
<1>5. ASSUME NEW x \in D
      PROVE  NodeIs(D, cs, x, N(x)) /\ IsNode(N(x)) /\ N(x).aug = SumOf(c, SubKeys(c, Key(x)))
  <2>1. PICK k \in P : x = <<0, k>> OBVIOUS
  <2>2. Key(x) = k /\ Ver(x) = 0 /\ k \in Keys /\ c[k] > 0 BY <2>1 DEF Key, Ver, Present
  <2>3. PICK lo, hi : Fenced(c, lo, hi) /\ Leads(k, Inside(c, lo, hi)) BY <2>2, HasBounds
  <2>4. /\ SubKeys(c, k) = Inside(c, lo, hi)
        /\ Fenced(c, lo, k) /\ Fenced(c, k, hi)
        /\ {j \in Inside(c, lo, hi) : j < k} = Inside(c, lo, k)
        /\ {j \in Inside(c, lo, hi) : j > k} = Inside(c, k, hi)
    BY <2>3, SubIsInside, Children
  <2>5. \A j \in Inside(c, lo, k) \cup Inside(c, k, hi) : <<0, j>> \in D BY DEF Inside, Present
  <2>6. N(x).val = c[k] /\ N(x).lch = Highest(Inside(c, lo, k)) /\ N(x).rch = Highest(Inside(c, k, hi))
    <3>1. Sub(k) = Inside(c, lo, hi) BY <1>3, <2>2, <2>4
    <3> HIDE DEF Sub
    <3> QED BY <2>2, <2>4, <3>1
  <2>11. N(x).aug = SumOf(c, SubKeys(c, Key(x)))
    <3>1. Sub(Key(x)) = SubKeys(c, Key(x)) BY <1>3, <2>2
    <3> HIDE DEF Sub
    <3> QED BY <3>1
  <2> HIDE DEF D, P, Sub
  <2>7. Holds(D, cs, Highest(Inside(c, lo, k)), c, Inside(c, lo, k)) BY <2>4, <2>5, HighestHolds
  <2>8. Holds(D, cs, Highest(Inside(c, k, hi)), c, Inside(c, k, hi)) BY <2>4, <2>5, HighestHolds
  <2>9. IsNode(N(x)) BY DEF IsNode
  <2>10. NodeIs(D, cs, x, N(x))
    <3> HIDE DEF N
    <3> QED BY <2>2, <2>3, <2>6, <2>7, <2>8, NodeMade
  <2> QED BY <2>9, <2>10, <2>11
<1>6. DOMAIN b.new = D /\ \A x \in D : b.new[x] = N(x)
  <2> HIDE DEF b, D, N
  <2> QED BY <1>2
<1>7. DOMAIN b.new = {<<0, k>> : k \in Present(c)}
  <2> HIDE DEF b
  <2> QED BY <1>6
<1> HIDE DEF b, D, P, N, B, Sub
<1>8. \A x \in DOMAIN b.new : /\ NodeIs(DOMAIN b.new, cs, x, b.new[x]) /\ IsNode(b.new[x])
                              /\ b.new[x].aug = SumOf(c, SubKeys(c, Key(x)))
  BY <1>5, <1>6
<1>9. Holds(DOMAIN b.new, cs, b.ref, c, Present(c)) BY <1>4, <1>6 DEF P
<1> QED BY <1>7, <1>8, <1>9 DEF b
-----------------------------------------------------------------------------
(* Recursive functions with values in a set, and sums.                      *)
\* F computes a value at u from f, and only from f at lower ranks.
Recursive(S, V, R, N, F) ==
  /\ V # {} /\ R \in [S -> Nat] /\ N \in Nat /\ \A u \in S : R[u] < N
  /\ F \in [S \X [S -> V] -> V]
  /\ \A u \in S : \A f, g \in [S -> V] :
        (\A w \in S : R[w] < R[u] => f[w] = g[w]) => F[<<u, f>>] = F[<<u, g>>]
FixedPoint(S, V, F) == \E f \in [S -> V] : \A u \in S : f[u] = F[<<u, f>>]

\* Such a recursion has a function.
LEMMA Recursion ==
  ASSUME NEW S, NEW V, NEW R, NEW N, NEW F, Recursive(S, V, R, N, F) PROVE FixedPoint(S, V, F)
<1> USE DEF Recursive
<1> DEFINE T == {n \in Nat : \E f \in [S -> V] : \A u \in S : R[u] < n => f[u] = F[<<u, f>>]}
<1>1. 0 \in T
  <2>1. PICK v \in V : TRUE OBVIOUS
  <2>2. [u \in S |-> v] \in [S -> V] OBVIOUS
  <2>3. \A u \in S : ~(R[u] < 0) OBVIOUS
  <2> QED BY <2>2, <2>3
<1>2. ASSUME NEW n \in Nat, n \in T PROVE n + 1 \in T
  <2>1. PICK f \in [S -> V] : \A u \in S : R[u] < n => f[u] = F[<<u, f>>] BY <1>2
  <2> DEFINE g == [u \in S |-> IF R[u] < n THEN f[u] ELSE F[<<u, f>>]]
  <2>2. g \in [S -> V] OBVIOUS
  <2>3. \A w \in S : R[w] < n => f[w] = g[w] OBVIOUS
  <2>4. ASSUME NEW u \in S, R[u] < n + 1 PROVE g[u] = F[<<u, g>>]
    <3>1. \A w \in S : R[w] < R[u] => R[w] < n BY <2>4
    <3>2. F[<<u, f>>] = F[<<u, g>>]
      <4> HIDE DEF g
      <4> QED BY <2>2, <2>3, <3>1
    <3>3. g[u] = F[<<u, f>>] BY <2>1
    <3> HIDE DEF g
    <3> QED BY <3>2, <3>3
  <2> HIDE DEF g
  <2> QED BY <2>2, <2>4
<1> HIDE DEF T
<1>3. N \in T
  <2>1. \A n \in Nat : n \in T BY <1>1, <1>2, SetInduction
  <2> QED BY <2>1
<1> QED BY <1>3 DEF T, FixedPoint

\* One step of the sum over S.
SumCall(c, g, s) == IF s = {} THEN 0 ELSE LET x == CHOOSE k \in s : TRUE IN c[x] + g[s \ {x}]
SumFn(c, S) == CHOOSE g : g = [s \in SUBSET S |-> SumCall(c, g, s)]

\* Sets of keys have a size below a bound, which falls when one is taken out.
LEMMA KeySets ==
  /\ \A S \in SUBSET Keys : IsFiniteSet(S) /\ Cardinality(S) \in Nat /\ Cardinality(S) < Cardinality(Keys) + 1
  /\ Cardinality(Keys) + 1 \in Nat
  /\ \A S \in SUBSET Keys, x \in Keys : x \in S => Cardinality(S \ {x}) = Cardinality(S) - 1
<1>1. IsFiniteSet(Keys) /\ Cardinality(Keys) \in Nat BY KeysAssumption, FS_CardinalityType
<1>2. ASSUME NEW S \in SUBSET Keys
      PROVE IsFiniteSet(S) /\ Cardinality(S) \in Nat /\ Cardinality(S) < Cardinality(Keys) + 1
  <2>1. IsFiniteSet(S) /\ Cardinality(S) <= Cardinality(Keys) BY <1>1, FS_Subset
  <2>2. Cardinality(S) \in Nat BY <2>1, FS_CardinalityType
  <2> QED BY <1>1, <2>1, <2>2
<1>3. ASSUME NEW S \in SUBSET Keys, NEW x \in Keys, x \in S PROVE Cardinality(S \ {x}) = Cardinality(S) - 1
  BY <1>2, <1>3, FS_RemoveElement
<1> QED BY <1>1, <1>2, <1>3

\* The sum over S is what its step makes of the sums over smaller sets.
LEMMA SumReturns ==
  ASSUME NEW c \in Counts, NEW S \in SUBSET Keys
  PROVE  /\ SumOf(c, S) = SumFn(c, S)[S]
         /\ SumFn(c, S) \in [SUBSET S -> Nat]
         /\ \A s \in SUBSET S : SumFn(c, S)[s] = SumCall(c, SumFn(c, S), s)
<1> DEFINE P == SUBSET S
           R == [s \in P |-> Cardinality(s)]
           F == [a \in P \X [P -> Nat] |-> SumCall(c, a[2], a[1])]
<1>1. R \in [P -> Nat] /\ \A s \in P : R[s] < Cardinality(Keys) + 1
  <2>1. \A s \in P : s \in SUBSET Keys OBVIOUS
  <2> QED BY <2>1, KeySets
<1>2. ASSUME NEW s \in P, s # {} PROVE LET x == CHOOSE k \in s : TRUE IN x \in Keys /\ s \ {x} \in P /\ c[x] \in Nat /\ R[s \ {x}] < R[s]
  <2> DEFINE x == CHOOSE k \in s : TRUE
  <2>1. x \in s BY <1>2
  <2> HIDE DEF x
  <2>2. x \in Keys /\ s \in SUBSET Keys /\ s \ {x} \in P BY <2>1
  <2>3. Cardinality(s \ {x}) = Cardinality(s) - 1 /\ Cardinality(s) \in Nat BY <2>1, <2>2, KeySets
  <2>4. c[x] \in Nat BY <2>2 DEF Counts
  <2> QED BY <2>2, <2>3, <2>4 DEF x
<1>3. F \in [P \X [P -> Nat] -> Nat]
  <2> SUFFICES ASSUME NEW s \in P, NEW f \in [P -> Nat] PROVE SumCall(c, f, s) \in Nat OBVIOUS
  <2> HIDE DEF P, R, F
  <2> QED BY <1>2 DEF SumCall
<1>4. \A s \in P : \A f, g \in [P -> Nat] : (\A w \in P : R[w] < R[s] => f[w] = g[w]) => F[<<s, f>>] = F[<<s, g>>]
  <2> SUFFICES ASSUME NEW s \in P, NEW f \in [P -> Nat], NEW g \in [P -> Nat], \A w \in P : R[w] < R[s] => f[w] = g[w]
               PROVE  SumCall(c, f, s) = SumCall(c, g, s)
    OBVIOUS
  <2>1. CASE s = {} BY <2>1 DEF SumCall
  <2>2. CASE s # {}
    <3> DEFINE x == CHOOSE k \in s : TRUE
    <3> HIDE DEF P, R, F
    <3>1. s \ {x} \in P /\ R[s \ {x}] < R[s] BY <1>2, <2>2
    <3>2. f[s \ {x}] = g[s \ {x}] BY <3>1
    <3> QED BY <2>2, <3>2 DEF SumCall
  <2> QED BY <2>1, <2>2
<1>5. PICK f \in [P -> Nat] : \A s \in P : f[s] = F[<<s, f>>]
  <2>1. PICK N \in Nat : N = Cardinality(Keys) + 1 BY KeySets
  <2>2. \A s \in P : R[s] < N BY <1>1, <2>1
  <2>3. Nat # {} OBVIOUS
  <2> HIDE DEF P, R, F
  <2>4. R \in [P -> Nat] BY <1>1
  <2>5. Recursive(P, Nat, R, N, F) BY <1>3, <1>4, <2>2, <2>3, <2>4, Zenon DEF Recursive
  <2> QED BY <2>5, Recursion DEF FixedPoint
<1>6. f = [s \in P |-> SumCall(c, f, s)]
  <2>1. \A s \in P : F[<<s, f>>] = SumCall(c, f, s) OBVIOUS
  <2> HIDE DEF P, F
  <2> QED BY <1>5, <2>1
<1> HIDE DEF P, R, F
<1>7. SumFn(c, S) = [s \in P |-> SumCall(c, SumFn(c, S), s)] BY <1>6 DEF SumFn, P
<1>8. SumFn(c, S) \in [P -> Nat]
  <2> DEFINE g == SumFn(c, S)
  <2>1. g = [s \in P |-> SumCall(c, g, s)] BY <1>7
  <2> DEFINE T == {n \in Nat : \A s \in P : R[s] < n => g[s] \in Nat}
  <2> HIDE DEF g
  <2>2. 0 \in T BY <1>1
  <2>3. ASSUME NEW n \in Nat, n \in T PROVE n + 1 \in T
    <3> SUFFICES ASSUME NEW s \in P, R[s] < n + 1 PROVE g[s] \in Nat OBVIOUS
    <3>1. CASE s = {} BY <2>1, <3>1 DEF SumCall
    <3>2. CASE s # {}
      <4> DEFINE x == CHOOSE k \in s : TRUE
      <4>1. s \ {x} \in P /\ c[x] \in Nat /\ R[s \ {x}] < R[s] BY <1>2, <3>2
      <4>2. R[s \ {x}] < n BY <1>1, <4>1
      <4>3. g[s \ {x}] \in Nat BY <2>3, <4>1, <4>2
      <4>4. g[s] = c[x] + g[s \ {x}] BY <2>1, <3>2 DEF SumCall
      <4> HIDE DEF x
      <4> QED BY <4>1, <4>3, <4>4
    <3> QED BY <3>1, <3>2
  <2> HIDE DEF T
  <2>4. \A n \in Nat : n \in T BY <2>2, <2>3, SetInduction
  <2>5. \A s \in P : g[s] \in Nat
    <3>1. Cardinality(Keys) + 1 \in T BY <2>4, KeySets
    <3> QED BY <1>1, <3>1 DEF T
  <2> QED BY <2>1, <2>5 DEF g
<1>9. SumOf(c, S) = SumFn(c, S)[S] BY DEF SumOf, MapThenSumSet, MapThenFoldSet, SumFn, SumCall
<1> QED BY <1>7, <1>8, <1>9 DEF P

\* Induction on sets of keys.
LEMMA KeySetInduction ==
  ASSUME NEW T, {} \in T, \A S \in SUBSET Keys : (\A x \in S : S \ {x} \in T) => S \in T
  PROVE  \A S \in SUBSET Keys : S \in T
<1> DEFINE U == {n \in Nat : \A S \in SUBSET Keys : Cardinality(S) < n => S \in T}
<1>1. 0 \in U BY KeySets
<1>2. ASSUME NEW n \in Nat, n \in U PROVE n + 1 \in U
  <2> SUFFICES ASSUME NEW S \in SUBSET Keys, Cardinality(S) < n + 1 PROVE S \in T OBVIOUS
  <2>1. ASSUME NEW x \in S PROVE S \ {x} \in T
    <3>1. x \in Keys /\ S \ {x} \in SUBSET Keys OBVIOUS
    <3>2. Cardinality(S \ {x}) = Cardinality(S) - 1 /\ Cardinality(S) \in Nat BY <3>1, KeySets
    <3>3. Cardinality(S \ {x}) < n BY <3>2
    <3> QED BY <1>2, <3>1, <3>3
  <2> QED BY <2>1
<1>3. \A n \in Nat : n \in U
  <2> HIDE DEF U
  <2> QED BY <1>1, <1>2, SetInduction
<1>4. Cardinality(Keys) + 1 \in U BY <1>3, KeySets
<1> QED BY <1>4, KeySets

\* A sum does not depend on the order in which it is taken.
LEMMA SumTake ==
  ASSUME NEW c \in Counts
  PROVE  /\ SumOf(c, {}) = 0
         /\ \A S \in SUBSET Keys : SumOf(c, S) \in Nat
         /\ \A S \in SUBSET Keys : \A x \in S : SumOf(c, S) = c[x] + SumOf(c, S \ {x})
<1> DEFINE g == SumFn(c, Keys)
<1>1. /\ g \in [SUBSET Keys -> Nat] /\ g[{}] = 0
      /\ \A s \in SUBSET Keys : s # {} => g[s] = c[CHOOSE k \in s : TRUE] + g[s \ {CHOOSE k \in s : TRUE}]
  <2>1. g \in [SUBSET Keys -> Nat] /\ \A s \in SUBSET Keys : g[s] = SumCall(c, g, s) BY SumReturns
  <2> HIDE DEF g
  <2> QED BY <2>1 DEF SumCall
<1>2. \A S \in SUBSET Keys : SumOf(c, S) = g[S]
  <2> SUFFICES ASSUME NEW S \in SUBSET Keys PROVE SumOf(c, S) = g[S] OBVIOUS
  <2> DEFINE f == SumFn(c, S)  T == {s \in SUBSET Keys : s \subseteq S => f[s] = g[s]}
  <2>1. SumOf(c, S) = f[S] /\ \A s \in SUBSET S : f[s] = SumCall(c, f, s) BY SumReturns
  <2> HIDE DEF f, g
  <2>2. {} \in T BY <1>1, <2>1 DEF SumCall
  <2>3. ASSUME NEW s \in SUBSET Keys, \A x \in s : s \ {x} \in T PROVE s \in T
    <3> SUFFICES ASSUME s \subseteq S, s # {} PROVE f[s] = g[s] BY <2>2
    <3> DEFINE x == CHOOSE k \in s : TRUE
    <3>1. x \in s OBVIOUS
    <3>2. f[s] = c[x] + f[s \ {x}] BY <2>1 DEF SumCall
    <3>3. g[s] = c[x] + g[s \ {x}] BY <1>1
    <3> HIDE DEF x
    <3>4. f[s \ {x}] = g[s \ {x}] BY <2>3, <3>1
    <3> QED BY <3>2, <3>3, <3>4
  <2> HIDE DEF T
  <2>4. S \in T BY <2>2, <2>3, KeySetInduction
  <2> QED BY <2>1, <2>4 DEF T
<1> HIDE DEF g
<1> DEFINE T == {S \in SUBSET Keys : \A x \in S : g[S] = c[x] + g[S \ {x}]}
<1>3. {} \in T OBVIOUS
<1>4. ASSUME NEW S \in SUBSET Keys, \A x \in S : S \ {x} \in T PROVE S \in T
  <2> SUFFICES ASSUME NEW x \in S PROVE g[S] = c[x] + g[S \ {x}] OBVIOUS
  <2>1. PICK y \in S : g[S] = c[y] + g[S \ {y}]
    <3> DEFINE y == CHOOSE k \in S : TRUE
    <3>1. y \in S OBVIOUS
    <3>2. g[S] = c[y] + g[S \ {y}] BY <1>1
    <3> HIDE DEF y
    <3> QED BY <3>1, <3>2
  <2>2. CASE y = x BY <2>1, <2>2
  <2>3. CASE y # x
    <3> DEFINE B == (S \ {x}) \ {y}
    <3>1. (S \ {y}) \ {x} = B /\ x \in S \ {y} /\ y \in S \ {x} BY <2>3
    <3>2. S \ {x} \in T /\ S \ {y} \in T BY <1>4
    <3>3. g[S \ {y}] = c[x] + g[B]
      <4>1. g[S \ {y}] = c[x] + g[(S \ {y}) \ {x}] BY <3>1, <3>2
      <4> QED BY <3>1, <4>1
    <3>4. g[S \ {x}] = c[y] + g[B] BY <3>1, <3>2
    <3>5. g[B] \in Nat /\ c[x] \in Nat /\ c[y] \in Nat
      <4>1. B \in SUBSET Keys /\ x \in Keys /\ y \in Keys OBVIOUS
      <4> HIDE DEF B
      <4> QED BY <1>1, <4>1 DEF Counts
    <3> HIDE DEF B, T
    <3> QED BY <2>1, <3>3, <3>4, <3>5
  <2> QED BY <2>2, <2>3
<1>5. \A S \in SUBSET Keys : S \in T
  <2> HIDE DEF T
  <2> QED BY <1>3, <1>4, KeySetInduction
<1>6. SumOf(c, {}) = 0 BY <1>1, <1>2
<1>7. ASSUME NEW S \in SUBSET Keys PROVE SumOf(c, S) \in Nat /\ \A x \in S : SumOf(c, S) = c[x] + SumOf(c, S \ {x})
  <2>1. SumOf(c, S) = g[S] /\ \A x \in S : SumOf(c, S \ {x}) = g[S \ {x}] BY <1>2
  <2>2. \A x \in S : g[S] = c[x] + g[S \ {x}] BY <1>5
  <2> HIDE DEF T
  <2> QED BY <1>1, <2>1, <2>2
<1> QED BY <1>6, <1>7

\* The sum over two disjoint sets.
LEMMA SumParts ==
  ASSUME NEW c \in Counts, NEW A \in SUBSET Keys, NEW B \in SUBSET Keys, A \cap B = {}
  PROVE  SumOf(c, A \cup B) = SumOf(c, A) + SumOf(c, B)
<1> DEFINE T == {S \in SUBSET Keys : S \cap B = {} => SumOf(c, S \cup B) = SumOf(c, S) + SumOf(c, B)}
<1>0. \A S \in SUBSET Keys : SumOf(c, S) \in Nat BY SumTake
<1>1. {} \in T
  <2>1. SumOf(c, {}) = 0 /\ {} \cup B = B BY SumTake
  <2> QED BY <1>0, <2>1
<1>2. ASSUME NEW S \in SUBSET Keys, \A x \in S : S \ {x} \in T PROVE S \in T
  <2> SUFFICES ASSUME S # {}, S \cap B = {} PROVE SumOf(c, S \cup B) = SumOf(c, S) + SumOf(c, B) BY <1>1
  <2>1. PICK x \in S : TRUE OBVIOUS
  <2>2. SumOf(c, S) = c[x] + SumOf(c, S \ {x}) BY SumTake
  <2>3. SumOf(c, S \cup B) = c[x] + SumOf(c, (S \cup B) \ {x}) BY SumTake
  <2>4. (S \cup B) \ {x} = (S \ {x}) \cup B BY <2>1
  <2>5. SumOf(c, (S \ {x}) \cup B) = SumOf(c, S \ {x}) + SumOf(c, B) BY <1>2, <2>1
  <2>6. c[x] \in Nat /\ SumOf(c, S \ {x}) \in Nat /\ SumOf(c, B) \in Nat BY <1>0, <2>1 DEF Counts
  <2> QED BY <2>2, <2>3, <2>4, <2>5, <2>6
<1>3. A \in T
  <2> HIDE DEF T
  <2> QED BY <1>1, <1>2, KeySetInduction
<1> QED BY <1>3

\* A sum depends on the counters of its keys only.
LEMMA SumSame ==
  ASSUME NEW c \in Counts, NEW d \in Counts, NEW A \in SUBSET Keys, \A k \in A : c[k] = d[k]
  PROVE  SumOf(c, A) = SumOf(d, A)
<1> DEFINE T == {S \in SUBSET Keys : S \subseteq A => SumOf(c, S) = SumOf(d, S)}
<1>1. {} \in T BY SumTake
<1>2. ASSUME NEW S \in SUBSET Keys, \A x \in S : S \ {x} \in T PROVE S \in T
  <2> SUFFICES ASSUME S # {}, S \subseteq A PROVE SumOf(c, S) = SumOf(d, S) BY <1>1
  <2>1. PICK x \in S : TRUE OBVIOUS
  <2>2. SumOf(c, S) = c[x] + SumOf(c, S \ {x}) /\ SumOf(d, S) = d[x] + SumOf(d, S \ {x}) BY SumTake
  <2>3. SumOf(c, S \ {x}) = SumOf(d, S \ {x}) /\ c[x] = d[x] BY <1>2, <2>1
  <2> QED BY <2>2, <2>3
<1>3. A \in T
  <2> HIDE DEF T
  <2> QED BY <1>1, <1>2, KeySetInduction
<1> QED BY <1>3

\* A sum of counters that are 0.
LEMMA SumZero ==
  ASSUME NEW c \in Counts, NEW A \in SUBSET Keys, \A k \in A : c[k] = 0 PROVE SumOf(c, A) = 0
<1> DEFINE T == {S \in SUBSET Keys : S \subseteq A => SumOf(c, S) = 0}
<1>1. {} \in T BY SumTake
<1>2. ASSUME NEW S \in SUBSET Keys, \A x \in S : S \ {x} \in T PROVE S \in T
  <2> SUFFICES ASSUME S # {}, S \subseteq A PROVE SumOf(c, S) = 0 BY <1>1
  <2>1. PICK x \in S : TRUE OBVIOUS
  <2>2. SumOf(c, S) = c[x] + SumOf(c, S \ {x}) BY SumTake
  <2>3. SumOf(c, S \ {x}) = 0 /\ c[x] = 0 BY <1>2, <2>1
  <2> QED BY <2>2, <2>3
<1>3. A \in T
  <2> HIDE DEF T
  <2> QED BY <1>1, <1>2, KeySetInduction
<1> QED BY <1>3

-----------------------------------------------------------------------------
(* The cached sums. *)
\* A function on trees exists when its value at a node depends on the children only.
OnTrees(h, V, F) ==
  /\ V # {} /\ F \in [Pointers(h) \X [Pointers(h) -> V] -> V]
  /\ \A t \in Pointers(h) : \A f, g \in [Pointers(h) -> V] :
        (t # nullptr => f[h[t].lch] = g[h[t].lch] /\ f[h[t].rch] = g[h[t].rch]) => F[<<t, f>>] = F[<<t, g>>]

\* A recursion over the children has a function.
LEMMA TreeRecursion ==
  ASSUME NEW h, HeapOrdered(h), NEW V, NEW F, OnTrees(h, V, F)
  PROVE  FixedPoint(Pointers(h), V, F)
<1> DEFINE S == Pointers(h)  R == [t \in S |-> Rank(t)]
<1>1. R \in [S -> Nat] /\ \A t \in S : R[t] = Rank(t) BY Ranks
<1>2. PICK N \in Nat : \A t \in S : R[t] < N BY <1>1, Ranks
<1>3. \A t \in S : t # nullptr => h[t].lch \in S /\ h[t].rch \in S /\ R[h[t].lch] < R[t] /\ R[h[t].rch] < R[t]
  <2>1. \A t \in S : t # nullptr => /\ h[t].lch \in S /\ h[t].rch \in S
                                    /\ Rank(h[t].lch) < Rank(t) /\ Rank(h[t].rch) < Rank(t)
    BY Ranks DEF Pointers
  <2> HIDE DEF S, R
  <2> QED BY <1>1, <2>1
<1> HIDE DEF S, R
<1>4. /\ V # {} /\ F \in [S \X [S -> V] -> V]
      /\ \A t \in S : \A f, g \in [S -> V] :
           (t # nullptr => f[h[t].lch] = g[h[t].lch] /\ f[h[t].rch] = g[h[t].rch]) => F[<<t, f>>] = F[<<t, g>>]
  BY Zenon DEF OnTrees, S
<1>5. \A t \in S : \A f, g \in [S -> V] : (\A w \in S : R[w] < R[t] => f[w] = g[w]) => F[<<t, f>>] = F[<<t, g>>]
  <2> SUFFICES ASSUME NEW t \in S, NEW f \in [S -> V], NEW g \in [S -> V], \A w \in S : R[w] < R[t] => f[w] = g[w]
               PROVE  F[<<t, f>>] = F[<<t, g>>]
    OBVIOUS
  <2>1. t # nullptr => f[h[t].lch] = g[h[t].lch] /\ f[h[t].rch] = g[h[t].rch] BY <1>3
  <2> QED BY <1>4, <2>1
<1>6. Recursive(S, V, R, N, F) BY <1>1, <1>2, <1>4, <1>5, Zenon DEF Recursive
<1> QED BY <1>6, Recursion DEF S

\* The values and the sums of nodes are counters.
Valued(h) == \A x \in DOMAIN h : IsNode(h[x]) /\ h[x].val \in Nat /\ h[x].aug \in Nat

\* One call of each of the two recursions of augment.
AugCall(h, f, t) ==
  IF t = nullptr THEN 0
  ELSE IF h[t].aug # aug_uninitialized THEN h[t].aug
  ELSE f[h[t].lch] + h[t].val + f[h[t].rch]
AugFn(h) == CHOOSE f : f = [t \in Pointers(h) |-> AugCall(h, f, t)]
VisitCall(h, f, t) ==
  IF t = nullptr \/ h[t].aug # aug_uninitialized THEN {}
  ELSE {t} \cup f[h[t].lch] \cup f[h[t].rch]
VisitFn(h) == CHOOSE f : f = [t \in Pointers(h) |-> VisitCall(h, f, t)]

\* augment stores what its two recursions compute.
LEMMA AugmentReturns ==
  ASSUME NEW h, HeapOrdered(h), Valued(h), NEW tree
  PROVE  /\ augment(h, tree) = [t \in DOMAIN h |-> IF t \in VisitFn(h)[tree] THEN [h[t] EXCEPT !.aug = AugFn(h)[t]] ELSE h[t]]
         /\ \A t \in Pointers(h) : AugFn(h)[t] = AugCall(h, AugFn(h), t)
         /\ \A t \in Pointers(h) : VisitFn(h)[t] = VisitCall(h, VisitFn(h), t)
<1> DEFINE S == Pointers(h)  V == SUBSET DOMAIN h
           F == [a \in S \X [S -> Nat] |-> AugCall(h, a[2], a[1])]
           G == [a \in S \X [S -> V] |-> VisitCall(h, a[2], a[1])]
<1>1. \A t \in S : t # nullptr => t \in DOMAIN h /\ h[t].lch \in S /\ h[t].rch \in S BY Ranks DEF Pointers
<1>2. OnTrees(h, Nat, F)
  <2>1. ASSUME NEW t \in S, NEW f \in [S -> Nat] PROVE AugCall(h, f, t) \in Nat
    <3> HIDE DEF S
    <3> QED BY <1>1 DEF AugCall, Valued
  <2>2. F \in [S \X [S -> Nat] -> Nat] BY <2>1
  <2>3. ASSUME NEW t \in S, NEW f \in [S -> Nat], NEW g \in [S -> Nat],
               t # nullptr => f[h[t].lch] = g[h[t].lch] /\ f[h[t].rch] = g[h[t].rch]
        PROVE  F[<<t, f>>] = F[<<t, g>>]
    BY <2>3 DEF AugCall
  <2> HIDE DEF F
  <2> QED BY <2>2, <2>3 DEF OnTrees
<1>3. OnTrees(h, V, G)
  <2>1. ASSUME NEW t \in S, NEW f \in [S -> V] PROVE VisitCall(h, f, t) \in V
    <3> HIDE DEF S
    <3> QED BY <1>1 DEF VisitCall
  <2>2. G \in [S \X [S -> V] -> V]
    <3> HIDE DEF V
    <3> QED BY <2>1
  <2>3. ASSUME NEW t \in S, NEW f \in [S -> V], NEW g \in [S -> V],
               t # nullptr => f[h[t].lch] = g[h[t].lch] /\ f[h[t].rch] = g[h[t].rch]
        PROVE  G[<<t, f>>] = G[<<t, g>>]
    BY <2>3 DEF VisitCall
  <2>4. V # {} OBVIOUS
  <2> HIDE DEF G, V
  <2> QED BY <2>2, <2>3, <2>4 DEF OnTrees
<1>4. AugFn(h) = [t \in Pointers(h) |-> AugCall(h, AugFn(h), t)]
  <2>1. FixedPoint(S, Nat, F)
    <3> HIDE DEF F
    <3> QED BY <1>2, TreeRecursion
  <2>2. PICK f \in [S -> Nat] : \A t \in S : f[t] = F[<<t, f>>]
    <3> HIDE DEF F, S
    <3> QED BY <2>1 DEF FixedPoint
  <2>3. \A t \in S : f[t] = AugCall(h, f, t)
    <3> HIDE DEF S
    <3> QED BY <2>2
  <2>4. f = [t \in S |-> AugCall(h, f, t)]
    <3> HIDE DEF S, F
    <3> QED BY <2>2, <2>3
  <2> HIDE DEF F
  <2> QED BY <2>4 DEF AugFn
<1>5. VisitFn(h) = [t \in Pointers(h) |-> VisitCall(h, VisitFn(h), t)]
  <2>1. FixedPoint(S, V, G)
    <3> HIDE DEF G, V
    <3> QED BY <1>3, TreeRecursion
  <2>2. PICK f \in [S -> V] : \A t \in S : f[t] = G[<<t, f>>]
    <3> HIDE DEF G, S, V
    <3> QED BY <2>1 DEF FixedPoint
  <2>3. \A t \in S : f[t] = VisitCall(h, f, t)
    <3> HIDE DEF S, V
    <3> QED BY <2>2
  <2>4. f = [t \in S |-> VisitCall(h, f, t)]
    <3> HIDE DEF S, G
    <3> QED BY <2>2, <2>3
  <2> HIDE DEF G
  <2> QED BY <2>4 DEF VisitFn
<1>6. augment(h, tree) = [t \in DOMAIN h |-> IF t \in VisitFn(h)[tree] THEN [h[t] EXCEPT !.aug = AugFn(h)[t]] ELSE h[t]]
  BY DEF augment, AugFn, AugCall, VisitFn, VisitCall
<1> HIDE DEF S, V, F, G
<1> QED BY <1>4, <1>5, <1>6

\* The sum below a pointer.
SumBelow(cs, p) == IF p = nullptr THEN 0 ELSE SumOf(cs[Ver(p)], SubKeys(cs[Ver(p)], Key(p)))

\* What a stored sum below x is, and that there is one.
HasSum(h, p) == p = nullptr \/ (p \in DOMAIN h /\ h[p].aug # aug_uninitialized)
SumRight(h, cs, x) ==
  h[x].aug # aug_uninitialized => h[x].aug = SumBelow(cs, x) /\ HasSum(h, h[x].lch) /\ HasSum(h, h[x].rch)

\* The sum of a held subtree.
LEMMA HeldSum ==
  ASSUME NEW D, NEW cs, nullptr \notin D, \A x \in D : cs[Ver(x)] \in Counts,
         NEW p, NEW c \in Counts, NEW S \in SUBSET Keys, Holds(D, cs, p, c, S)
  PROVE  SumBelow(cs, p) = SumOf(c, S)
<1>1. CASE S = {} BY <1>1, SumTake DEF Holds, SumBelow
<1>2. CASE S # {}
  <2>1. p \in D /\ SubKeys(cs[Ver(p)], Key(p)) = S /\ \A j \in S : cs[Ver(p)][j] = c[j] BY <1>2 DEF Holds
  <2>2. p # nullptr /\ cs[Ver(p)] \in Counts BY <2>1
  <2>3. SumOf(cs[Ver(p)], S) = SumOf(c, S) BY <2>1, <2>2, SumSame
  <2> QED BY <2>1, <2>2, <2>3 DEF SumBelow
<1> QED BY <1>1, <1>2

\* The sum below a node is that of its children and its own counter.
LEMMA NodeSum ==
  ASSUME NEW D, NEW cs, nullptr \notin D, \A y \in D : cs[Ver(y)] \in Counts,
         NEW x \in D, Key(x) \in Keys, NEW n, NodeIs(D, cs, x, n)
  PROVE  /\ SumBelow(cs, x) = SumBelow(cs, n.lch) + n.val + SumBelow(cs, n.rch)
         /\ SumBelow(cs, x) \in Nat /\ SumBelow(cs, x) > 0
<1> DEFINE c == cs[Ver(x)]  k == Key(x)  S == SubKeys(c, k)  A == {j \in S : j < k}  B == {j \in S : j > k}
<1>1. c \in Counts /\ n.val = c[k] /\ n.val > 0 /\ Holds(D, cs, n.lch, c, A) /\ Holds(D, cs, n.rch, c, B)
  BY DEF NodeIs
<1>2. S \in SUBSET Keys BY DEF SubKeys
<1>3. k \in S
  <2>1. \A y \in Between(k, k) : y = k /\ Hash[y] <= Hash[k] BY KeyFacts DEF Between
  <2>2. c[k] > 0 BY <1>1
  <2> QED BY <2>1, <2>2 DEF SubKeys
<1> HIDE DEF S
<1>4. A \in SUBSET Keys /\ B \in SUBSET Keys /\ A \cap B = {} /\ S \ {k} = A \cup B
  <2>1. \A j \in S : j \in Nat /\ k \in Nat BY <1>2, KeyFacts
  <2> QED BY <1>2, <1>3, <2>1
<1>5. SumOf(c, S) = c[k] + SumOf(c, S \ {k}) BY <1>1, <1>2, <1>3, SumTake
<1> HIDE DEF A, B
<1>6. SumOf(c, A \cup B) = SumOf(c, A) + SumOf(c, B) BY <1>1, <1>4, SumParts
<1>7. SumOf(c, A) \in Nat /\ SumOf(c, B) \in Nat /\ c[k] \in Nat BY <1>1, <1>4, SumTake DEF Counts
<1>8. SumBelow(cs, n.lch) = SumOf(c, A) /\ SumBelow(cs, n.rch) = SumOf(c, B) BY <1>1, <1>4, HeldSum
<1>9. SumBelow(cs, x) = SumOf(c, S) BY DEF SumBelow, S
<1>10. SumOf(c, S) = n.val + (SumOf(c, A) + SumOf(c, B)) /\ n.val \in Nat /\ n.val > 0
  BY <1>1, <1>4, <1>5, <1>6, <1>7
<1>11. PICK a \in Nat, b \in Nat, v \in Nat : a = SumOf(c, A) /\ b = SumOf(c, B) /\ v = n.val
  <2>1. n.val \in Nat BY <1>10
  <2> HIDE DEF c, k
  <2> QED BY <2>1, <1>7
<1>12. SumBelow(cs, x) = v + (a + b) /\ SumBelow(cs, n.lch) = a /\ SumBelow(cs, n.rch) = b /\ v > 0
  BY <1>8, <1>9, <1>10, <1>11
<1> QED BY <1>11, <1>12

\* A tree of finished nodes whose stored sums are right.
Summable(h, D, cs) ==
  /\ Finished(h, D, cs) /\ Valued(h)
  /\ \A x \in D : cs[Ver(x)] \in Counts /\ SumRight(h, cs, x)

\* A node and its children.
LEMMA SummableNode ==
  ASSUME NEW h, NEW D, NEW cs, Summable(h, D, cs), NEW x \in D
  PROVE  /\ nullptr \notin D /\ x \in DOMAIN h /\ x # nullptr /\ Key(x) \in Keys /\ NodeIs(D, cs, x, h[x])
         /\ h[x].lch \in D \cup {nullptr} /\ h[x].rch \in D \cup {nullptr}
         /\ Rank(h[x].lch) < Rank(x) /\ Rank(h[x].rch) < Rank(x)
         /\ SumBelow(cs, x) = SumBelow(cs, h[x].lch) + h[x].val + SumBelow(cs, h[x].rch)
         /\ SumBelow(cs, x) \in Nat /\ SumBelow(cs, x) > 0
<1>1. HeapOrdered(h) /\ D \subseteq DOMAIN h /\ NodeIs(D, cs, x, h[x]) BY DEF Summable, Finished
<1>2. nullptr \notin D /\ x # nullptr /\ Key(x) \in Keys /\ Rank(h[x].lch) < Rank(x) /\ Rank(h[x].rch) < Rank(x)
  BY <1>1, Ranks
<1>3. h[x].lch \in D \cup {nullptr} /\ h[x].rch \in D \cup {nullptr} BY <1>1 DEF NodeIs, Holds
<1>4. \A y \in D : cs[Ver(y)] \in Counts BY DEF Summable
<1> QED BY <1>1, <1>2, <1>3, <1>4, NodeSum

\* Induction on the trees of such nodes.
LEMMA TreeInduction ==
  ASSUME NEW h, NEW D, NEW cs, Summable(h, D, cs), NEW T, nullptr \in T,
         \A x \in D : h[x].lch \in T /\ h[x].rch \in T => x \in T
  PROVE  D \subseteq T
<1> DEFINE U == {n \in Nat : \A x \in D \cup {nullptr} : Rank(x) < n => x \in T}
<1>1. HeapOrdered(h) /\ D \subseteq DOMAIN h BY DEF Summable, Finished
<1>2. \A x \in D \cup {nullptr} : x \in Pointers(h) /\ Rank(x) \in Nat BY <1>1, Ranks DEF Pointers
<1>3. 0 \in U BY <1>2
<1>4. ASSUME NEW n \in Nat, n \in U PROVE n + 1 \in U
  <2> SUFFICES ASSUME NEW x \in D, Rank(x) < n + 1 PROVE x \in T OBVIOUS
  <2>1. /\ h[x].lch \in D \cup {nullptr} /\ h[x].rch \in D \cup {nullptr}
        /\ Rank(h[x].lch) < Rank(x) /\ Rank(h[x].rch) < Rank(x)
    BY SummableNode
  <2>2. Rank(h[x].lch) < n /\ Rank(h[x].rch) < n BY <1>2, <2>1
  <2>3. h[x].lch \in T /\ h[x].rch \in T BY <1>4, <2>1, <2>2
  <2> QED BY <2>3
<1>5. PICK N \in Nat : \A x \in Pointers(h) : Rank(x) < N BY <1>1, Ranks
<1>6. N \in U
  <2> HIDE DEF U
  <2>1. \A n \in Nat : n \in U BY <1>3, <1>4, SetInduction
  <2> QED BY <2>1
<1> QED BY <1>2, <1>5, <1>6

\* augment of a tree of finished nodes gives it its sum, and keeps the sums that are there.
THEOREM AugmentSpec ==
  ASSUME NEW h, NEW D, NEW cs, Summable(h, D, cs), NEW tree \in D \cup {nullptr}
  PROVE  LET g == augment(h, tree)
         IN /\ DOMAIN g = DOMAIN h /\ HasSum(g, tree)
            /\ \A x \in DOMAIN h : /\ x \notin D \/ h[x].aug # aug_uninitialized => g[x] = h[x]
                                   /\ g[x] = [h[x] EXCEPT !.aug = g[x].aug] /\ g[x].aug \in Nat
            /\ \A x \in D : SumRight(g, cs, x)
<1> DEFINE g == augment(h, tree)  sum == AugFn(h)  vis == VisitFn(h)
<1>0. HeapOrdered(h) /\ Valued(h) /\ D \subseteq DOMAIN h /\ (\A x \in D : SumRight(h, cs, x)) BY DEF Summable, Finished
<1>1. /\ g = [t \in DOMAIN h |-> IF t \in vis[tree] THEN [h[t] EXCEPT !.aug = sum[t]] ELSE h[t]]
      /\ \A t \in Pointers(h) : sum[t] = AugCall(h, sum, t)
      /\ \A t \in Pointers(h) : vis[t] = VisitCall(h, vis, t)
  BY <1>0, AugmentReturns
<1> HIDE DEF g, sum, vis
<1>2. \A x \in D : sum[x] = SumBelow(cs, x)
  <2> DEFINE T == {x \in D \cup {nullptr} : sum[x] = SumBelow(cs, x)}
  <2>1. nullptr \in T BY <1>1 DEF AugCall, SumBelow, Pointers
  <2>2. ASSUME NEW x \in D, h[x].lch \in T, h[x].rch \in T PROVE x \in T
    <3>1. x \in Pointers(h) /\ x # nullptr BY <1>0, SummableNode DEF Pointers
    <3>2. CASE h[x].aug # aug_uninitialized BY <1>0, <1>1, <3>1, <3>2 DEF AugCall, SumRight
    <3>3. CASE h[x].aug = aug_uninitialized
      <4>1. sum[x] = sum[h[x].lch] + h[x].val + sum[h[x].rch] BY <1>1, <3>1, <3>3 DEF AugCall
      <4>2. sum[h[x].lch] = SumBelow(cs, h[x].lch) /\ sum[h[x].rch] = SumBelow(cs, h[x].rch) BY <2>2
      <4>3. SumBelow(cs, x) = SumBelow(cs, h[x].lch) + h[x].val + SumBelow(cs, h[x].rch) BY SummableNode
      <4> QED BY <4>1, <4>2, <4>3
    <3> QED BY <3>2, <3>3
  <2> HIDE DEF T
  <2>3. D \subseteq T BY <2>1, <2>2, TreeInduction
  <2> QED BY <2>3 DEF T
\* What augment visits has no sum, and what lies below it has one or is visited.
<1> DEFINE Open(W, p) == p = nullptr \/ h[p].aug # aug_uninitialized \/ p \in W
           Sound(W) == W \subseteq D /\ \A x \in W : h[x].aug = aug_uninitialized /\ Open(W, h[x].lch) /\ Open(W, h[x].rch)
<1>3. \A x \in D \cup {nullptr} : Sound(vis[x]) /\ Open(vis[x], x)
  <2> DEFINE T == {x \in D \cup {nullptr} : Sound(vis[x]) /\ Open(vis[x], x)}
  <2>1. nullptr \in T
    <3>1. vis[nullptr] = {} BY <1>1 DEF VisitCall, Pointers
    <3> QED BY <3>1
  <2>2. ASSUME NEW x \in D, h[x].lch \in T, h[x].rch \in T PROVE x \in T
    <3>1. x \in Pointers(h) /\ x # nullptr BY <1>0, SummableNode DEF Pointers
    <3>2. CASE h[x].aug # aug_uninitialized
      <4>1. vis[x] = {} BY <1>1, <3>1, <3>2 DEF VisitCall
      <4> QED BY <3>2, <4>1
    <3>3. CASE h[x].aug = aug_uninitialized
      <4> DEFINE A == vis[h[x].lch]  B == vis[h[x].rch]
      <4>1. vis[x] = {x} \cup A \cup B BY <1>1, <3>1, <3>3 DEF VisitCall
      <4>2. Sound(A) /\ Sound(B) /\ Open(A, h[x].lch) /\ Open(B, h[x].rch) BY <2>2
      <4> HIDE DEF A, B
      <4>3. Sound(vis[x]) /\ Open(vis[x], x) BY <3>3, <4>1, <4>2
      <4> QED BY <4>3
    <3> QED BY <3>2, <3>3
  <2> HIDE DEF T
  <2>3. D \subseteq T BY <2>1, <2>2, TreeInduction
  <2> QED BY <2>1, <2>3 DEF T
<1> DEFINE W == vis[tree]
<1>4. Sound(W) /\ Open(W, tree) BY <1>3
<1> HIDE DEF W
<1>5. g = [t \in DOMAIN h |-> IF t \in W THEN [h[t] EXCEPT !.aug = sum[t]] ELSE h[t]] BY <1>1 DEF W
<1>6. DOMAIN g = DOMAIN h BY <1>5
<1>7. \A x \in DOMAIN h : x \notin W => g[x] = h[x] BY <1>5
<1>8. ASSUME NEW x \in W
      PROVE  /\ x \in D /\ x \in DOMAIN h /\ h[x].aug = aug_uninitialized
             /\ g[x] = [h[x] EXCEPT !.aug = g[x].aug] /\ g[x].lch = h[x].lch /\ g[x].rch = h[x].rch
             /\ g[x].aug = SumBelow(cs, x) /\ g[x].aug \in Nat /\ g[x].aug # aug_uninitialized
  <2>1. x \in D /\ x \in DOMAIN h /\ h[x].aug = aug_uninitialized BY <1>0, <1>4
  <2>2. g[x] = [h[x] EXCEPT !.aug = SumBelow(cs, x)] BY <1>2, <1>5, <2>1
  <2>3. IsNode(h[x]) BY <1>0, <2>1 DEF Valued
  <2>4. SumBelow(cs, x) \in Nat /\ SumBelow(cs, x) > 0 BY <2>1, SummableNode
  <2>5. g[x] = [val |-> h[x].val, aug |-> SumBelow(cs, x), lch |-> h[x].lch, rch |-> h[x].rch]
    BY <2>2, <2>3 DEF IsNode
  <2>6. g[x].aug = SumBelow(cs, x) /\ g[x].lch = h[x].lch /\ g[x].rch = h[x].rch BY <2>5
  <2>7. g[x].aug # aug_uninitialized BY <2>4, <2>6 DEF aug_uninitialized
  <2> QED BY <2>1, <2>2, <2>4, <2>6, <2>7
<1>9. \A p \in D \cup {nullptr} : Open(W, p) => HasSum(g, p)
  <2> SUFFICES ASSUME NEW p \in D, Open(W, p), p # nullptr PROVE HasSum(g, p) BY DEF HasSum
  <2>1. CASE p \in W BY <1>6, <1>8, <2>1 DEF HasSum
  <2>2. CASE p \notin W
    <3>1. h[p].aug # aug_uninitialized /\ p \in DOMAIN h BY <1>0, <2>2
    <3>2. g[p] = h[p] BY <1>7, <2>2, <3>1
    <3> QED BY <1>6, <3>1, <3>2 DEF HasSum
  <2> QED BY <2>1, <2>2
<1>10. HasSum(g, tree) BY <1>4, <1>9
<1>11. ASSUME NEW x \in DOMAIN h
       PROVE  /\ x \notin D \/ h[x].aug # aug_uninitialized => g[x] = h[x]
              /\ g[x] = [h[x] EXCEPT !.aug = g[x].aug] /\ g[x].aug \in Nat
  <2>1. CASE x \in W BY <1>8, <2>1
  <2>2. CASE x \notin W
    <3>1. g[x] = h[x] /\ IsNode(h[x]) /\ h[x].aug \in Nat BY <1>0, <1>7, <2>2 DEF Valued
    <3>2. h[x] = [h[x] EXCEPT !.aug = h[x].aug] BY <3>1 DEF IsNode
    <3> QED BY <3>1, <3>2
  <2> QED BY <2>1, <2>2
<1>12. ASSUME NEW x \in D PROVE SumRight(g, cs, x)
  <2>1. h[x].lch \in D \cup {nullptr} /\ h[x].rch \in D \cup {nullptr} /\ x \in DOMAIN h BY SummableNode
  <2>2. CASE x \in W
    <3>1. Open(W, h[x].lch) /\ Open(W, h[x].rch) BY <1>4, <2>2
    <3>2. HasSum(g, h[x].lch) /\ HasSum(g, h[x].rch) BY <1>9, <2>1, <3>1
    <3> QED BY <1>8, <2>2, <3>2 DEF SumRight
  <2>3. CASE x \notin W
    <3> SUFFICES ASSUME g[x].aug # aug_uninitialized PROVE SumRight(g, cs, x) BY DEF SumRight
    <3>1. g[x] = h[x] BY <1>7, <2>1, <2>3
    <3>2. h[x].aug = SumBelow(cs, x) /\ HasSum(h, h[x].lch) /\ HasSum(h, h[x].rch) BY <1>0, <3>1 DEF SumRight
    <3>3. Open(W, h[x].lch) /\ Open(W, h[x].rch) BY <3>2 DEF HasSum
    <3>4. HasSum(g, h[x].lch) /\ HasSum(g, h[x].rch) BY <1>9, <2>1, <3>3
    <3> QED BY <3>1, <3>2, <3>4 DEF SumRight
  <2> QED BY <2>2, <2>3
<1> QED BY <1>6, <1>10, <1>11, <1>12 DEF g

-----------------------------------------------------------------------------
(* range_estimate. *)
Ends == {"OPEN", "CLOSE"}
EstCall(h, l, r, f, p) ==
  LET t == p[1]
  IN IF t = nullptr THEN 0
     ELSE IF p[2] = "CLOSE" /\ p[3] = "CLOSE" THEN h[t].aug
     ELSE IF p[3] = "OPEN" /\ r < Key(t) THEN f[<<h[t].lch, p[2], p[3]>>]
     ELSE IF p[2] = "OPEN" /\ l > Key(t) THEN f[<<h[t].rch, p[2], p[3]>>]
     ELSE f[<<h[t].lch, p[2], "CLOSE">>] + h[t].val + f[<<h[t].rch, "CLOSE", p[3]>>]
EstFn(h, l, r) ==
  CHOOSE f : f = [p \in Pointers(h) \X {"OPEN", "CLOSE"} \X {"OPEN", "CLOSE"} |-> EstCall(h, l, r, f, p)]

\* range_estimate returns what its recursion computes.
LEMMA EstimateReturns ==
  ASSUME NEW h, HeapOrdered(h), Valued(h), NEW l, NEW r, NEW tree
  PROVE  /\ range_estimate(h, tree, l, r) = EstFn(h, l, r)[<<tree, "OPEN", "OPEN">>]
         /\ \A t \in Pointers(h), a \in Ends, b \in Ends :
              EstFn(h, l, r)[<<t, a, b>>] = EstCall(h, l, r, EstFn(h, l, r), <<t, a, b>>)
<1> DEFINE P == Pointers(h)  S == P \X Ends \X Ends  V == Nat
           R == [p \in S |-> Rank(p[1])]
           F == [q \in S \X [S -> V] |-> EstCall(h, l, r, q[2], q[1])]
<1>1. \A t \in P : t # nullptr => /\ t \in DOMAIN h /\ h[t].lch \in P /\ h[t].rch \in P
                                  /\ Rank(h[t].lch) < Rank(t) /\ Rank(h[t].rch) < Rank(t)
  BY Ranks DEF Pointers
<1>2. \A t \in P : Rank(t) \in Nat BY Ranks
<1>3. PICK N \in Nat : \A t \in P : Rank(t) < N BY Ranks
<1>4. R \in [S -> Nat] /\ \A t \in P, a \in Ends, b \in Ends : <<t, a, b>> \in S /\ R[<<t, a, b>>] = Rank(t)
  <2> HIDE DEF P
  <2> QED BY <1>2
<1>5. \A p \in S : \E t \in P, a \in Ends, b \in Ends : p = <<t, a, b>> OBVIOUS
<1>6. \A p \in S : R[p] < N BY <1>3, <1>4, <1>5
<1> HIDE DEF S, P, R
<1>7. ASSUME NEW t \in P, NEW a \in Ends, NEW b \in Ends, NEW f \in [S -> V]
      PROVE EstCall(h, l, r, f, <<t, a, b>>) \in V
  <2>1. CASE t = nullptr BY <2>1 DEF EstCall
  <2>2. CASE t # nullptr
    <3>1. h[t].aug \in Nat /\ h[t].val \in Nat BY <1>1, <2>2 DEF Valued
    <3>2. \A x \in Ends, y \in Ends : f[<<h[t].lch, x, y>>] \in Nat /\ f[<<h[t].rch, x, y>>] \in Nat
      BY <1>1, <1>4, <2>2
    <3>3. "CLOSE" \in Ends BY DEF Ends
    <3>4. f[<<h[t].lch, a, "CLOSE">>] + h[t].val + f[<<h[t].rch, "CLOSE", b>>] \in Nat
      <4>1. f[<<h[t].lch, a, "CLOSE">>] \in Nat /\ f[<<h[t].rch, "CLOSE", b>>] \in Nat BY <3>2, <3>3
      <4>2. \A x, y, z \in Nat : x + y + z \in Nat OBVIOUS
      <4> HIDE DEF F
      <4> QED BY <3>1, <4>1, <4>2
    <3>5. f[<<h[t].lch, a, b>>] \in Nat /\ f[<<h[t].rch, a, b>>] \in Nat BY <3>2
    <3> QED BY <2>2, <3>1, <3>4, <3>5 DEF EstCall
  <2> QED BY <2>1, <2>2
<1>8. F \in [S \X [S -> V] -> V]
  <2>1. \A p \in S, f \in [S -> V] : EstCall(h, l, r, f, p) \in V
    <3> HIDE DEF V
    <3> QED BY <1>5, <1>7
  <2> HIDE DEF V
  <2> QED BY <2>1
<1>9. ASSUME NEW t \in P, NEW a \in Ends, NEW b \in Ends, NEW f \in [S -> V], NEW g \in [S -> V],
             \A w \in S : R[w] < R[<<t, a, b>>] => f[w] = g[w]
      PROVE  EstCall(h, l, r, f, <<t, a, b>>) = EstCall(h, l, r, g, <<t, a, b>>)
  <2>1. CASE t = nullptr BY <2>1 DEF EstCall
  <2>2. CASE t # nullptr
    <3>1. \A x \in Ends, y \in Ends : /\ f[<<h[t].lch, x, y>>] = g[<<h[t].lch, x, y>>]
                                      /\ f[<<h[t].rch, x, y>>] = g[<<h[t].rch, x, y>>]
      BY <1>1, <1>4, <1>9, <2>2
    <3>2. "CLOSE" \in Ends BY DEF Ends
    <3>3. f[<<h[t].lch, a, "CLOSE">>] = g[<<h[t].lch, a, "CLOSE">>] /\ f[<<h[t].rch, "CLOSE", b>>] = g[<<h[t].rch, "CLOSE", b>>]
      BY <3>1, <3>2
    <3>4. f[<<h[t].lch, a, b>>] = g[<<h[t].lch, a, b>>] /\ f[<<h[t].rch, a, b>>] = g[<<h[t].rch, a, b>>]
      BY <3>1
    <3> QED BY <2>2, <3>3, <3>4 DEF EstCall
  <2> QED BY <2>1, <2>2
<1>10. \A p \in S : \A f, g \in [S -> V] : (\A w \in S : R[w] < R[p] => f[w] = g[w]) => F[<<p, f>>] = F[<<p, g>>]
  <2> SUFFICES ASSUME NEW p \in S, NEW f \in [S -> V], NEW g \in [S -> V], \A w \in S : R[w] < R[p] => f[w] = g[w]
               PROVE  F[<<p, f>>] = F[<<p, g>>]
    OBVIOUS
  <2>1. PICK t \in P, a \in Ends, b \in Ends : p = <<t, a, b>> BY <1>5
  <2> HIDE DEF V
  <2>2. EstCall(h, l, r, f, p) = EstCall(h, l, r, g, p) BY <1>9, <2>1
  <2> QED BY <2>2
<1>11. PICK f \in [S -> V] : \A p \in S : f[p] = F[<<p, f>>]
  <2>1. V # {} OBVIOUS
  <2>2. R \in [S -> Nat] BY <1>4
  <2> HIDE DEF F, V
  <2>3. Recursive(S, V, R, N, F) BY <1>6, <1>8, <1>10, <2>1, <2>2, Zenon DEF Recursive
  <2> QED BY <2>3, Recursion DEF FixedPoint
<1>12. f = [p \in S |-> EstCall(h, l, r, f, p)]
  <2> HIDE DEF V
  <2>1. \A p \in S : F[<<p, f>>] = EstCall(h, l, r, f, p) OBVIOUS
  <2> HIDE DEF F
  <2> QED BY <1>11, <2>1
<1> HIDE DEF F
<1>13. EstFn(h, l, r) = [p \in S |-> EstCall(h, l, r, EstFn(h, l, r), p)] BY <1>12 DEF EstFn, S, P, Ends
<1>14. range_estimate(h, tree, l, r) = EstFn(h, l, r)[<<tree, "OPEN", "OPEN">>] BY DEF range_estimate, EstFn, EstCall
<1> QED BY <1>4, <1>13, <1>14 DEF P

\* The keys of S a descent with the ends a and b is to count.
Wanted(S, l, r, a, b) == {k \in S : (a = "CLOSE" \/ l <= k) /\ (b = "CLOSE" \/ k <= r)}

\* The keys of S on the sides of k.
Halves(S, k, A, B) == A = {j \in S : j < k} /\ B = {j \in S : j > k}

\* How the sum of S comes from the sums of its halves.
SumSplit(c, S, l, r, a, b, k, A, B) ==
  /\ b = "OPEN" /\ r < k => Wanted(S, l, r, a, b) = Wanted(A, l, r, a, b)
  /\ a = "OPEN" /\ l > k => Wanted(S, l, r, a, b) = Wanted(B, l, r, a, b)
  /\ ~(b = "OPEN" /\ r < k) /\ ~(a = "OPEN" /\ l > k)
       => SumOf(c, Wanted(S, l, r, a, b))
            = SumOf(c, Wanted(A, l, r, a, "CLOSE")) + c[k] + SumOf(c, Wanted(B, l, r, "CLOSE", b))

\* What a descent returns at a node that has its sum, if it returns the right sums at the children.
LEMMA EstimateNode ==
  ASSUME NEW c \in Counts, NEW S \in SUBSET Keys, NEW k \in S, NEW l \in Nat, NEW r \in Nat,
         NEW a \in Ends, NEW b \in Ends, NEW A, NEW B, Halves(S, k, A, B)
  PROVE  SumSplit(c, S, l, r, a, b, k, A, B)
<1> USE DEF Halves
<1> DEFINE W == Wanted(S, l, r, a, b)
           L == Wanted(A, l, r, a, "CLOSE")  H == Wanted(B, l, r, "CLOSE", b)
<1>1. k \in Nat /\ k \in Keys /\ \A j \in S : j \in Nat BY KeyFacts
<1>2. ASSUME b = "OPEN", r < k PROVE W = Wanted(A, l, r, a, b)
  <2>1. \A j \in S : j <= r => j < k BY <1>1, <1>2
  <2>2. b # "CLOSE" BY <1>2
  <2> QED BY <2>1, <2>2 DEF Wanted
<1>3. ASSUME a = "OPEN", l > k PROVE W = Wanted(B, l, r, a, b)
  <2>1. \A j \in S : l <= j => j > k BY <1>1, <1>3
  <2>2. a # "CLOSE" BY <1>3
  <2> QED BY <2>1, <2>2 DEF Wanted
<1>4. ASSUME ~(b = "OPEN" /\ r < k), ~(a = "OPEN" /\ l > k)
      PROVE  SumOf(c, W) = SumOf(c, L) + c[k] + SumOf(c, H)
  <2>1. (b = "CLOSE" \/ k <= r) /\ (a = "CLOSE" \/ l <= k) BY <1>1, <1>4 DEF Ends
  <2>2. k \in W BY <2>1 DEF Wanted
  <2>3. W \ {k} = L \cup H
    <3>1. ASSUME NEW j \in S, j < k PROVE j \in W <=> j \in L BY <1>1, <2>1, <3>1 DEF Wanted
    <3>2. ASSUME NEW j \in S, j > k PROVE j \in W <=> j \in H BY <1>1, <2>1, <3>2 DEF Wanted
    <3>3. W \subseteq S /\ L \subseteq A /\ H \subseteq B BY DEF Wanted
    <3>4. \A j \in S : j < k \/ j = k \/ j > k BY <1>1
    <3>5. \A j \in A : j \in S /\ j < k /\ j # k BY <1>1
    <3>6. \A j \in B : j \in S /\ j > k /\ j # k BY <1>1
    <3> HIDE DEF W, L, H
    <3> QED BY <3>1, <3>2, <3>3, <3>4, <3>5, <3>6
  <2>4. L \in SUBSET Keys /\ H \in SUBSET Keys /\ W \in SUBSET Keys /\ L \cap H = {}
    <3>1. A \cap B = {}
      <4>1. \A j \in S : ~(j < k /\ j > k) BY <1>1
      <4> QED BY <4>1
    <3>2. L \subseteq A /\ H \subseteq B /\ W \subseteq S BY DEF Wanted
    <3> QED BY <3>1, <3>2
  <2> HIDE DEF W, L, H
  <2>5. SumOf(c, W) = c[k] + SumOf(c, W \ {k}) BY <2>2, <2>4, SumTake
  <2>6. SumOf(c, L \cup H) = SumOf(c, L) + SumOf(c, H) BY <2>4, SumParts
  <2>7. SumOf(c, L) \in Nat /\ SumOf(c, H) \in Nat /\ c[k] \in Nat BY <1>1, <2>4, SumTake DEF Counts
  <2>8. SumOf(c, W) = c[k] + (SumOf(c, L) + SumOf(c, H)) BY <2>3, <2>5, <2>6
  <2>9. \A x, y, z \in Nat : x + (y + z) = y + x + z OBVIOUS
  <2>10. c[k] + (SumOf(c, L) + SumOf(c, H)) = SumOf(c, L) + c[k] + SumOf(c, H) BY <2>7, <2>9, Zenon
  <2> QED BY <2>8, <2>10
<1> QED BY <1>2, <1>3, <1>4 DEF SumSplit

\* range_estimate of a tree that has its sums returns the sum of the counters of the
\* keys l..r of its contents.
THEOREM EstimateSpec ==
  ASSUME NEW h, NEW D, NEW cs, Summable(h, D, cs), NEW tree, HasSum(h, tree),
         NEW c \in Counts, Holds(D, cs, tree, c, Present(c)), NEW l \in Nat, NEW r \in Nat
  PROVE  range_estimate(h, tree, l, r) = SumOf(c, {k \in Keys : l <= k /\ k <= r})
<1> DEFINE est == EstFn(h, l, r)
           Right(p, d, S) == \A a, b \in Ends : est[<<p, a, b>>] = SumOf(d, Wanted(S, l, r, a, b))
           T == {p \in D \cup {nullptr} : HasSum(h, p) =>
                   \A d \in Counts, S \in SUBSET Keys : Holds(D, cs, p, d, S) => Right(p, d, S)}
<1>0. HeapOrdered(h) /\ Valued(h) /\ D \subseteq DOMAIN h BY DEF Summable, Finished
<1>1. /\ range_estimate(h, tree, l, r) = est[<<tree, "OPEN", "OPEN">>]
      /\ \A t \in Pointers(h), a \in Ends, b \in Ends : est[<<t, a, b>>] = EstCall(h, l, r, est, <<t, a, b>>)
  BY <1>0, EstimateReturns
<1> HIDE DEF est
<1>2. nullptr \in T
  <2> SUFFICES ASSUME NEW d \in Counts, NEW S \in SUBSET Keys, Holds(D, cs, nullptr, d, S), NEW a \in Ends, NEW b \in Ends
               PROVE  est[<<nullptr, a, b>>] = SumOf(d, Wanted(S, l, r, a, b))
    OBVIOUS
  <2>1. S = {}
    <3>1. nullptr \notin D BY <1>0, Ranks
    <3> QED BY <3>1 DEF Holds
  <2>2. Wanted(S, l, r, a, b) = {} BY <2>1 DEF Wanted
  <2>3. SumOf(d, {}) = 0 BY SumTake
  <2>4. est[<<nullptr, a, b>>] = EstCall(h, l, r, est, <<nullptr, a, b>>) BY <1>1 DEF Pointers
  <2>5. EstCall(h, l, r, est, <<nullptr, a, b>>) = 0 BY DEF EstCall
  <2> QED BY <2>2, <2>3, <2>4, <2>5
<1>3. ASSUME NEW x \in D, h[x].lch \in T, h[x].rch \in T PROVE x \in T
  <2> SUFFICES ASSUME HasSum(h, x), NEW d \in Counts, NEW S \in SUBSET Keys, Holds(D, cs, x, d, S)
               PROVE  Right(x, d, S)
    OBVIOUS
  <2> DEFINE f == cs[Ver(x)]  k == Key(x)  Q == SubKeys(f, k)  A == {j \in Q : j < k}  B == {j \in Q : j > k}
  <2>1. /\ x # nullptr /\ x \in Pointers(h) /\ k \in Keys /\ NodeIs(D, cs, x, h[x])
        /\ f \in Counts /\ SumRight(h, cs, x)
    BY SummableNode DEF Pointers, Summable
  <2>2. /\ h[x].val = f[k] /\ Holds(D, cs, h[x].lch, f, A) /\ Holds(D, cs, h[x].rch, f, B) BY <2>1 DEF NodeIs
  <2>3. S # {} BY <2>1 DEF Holds
  <2>4. k \in S /\ Q = S /\ \A j \in S : f[j] = d[j] BY <2>3 DEF Holds
  <2>5. h[x].aug # aug_uninitialized BY <2>1 DEF HasSum
  <2>6. h[x].aug = SumOf(f, Q) /\ HasSum(h, h[x].lch) /\ HasSum(h, h[x].rch)
    BY <2>1, <2>5 DEF SumRight, SumBelow
  <2>7. A \in SUBSET Keys /\ B \in SUBSET Keys /\ Q \in SUBSET Keys BY <2>4
  <2> HIDE DEF Q, A, B, f, k
  <2>8. Right(h[x].lch, f, A) /\ Right(h[x].rch, f, B) BY <1>3, <2>1, <2>2, <2>6, <2>7
  <2>9. ASSUME NEW a \in Ends, NEW b \in Ends PROVE est[<<x, a, b>>] = SumOf(f, Wanted(Q, l, r, a, b))
    <3> DEFINE W == Wanted(Q, l, r, a, b)
    <3>0. est[<<x, a, b>>] = EstCall(h, l, r, est, <<x, a, b>>) BY <1>1, <2>1
    <3>1. /\ b = "OPEN" /\ r < k => W = Wanted(A, l, r, a, b)
          /\ a = "OPEN" /\ l > k => W = Wanted(B, l, r, a, b)
          /\ ~(b = "OPEN" /\ r < k) /\ ~(a = "OPEN" /\ l > k)
               => SumOf(f, W) = SumOf(f, Wanted(A, l, r, a, "CLOSE")) + f[k] + SumOf(f, Wanted(B, l, r, "CLOSE", b))
      <4>1. k \in Q /\ f \in Counts /\ Q \in SUBSET Keys BY <2>1, <2>4, <2>7
      <4>2. Halves(Q, k, A, B) BY DEF A, B, Halves
      <4> HIDE DEF W
      <4>3. SumSplit(f, Q, l, r, a, b, k, A, B) BY <4>1, <4>2, EstimateNode
      <4> QED BY <4>3 DEF SumSplit, W
    <3>2. CASE a = "CLOSE" /\ b = "CLOSE"
      <4>1. W = Q BY <3>2 DEF Wanted
      <4>2. est[<<x, a, b>>] = h[x].aug BY <2>1, <3>0, <3>2 DEF EstCall
      <4> QED BY <2>6, <4>1, <4>2
    <3>3. CASE ~(a = "CLOSE" /\ b = "CLOSE") /\ b = "OPEN" /\ r < k
      <4>1. est[<<x, a, b>>] = est[<<h[x].lch, a, b>>] BY <2>1, <3>0, <3>3 DEF EstCall, k
      <4> QED BY <2>8, <3>1, <3>3, <4>1
    <3>4. CASE ~(a = "CLOSE" /\ b = "CLOSE") /\ ~(b = "OPEN" /\ r < k) /\ a = "OPEN" /\ l > k
      <4>1. est[<<x, a, b>>] = est[<<h[x].rch, a, b>>] BY <2>1, <3>0, <3>4 DEF EstCall, k
      <4> QED BY <2>8, <3>1, <3>4, <4>1
    <3>5. CASE ~(a = "CLOSE" /\ b = "CLOSE") /\ ~(b = "OPEN" /\ r < k) /\ ~(a = "OPEN" /\ l > k)
      <4>1. est[<<x, a, b>>] = est[<<h[x].lch, a, "CLOSE">>] + h[x].val + est[<<h[x].rch, "CLOSE", b>>]
        BY <2>1, <3>0, <3>5 DEF EstCall, k
      <4>2. "CLOSE" \in Ends BY DEF Ends
      <4>3. /\ est[<<h[x].lch, a, "CLOSE">>] = SumOf(f, Wanted(A, l, r, a, "CLOSE"))
            /\ est[<<h[x].rch, "CLOSE", b>>] = SumOf(f, Wanted(B, l, r, "CLOSE", b))
        BY <2>8, <4>2
      <4> QED BY <2>2, <3>1, <3>5, <4>1, <4>3
    <3> QED BY <3>2, <3>3, <3>4, <3>5
  <2>10. ASSUME NEW a \in Ends, NEW b \in Ends PROVE SumOf(f, Wanted(Q, l, r, a, b)) = SumOf(d, Wanted(S, l, r, a, b))
    <3>1. Wanted(Q, l, r, a, b) \in SUBSET Keys /\ \A j \in Wanted(Q, l, r, a, b) : f[j] = d[j]
      BY <2>4, <2>7 DEF Wanted
    <3>2. SumOf(f, Wanted(Q, l, r, a, b)) = SumOf(d, Wanted(Q, l, r, a, b)) BY <2>1, <3>1, SumSame
    <3> QED BY <2>4, <3>2
  <2> QED BY <2>9, <2>10
<1>4. tree \in T
  <2>1. tree \in D \cup {nullptr} BY DEF Holds
  <2> HIDE DEF T
  <2>2. D \subseteq T BY <1>2, <1>3, TreeInduction
  <2> QED BY <1>2, <2>1, <2>2
<1> DEFINE W == Wanted(Present(c), l, r, "OPEN", "OPEN")  U == {k \in Keys : l <= k /\ k <= r}
<1>5. est[<<tree, "OPEN", "OPEN">>] = SumOf(c, W)
  <2>1. Present(c) \in SUBSET Keys /\ "OPEN" \in Ends BY DEF Present, Ends
  <2>2. Right(tree, c, Present(c)) BY <1>4, <2>1
  <2> QED BY <2>1, <2>2
<1>6. W \in SUBSET Keys /\ U \in SUBSET Keys /\ W \subseteq U /\ \A k \in U \ W : c[k] = 0
  <2>1. \A k \in Keys : c[k] \in Nat BY DEF Counts
  <2> QED BY <2>1 DEF Wanted, Present
<1> HIDE DEF W, U
<1> HIDE DEF T
<1>7. SumOf(c, U) = SumOf(c, W)
  <2>1. W \cup (U \ W) = U /\ W \cap (U \ W) = {} /\ U \ W \in SUBSET Keys BY <1>6
  <2>2. SumOf(c, W \cup (U \ W)) = SumOf(c, W) + SumOf(c, U \ W) BY <1>6, <2>1, SumParts
  <2>3. SumOf(c, U \ W) = 0 BY <1>6, <2>1, SumZero
  <2>4. SumOf(c, W) \in Nat BY <1>6, SumTake
  <2>5. SumOf(c, W) + 0 = SumOf(c, W) BY <2>4
  <2> QED BY <2>1, <2>2, <2>3, <2>5
<1> QED BY <1>1, <1>5, <1>7 DEF U
=============================================================================
