----------------------------- MODULE Inputs_proofs -----------------------------
(***************************************************************************)
(* Proofs about what the program computes from an input of any size: a     *)
(* list of blocked networks, which becomes a segment tree (Resolver and    *)
(* Blocklist), a torrent file (Metainfo), and bencoded bytes               *)
(* (BencodeReaders).  They share the lemmas on induction below, by which   *)
(* recursive functions are seen to exist.                                  *)
(***************************************************************************)
EXTENDS Resolver, Metainfo, BencodeReaders, FiniteSetTheorems,
        FunctionTheorems, SequenceTheorems, WellFoundedInduction, TLAPS
-----------------------------------------------------------------------------
(* Natural numbers                                                         *)

\* A set of natural numbers has a least one.
LEMMA NatLeast ==
  ASSUME NEW T \in SUBSET Nat, T # {}
  PROVE  \E m \in T : \A k \in T : m <= k
<1> DEFINE R == {ss \in Nat \X Nat : ss[1] < ss[2]}
<1>1. IsWellFoundedOn(R, Nat)
  BY NatLessThanWellFounded DEF OpToRel
<1>2. \A i, j \in Nat : i < j => <<i, j>> \in R
  OBVIOUS
<1> HIDE DEF R
<1>3. PICK m \in T : \A k \in T : ~(<<k, m>> \in R)
  BY <1>1, WFMin
<1>4. ASSUME NEW k \in T PROVE m <= k
  <2>1. ~(k < m)
    BY <1>2, <1>3
  <2> QED BY <2>1
<1> QED BY <1>3, <1>4

\* A set with zero and the successor of every number in it has all numbers.
LEMMA SetInduction ==
  ASSUME NEW T, 0 \in T, \A n \in Nat : n \in T => n + 1 \in T
  PROVE  Nat \subseteq T
<1> SUFFICES ASSUME Nat \ T # {} PROVE FALSE
  OBVIOUS
<1>1. PICK m \in Nat \ T : \A k \in Nat \ T : m <= k
  BY NatLeast
<1>2. m # 0 /\ m - 1 \in Nat
  BY <1>1
<1>3. m - 1 \in T
  BY <1>1, <1>2
<1>4. (m - 1) + 1 = m
  BY <1>1
<1> QED BY <1>1, <1>2, <1>3, <1>4

\* The values of the prefixes of a sequence of length N: each is what next makes
\* of the one before.
PrefixValues(g, V, start, N, next) ==
    /\ g \in [0 .. N -> V]
    /\ g[0] = start
    /\ \A n \in 1 .. N : g[n] = next[<<g[n - 1], n>>]

\* A value may be computed along a sequence, from the value of the prefix that
\* is one shorter.
LEMMA PrefixRecursion ==
  ASSUME NEW V, NEW start \in V, NEW N \in Nat,
         NEW next \in [V \X (1 .. N) -> V]
  PROVE  \E g : PrefixValues(g, V, start, N, next)
<1> DEFINE Upto(g, m) ==
             /\ g \in [0 .. m -> V]
             /\ g[0] = start
             /\ \A n \in 1 .. m : g[n] = next[<<g[n - 1], n>>]
           T == {m \in Nat : m <= N => \E g : Upto(g, m)}
<1>1. 0 \in T
  <2>1. Upto([n \in 0 .. 0 |-> start], 0)
    OBVIOUS
  <2> QED BY <2>1
<1>2. ASSUME NEW m \in Nat, m \in T PROVE m + 1 \in T
  <2> SUFFICES ASSUME m + 1 <= N PROVE \E g : Upto(g, m + 1)
    OBVIOUS
  <2>1. PICK g : Upto(g, m)
    BY <1>2
  <2> DEFINE v == next[<<g[m], m + 1>>]
             h == [n \in 0 .. m + 1 |-> IF n = m + 1 THEN v ELSE g[n]]
  <2>2. v \in V
    <3>1. g[m] \in V /\ m + 1 \in 1 .. N
      BY <2>1
    <3> QED BY <3>1
  <2>3. h \in [0 .. m + 1 -> V] /\ h[m + 1] = v /\ \A n \in 0 .. m : h[n] = g[n]
    <3> HIDE DEF v
    <3> QED BY <2>1, <2>2
  <2> HIDE DEF h
  <2>4. h[0] = start
    BY <2>1, <2>3
  <2>5. \A n \in 1 .. m + 1 : h[n] = next[<<h[n - 1], n>>]
    <3> SUFFICES ASSUME NEW n \in 1 .. m + 1
                 PROVE  h[n] = next[<<h[n - 1], n>>]
      OBVIOUS
    <3>1. CASE n = m + 1
      BY <3>1, <2>3
    <3>2. CASE n # m + 1
      <4>1. n \in 1 .. m /\ n \in 0 .. m /\ n - 1 \in 0 .. m
        BY <3>2
      <4> QED BY <4>1, <2>1, <2>3
    <3> QED BY <3>1, <3>2
  <2> QED BY <2>3, <2>4, <2>5
<1>3. N \in T
  <2> HIDE DEF T
  <2> QED BY <1>1, <1>2, SetInduction
<1>4. PICK g : Upto(g, N)
  BY <1>3
<1>5. PrefixValues(g, V, start, N, next)
  BY <1>4 DEF PrefixValues
<1> QED BY <1>5
-----------------------------------------------------------------------------
(* Blocks of addresses                                                     *)

\* A block has at least one address.
LEMMA BlockPositive == \A n \in 0 .. Width : Block[n] \in Nat \ {0}
<1> DEFINE Doubles(g, m) ==
             g = [n \in 0 .. m |-> IF n = 0 THEN 1 ELSE 2 * g[n - 1]]
           T == {m \in Nat : \E g : Doubles(g, m)}
<1>1. 0 \in T
  <2>1. Doubles([n \in 0 .. 0 |-> 1], 0)
    OBVIOUS
  <2> QED BY <2>1
<1>2. ASSUME NEW m \in Nat, m \in T PROVE m + 1 \in T
  <2>1. PICK g : Doubles(g, m)
    BY <1>2
  <2> DEFINE h == [n \in 0 .. m + 1 |-> IF n = 0 THEN 1 ELSE 2 * g[n - 1]]
  <2>2. \A n \in 0 .. m + 1 : h[n] = IF n = 0 THEN 1 ELSE 2 * g[n - 1]
    OBVIOUS
  <2>3. h = [n \in 0 .. m + 1 |-> h[n]]
    OBVIOUS
  <2> HIDE DEF h
  <2>4. \A n \in 0 .. m + 1 : h[n] = IF n = 0 THEN 1 ELSE 2 * h[n - 1]
    <3>1. \A n \in 0 .. m : h[n] = g[n]
      BY <2>1, <2>2
    <3>2. \A n \in 0 .. m + 1 : n # 0 => n - 1 \in 0 .. m
      OBVIOUS
    <3> QED BY <3>1, <3>2, <2>2
  <2>5. Doubles(h, m + 1)
    BY <2>3, <2>4
  <2> HIDE DEF Doubles
  <2> QED BY <2>5
<1>3. Width \in T
  <2> HIDE DEF T
  <2> QED BY <1>1, <1>2, SetInduction, BlocklistAssumption
<1>4. PICK g : Doubles(g, Width)
  BY <1>3
<1>5. Doubles(Block, Width)
  BY <1>4 DEF Block
<1> DEFINE U == {m \in Nat : m <= Width => Block[m] \in Nat \ {0}}
<1>6. 0 \in U
  BY <1>5, BlocklistAssumption
<1>7. ASSUME NEW m \in Nat, m \in U PROVE m + 1 \in U
  BY <1>5, <1>7, BlocklistAssumption
<1>8. Nat \subseteq U
  <2> HIDE DEF U
  <2> QED BY <1>6, <1>7, SetInduction
<1> QED BY <1>8, BlocklistAssumption

\* Numbers with the same quotient lie between two multiples.
LEMMA SameQuotient ==
  ASSUME NEW s \in Nat \ {0}, NEW r \in Nat, NEW a \in Nat
  PROVE  r - (r % s) <= a /\ a <= r - (r % s) + s - 1 <=> a \div s = r \div s
OBVIOUS

\* The interval of a rule holds the addresses that share its first bits.
LEMMA RangeOfRule ==
  ASSUME NEW r \in Rules
  PROVE  /\ ParseCIDR(r) \in [from : Nat, to : Nat]
         /\ ParseCIDR(r).from <= ParseCIDR(r).to
         /\ \A a \in Addresses :
               ParseCIDR(r).from <= a /\ a <= ParseCIDR(r).to
                 <=> a \div Block[Width - r[2]] = r[1] \div Block[Width - r[2]]
<1> DEFINE size == Block[Width - r[2]]
           first == r[1] - (r[1] % size)
<1>1. r[1] \in Nat /\ r[2] \in 0 .. Width /\ Width - r[2] \in 0 .. Width
  BY BlocklistAssumption DEF Rules, Addresses
<1>2. size \in Nat \ {0}
  BY <1>1, BlockPositive
<1>3. ParseCIDR(r) = Segment(first, first + size - 1)
  BY DEF ParseCIDR
<1> HIDE DEF size
<1>4. first \in Nat /\ first + size - 1 \in Nat /\ first <= first + size - 1
  BY <1>1, <1>2
<1>5. ASSUME NEW a \in Nat
      PROVE  first <= a /\ a <= first + size - 1
               <=> a \div size = r[1] \div size
  BY <1>1, <1>2, SameQuotient
<1>6. Addresses \subseteq Nat
  BY DEF Addresses
<1> QED BY <1>3, <1>4, <1>5, <1>6 DEF Segment, size
-----------------------------------------------------------------------------
(* The nodes of a tree                                                     *)

\* The halves of a slice are smaller and hold every leaf of it.
LEMMA NodeFacts ==
  ASSUME NEW leaves, Len(leaves) \in Nat, NEW n \in Nodes(leaves)
  PROVE  /\ n[1] \in 1 .. Len(leaves) /\ n[2] \in 1 .. Len(leaves)
         /\ n[1] <= n[2]
         /\ Kids(n) \subseteq Nodes(leaves)
         /\ \A k \in Kids(n) : k[2] - k[1] < n[2] - n[1]
         /\ n[1] # n[2] =>
               \A i \in n[1] .. n[2] : \E k \in Kids(n) : i \in k[1] .. k[2]
<1> DEFINE center == n[1] + (n[2] - n[1] + 1) \div 2
<1>1. n[1] \in 1 .. Len(leaves) /\ n[2] \in 1 .. Len(leaves) /\ n[1] <= n[2]
  BY DEF Nodes
<1>2. CASE n[1] = n[2]
  BY <1>1, <1>2 DEF Kids
<1>3. CASE n[1] # n[2]
  <2>1. center \in n[1] + 1 .. n[2]
    BY <1>1, <1>3
  <2>2. Kids(n) = {<<n[1], center - 1>>, <<center, n[2]>>}
    BY <1>3 DEF Kids
  <2> HIDE DEF center
  <2>3. /\ <<n[1], center - 1>> \in Nodes(leaves)
        /\ <<center, n[2]>> \in Nodes(leaves)
    BY <1>1, <2>1 DEF Nodes
  <2>4. \A i \in n[1] .. n[2] : i \in n[1] .. center - 1 \/ i \in center .. n[2]
    BY <1>1, <2>1
  <2>5. \A k \in Kids(n) : k[2] - k[1] < n[2] - n[1]
    BY <1>1, <2>1, <2>2
  <2> QED BY <1>1, <2>2, <2>3, <2>4, <2>5
<1> QED BY <1>1, <1>2, <1>3

\* What holds of a node when it holds of its kids holds of all nodes.
LEMMA NodeInduction ==
  ASSUME NEW leaves, Len(leaves) \in Nat, NEW P,
         \A n \in Nodes(leaves) : Kids(n) \subseteq P => n \in P
  PROVE  Nodes(leaves) \subseteq P
<1> SUFFICES ASSUME NEW x \in Nodes(leaves), x \notin P PROVE FALSE
  OBVIOUS
<1> DEFINE Sizes == {n[2] - n[1] : n \in Nodes(leaves) \ P}
<1>1. Sizes \in SUBSET Nat /\ Sizes # {}
  <2>1. \A n \in Nodes(leaves) : n[2] - n[1] \in Nat
    BY NodeFacts
  <2> QED BY <2>1
<1>2. PICK m \in Sizes : \A k \in Sizes : m <= k
  <2> HIDE DEF Sizes
  <2> QED BY <1>1, NatLeast
<1>3. PICK n \in Nodes(leaves) \ P : m = n[2] - n[1]
  BY <1>2
<1>4. Kids(n) \subseteq P
  <2> SUFFICES ASSUME NEW k \in Kids(n), k \notin P PROVE FALSE
    OBVIOUS
  <2>1. k \in Nodes(leaves) \ P /\ k[2] - k[1] < n[2] - n[1]
    BY <1>3, NodeFacts
  <2>2. m <= k[2] - k[1]
    BY <2>1, <1>2
  <2>3. {n[1], n[2], k[1], k[2]} \subseteq Int
    BY <1>3, <2>1, NodeFacts
  <2> QED BY <2>1, <2>2, <2>3, <1>3
<1> QED BY <1>3, <1>4

\* What f is at n is its own and what it is at the elements below.
Unions(f, N, own, sub) ==
    f = [n \in N |-> own[n] \cup UNION {f[k] : k \in sub[n]}]

\* A function that adds up sets along a relation exists: its value at n is the
\* union of own at all elements that every closed set with n in it has.
LEMMA UnionsExist ==
  ASSUME NEW N, NEW own, NEW sub, \A n \in N : sub[n] \subseteq N
  PROVE  \E f : Unions(f, N, own, sub)
<1> DEFINE Closed(C) == \A n \in C : sub[n] \subseteq C
           Below(n) == {k \in N : \A C \in SUBSET N :
                                    n \in C /\ Closed(C) => k \in C}
           f == [n \in N |-> UNION {own[k] : k \in Below(n)}]
<1>1. ASSUME NEW n \in N
      PROVE  /\ n \in Below(n) /\ Closed(Below(n))
             /\ \A k \in sub[n] : Below(k) \subseteq Below(n)
  <2>1. n \in Below(n)
    OBVIOUS
  <2>2. Closed(Below(n))
    OBVIOUS
  <2>3. ASSUME NEW k \in sub[n] PROVE Below(k) \subseteq Below(n)
    OBVIOUS
  <2> QED BY <2>1, <2>2, <2>3
<1>2. ASSUME NEW n \in N, NEW x \in Below(n), x # n
      PROVE  \E k \in sub[n] : x \in Below(k)
  <2> DEFINE C == {n} \cup UNION {Below(k) : k \in sub[n]}
  <2>1. C \in SUBSET N /\ n \in C
    OBVIOUS
  <2>2. Closed(C)
    <3> SUFFICES ASSUME NEW y \in C, NEW z \in sub[y] PROVE z \in C
      OBVIOUS
    <3>1. CASE y = n
      <4>1. z \in sub[n] /\ z \in N
        BY <3>1
      <4>2. z \in Below(z)
        BY <4>1, <1>1
      <4> QED BY <4>1, <4>2
    <3>2. CASE y # n
      <4>1. PICK k \in sub[n] : y \in Below(k)
        BY <3>2
      <4>2. k \in N
        OBVIOUS
      <4>3. Closed(Below(k))
        BY <4>2, <1>1
      <4>4. z \in Below(k)
        BY <4>1, <4>3
      <4> QED BY <4>4
    <3> QED BY <3>1, <3>2
  <2>3. x \in C
    BY <2>1, <2>2, <1>2
  <2> QED BY <2>3, <1>2
<1>3. ASSUME NEW n \in N
      PROVE  f[n] = own[n] \cup UNION {f[k] : k \in sub[n]}
  <2>1. f[n] = UNION {own[k] : k \in Below(n)}
    OBVIOUS
  <2>2. \A k \in sub[n] : f[k] = UNION {own[x] : x \in Below(k)}
    OBVIOUS
  <2> HIDE DEF f, Below
  <2>3. ASSUME NEW y \in f[n]
        PROVE  y \in own[n] \cup UNION {f[k] : k \in sub[n]}
    <3>1. PICK x \in Below(n) : y \in own[x]
      BY <2>1, <2>3
    <3>2. CASE x = n
      BY <3>1, <3>2
    <3>3. CASE x # n
      <4>1. PICK k \in sub[n] : x \in Below(k)
        BY <3>3, <1>2
      <4>2. y \in f[k]
        BY <4>1, <3>1, <2>2
      <4> QED BY <4>2
    <3> QED BY <3>2, <3>3
  <2>4. own[n] \subseteq f[n]
    BY <2>1, <1>1
  <2>5. ASSUME NEW k \in sub[n] PROVE f[k] \subseteq f[n]
    <3>1. Below(k) \subseteq Below(n)
      BY <1>1
    <3> QED BY <3>1, <2>1, <2>2
  <2> QED BY <2>3, <2>4, <2>5
<1>4. f = [n \in N |-> f[n]]
  OBVIOUS
<1>5. Unions(f, N, own, sub)
  <2> HIDE DEF f
  <2> QED BY <1>3, <1>4 DEF Unions
<1> QED
  <2> HIDE DEF f
  <2> QED BY <1>5
-----------------------------------------------------------------------------
(* Leaves, insertion and query                                             *)

\* What the tree needs of its leaves: their ends grow.
Ordered(leaves) ==
    /\ Len(leaves) \in Nat \ {0}
    /\ \A i \in 1 .. Len(leaves) :
          leaves[i].from \in Int /\ leaves[i].to \in Int
    /\ \A i, j \in 1 .. Len(leaves) :
          i <= j => /\ leaves[i].from <= leaves[j].from
                    /\ leaves[i].to <= leaves[j].to

\* A node covers what its leaves cover.
LEMMA SegmentCovers ==
  ASSUME NEW leaves, Ordered(leaves), NEW n \in Nodes(leaves),
         NEW i \in n[1] .. n[2]
  PROVE  /\ SegmentOf(leaves, n).from \in Int /\ SegmentOf(leaves, n).to \in Int
         /\ i \in 1 .. Len(leaves)
         /\ SegmentOf(leaves, n).from <= leaves[i].from
         /\ leaves[i].to <= SegmentOf(leaves, n).to
<1>1. /\ n[1] \in 1 .. Len(leaves) /\ n[2] \in 1 .. Len(leaves)
      /\ n[1] <= n[2]
  BY NodeFacts DEF Ordered
<1>2. i \in 1 .. Len(leaves) /\ n[1] <= i /\ i <= n[2]
  BY <1>1 DEF Ordered
<1> QED BY <1>1, <1>2 DEF Ordered, SegmentOf, Segment

\* What InsertInterval notes below every node, and QuerySingle finds there.
NotedBelow(noted, leaves, s) ==
    /\ InsertInterval(leaves, s) = noted[Root(leaves)]
    /\ \A n \in Nodes(leaves) : noted[n] =
          IF SubsetOf(SegmentOf(leaves, n), s) THEN {n}
          ELSE UNION {noted[k] : k \in {k \in Kids(n) :
                          Intersects(SegmentOf(leaves, k), s)}}
FoundBelow(found, root, v) ==
    /\ QuerySingle(root, v, v) = found[Root(root.leaves)]
    /\ \A n \in Nodes(root.leaves) : found[n] =
          IF Disjoint(SegmentOf(root.leaves, n), v, v) THEN {}
          ELSE root.overlap[n] \cup UNION {found[k] : k \in Kids(n)}

\* The recursion of InsertInterval has a solution.
LEMMA NotedExists ==
  ASSUME NEW leaves, Ordered(leaves), NEW s
  PROVE  \E noted : NotedBelow(noted, leaves, s)
<1> DEFINE Eq(g) ==
             g = [n \in Nodes(leaves) |->
                    IF SubsetOf(SegmentOf(leaves, n), s) THEN {n}
                    ELSE UNION {g[k] : k \in {k \in Kids(n) :
                                    Intersects(SegmentOf(leaves, k), s)}}]
           own == [n \in Nodes(leaves) |->
                     IF SubsetOf(SegmentOf(leaves, n), s) THEN {n} ELSE {}]
           sub == [n \in Nodes(leaves) |->
                     IF SubsetOf(SegmentOf(leaves, n), s) THEN {}
                     ELSE {k \in Kids(n) :
                             Intersects(SegmentOf(leaves, k), s)}]
<1>1. \A n \in Nodes(leaves) : sub[n] \subseteq Nodes(leaves)
  BY NodeFacts DEF Ordered
<1>2. PICK f : Unions(f, Nodes(leaves), own, sub)
  <2> HIDE DEF own, sub
  <2> QED BY <1>1, UnionsExist
<1>3. \A n \in Nodes(leaves) :
        own[n] \cup UNION {f[k] : k \in sub[n]} =
          IF SubsetOf(SegmentOf(leaves, n), s) THEN {n}
          ELSE UNION {f[k] : k \in {k \in Kids(n) :
                          Intersects(SegmentOf(leaves, k), s)}}
  OBVIOUS
<1>4. Eq(f)
  <2> HIDE DEF own, sub
  <2> QED BY <1>2, <1>3 DEF Unions
<1> DEFINE noted == CHOOSE g : Eq(g)
<1>5. Eq(noted)
  BY <1>4
<1>6. InsertInterval(leaves, s) = noted[Root(leaves)]
  BY DEF InsertInterval
<1> HIDE DEF noted
<1>7. NotedBelow(noted, leaves, s)
  BY <1>5, <1>6 DEF NotedBelow
<1> QED BY <1>7

\* So has the one of QuerySingle.
LEMMA FoundExists ==
  ASSUME NEW root, Ordered(root.leaves), NEW v
  PROVE  \E found : FoundBelow(found, root, v)
<1> DEFINE leaves == root.leaves
           Eq(g) ==
             g = [n \in Nodes(leaves) |->
                    IF Disjoint(SegmentOf(leaves, n), v, v) THEN {}
                    ELSE root.overlap[n] \cup UNION {g[k] : k \in Kids(n)}]
           own == [n \in Nodes(leaves) |->
                     IF Disjoint(SegmentOf(leaves, n), v, v) THEN {}
                     ELSE root.overlap[n]]
           sub == [n \in Nodes(leaves) |->
                     IF Disjoint(SegmentOf(leaves, n), v, v) THEN {}
                     ELSE Kids(n)]
<1>1. \A n \in Nodes(leaves) : sub[n] \subseteq Nodes(leaves)
  BY NodeFacts DEF Ordered
<1>2. PICK f : Unions(f, Nodes(leaves), own, sub)
  <2> HIDE DEF own, sub
  <2> QED BY <1>1, UnionsExist
<1>3. \A n \in Nodes(leaves) :
        own[n] \cup UNION {f[k] : k \in sub[n]} =
          IF Disjoint(SegmentOf(leaves, n), v, v) THEN {}
          ELSE root.overlap[n] \cup UNION {f[k] : k \in Kids(n)}
  OBVIOUS
<1>4. Eq(f)
  <2> HIDE DEF own, sub
  <2> QED BY <1>2, <1>3 DEF Unions
<1> DEFINE found == CHOOSE g : Eq(g)
<1>5. Eq(found)
  BY <1>4
<1>6. QuerySingle(root, v, v) = found[Root(leaves)]
  BY DEF QuerySingle
<1> HIDE DEF found
<1>7. FoundBelow(found, root, v)
  BY <1>5, <1>6 DEF FoundBelow
<1> QED BY <1>7

\* The root is the slice of all leaves.
LEMMA RootIsNode ==
  ASSUME NEW leaves, Ordered(leaves)
  PROVE  /\ Root(leaves) \in Nodes(leaves)
         /\ \A i \in 1 .. Len(leaves) : i \in Root(leaves)[1] .. Root(leaves)[2]
BY DEF Ordered, Root, Nodes

\* An interval is noted only at nodes it covers.
LEMMA NotedIsCovered ==
  ASSUME NEW leaves, Ordered(leaves), NEW s,
         NEW n \in InsertInterval(leaves, s)
  PROVE  n \in Nodes(leaves) /\ SubsetOf(SegmentOf(leaves, n), s)
<1>1. PICK noted : NotedBelow(noted, leaves, s)
  BY NotedExists
<1> DEFINE Good == {m \in Nodes(leaves) : SubsetOf(SegmentOf(leaves, m), s)}
           P == {m \in Nodes(leaves) : noted[m] \subseteq Good}
<1>2. ASSUME NEW m \in Nodes(leaves), Kids(m) \subseteq P PROVE m \in P
  <2>1. CASE SubsetOf(SegmentOf(leaves, m), s)
    <3>1. noted[m] = {m}
      BY <1>1, <2>1 DEF NotedBelow
    <3> QED BY <3>1, <2>1
  <2>2. CASE ~SubsetOf(SegmentOf(leaves, m), s)
    <3>1. noted[m] = UNION {noted[k] : k \in {k \in Kids(m) :
                                Intersects(SegmentOf(leaves, k), s)}}
      BY <1>1, <2>2 DEF NotedBelow
    <3>2. \A k \in Kids(m) : noted[k] \subseteq Good
      BY <1>2
    <3>3. noted[m] \subseteq Good
      <4> HIDE DEF Good, P
      <4> QED BY <3>1, <3>2
    <3> QED BY <3>3
  <2> QED BY <2>1, <2>2
<1>3. Nodes(leaves) \subseteq P
  <2> HIDE DEF P
  <2> QED BY <1>2, NodeInduction DEF Ordered
<1> QED BY <1>1, <1>3, RootIsNode DEF NotedBelow

\* What a query finds is noted at a node over the address.
LEMMA FoundIsNoted ==
  ASSUME NEW root, Ordered(root.leaves), NEW v,
         NEW x \in QuerySingle(root, v, v)
  PROVE  \E n \in Nodes(root.leaves) :
            /\ x \in root.overlap[n]
            /\ ~Disjoint(SegmentOf(root.leaves, n), v, v)
<1>1. PICK found : FoundBelow(found, root, v)
  BY FoundExists
<1> DEFINE Over == {n \in Nodes(root.leaves) :
                      ~Disjoint(SegmentOf(root.leaves, n), v, v)}
           Good == UNION {root.overlap[n] : n \in Over}
           P == {m \in Nodes(root.leaves) : found[m] \subseteq Good}
<1>2. ASSUME NEW m \in Nodes(root.leaves), Kids(m) \subseteq P PROVE m \in P
  <2>1. CASE m \notin Over
    <3>1. found[m] = {}
      BY <1>1, <2>1 DEF FoundBelow
    <3> QED BY <3>1
  <2>2. CASE m \in Over
    <3>1. found[m] = root.overlap[m] \cup UNION {found[k] : k \in Kids(m)}
      BY <1>1, <2>2 DEF FoundBelow
    <3>2. \A k \in Kids(m) : found[k] \subseteq Good
      BY <1>2
    <3>3. root.overlap[m] \subseteq Good
      BY <2>2
    <3>4. found[m] \subseteq Good
      <4> HIDE DEF Good, P, Over
      <4> QED BY <3>1, <3>2, <3>3
    <3> QED BY <3>4
  <2> QED BY <2>1, <2>2
<1>3. Nodes(root.leaves) \subseteq P
  <2> HIDE DEF P
  <2> QED BY <1>2, NodeInduction DEF Ordered
<1> QED BY <1>1, <1>3, RootIsNode DEF FoundBelow

\* An interval that covers a leaf over the address is found: on the way from
\* the root to the leaf every node is over the address and meets the interval,
\* and one of them is the first that it covers.
LEMMA CoveredIsFound ==
  ASSUME NEW root, Ordered(root.leaves), NEW s, s.from \in Int, s.to \in Int,
         NEW v \in Int, NEW i \in 1 .. Len(root.leaves),
         root.leaves[i].from <= v, v <= root.leaves[i].to,
         SubsetOf(root.leaves[i], s), NEW id,
         \A n \in InsertInterval(root.leaves, s) : id \in root.overlap[n]
  PROVE  id \in QuerySingle(root, v, v)
<1> DEFINE leaves == root.leaves
<1>1. PICK noted : NotedBelow(noted, leaves, s)
  BY NotedExists
<1>2. PICK found : FoundBelow(found, root, v)
  BY FoundExists
<1> DEFINE Over(n) == i \in n[1] .. n[2]
           Told(n) == \A m \in noted[n] : id \in root.overlap[m]
           P == {n \in Nodes(leaves) : Over(n) /\ Told(n) => id \in found[n]}
<1>3. ASSUME NEW n \in Nodes(leaves), Over(n)
      PROVE  /\ ~Disjoint(SegmentOf(leaves, n), v, v)
             /\ Intersects(SegmentOf(leaves, n), s)
  <2>1. /\ SegmentOf(leaves, n).from \in Int /\ SegmentOf(leaves, n).to \in Int
        /\ SegmentOf(leaves, n).from <= leaves[i].from
        /\ leaves[i].to <= SegmentOf(leaves, n).to
    BY <1>3, SegmentCovers
  <2>2. leaves[i].from \in Int /\ leaves[i].to \in Int
    BY DEF Ordered
  <2> QED BY <2>1, <2>2 DEF Disjoint, Intersects, SubsetOf
<1>4. ASSUME NEW n \in Nodes(leaves), Kids(n) \subseteq P, Over(n), Told(n)
      PROVE  id \in found[n]
  <2>1. found[n] = root.overlap[n] \cup UNION {found[k] : k \in Kids(n)}
    BY <1>2, <1>3, <1>4 DEF FoundBelow
  <2>2. CASE SubsetOf(SegmentOf(leaves, n), s)
    <3>1. noted[n] = {n}
      BY <1>1, <2>2 DEF NotedBelow
    <3> QED BY <3>1, <2>1, <1>4
  <2>3. CASE ~SubsetOf(SegmentOf(leaves, n), s)
    <3>1. n[1] # n[2]
      <4> SUFFICES ASSUME n[1] = n[2] PROVE FALSE
        OBVIOUS
      <4>1. n[1] = i /\ n[2] = i
        BY <1>4, NodeFacts DEF Ordered
      <4> QED BY <4>1, <2>3 DEF SegmentOf, Segment, SubsetOf
    <3>2. PICK k \in Kids(n) : Over(k)
      BY <3>1, <1>4, NodeFacts DEF Ordered
    <3>3. k \in P /\ k \in Nodes(leaves)
      BY <1>4
    <3>4. Intersects(SegmentOf(leaves, k), s)
      BY <1>3, <3>2, <3>3
    <3>5. noted[k] \subseteq noted[n]
      <4>1. noted[n] = UNION {noted[h] : h \in {h \in Kids(n) :
                                 Intersects(SegmentOf(leaves, h), s)}}
        BY <1>1, <2>3 DEF NotedBelow
      <4> QED BY <3>4, <4>1
    <3>6. id \in found[k]
      BY <3>2, <3>3, <3>5, <1>4
    <3> QED BY <2>1, <3>6
  <2> QED BY <2>2, <2>3
<1>5. ASSUME NEW n \in Nodes(leaves), Kids(n) \subseteq P PROVE n \in P
  BY <1>4, <1>5
<1>6. Nodes(leaves) \subseteq P
  <2> HIDE DEF P
  <2> QED BY <1>5, NodeInduction DEF Ordered
<1> QED BY <1>1, <1>2, <1>6, RootIsNode DEF NotedBelow, FoundBelow
-----------------------------------------------------------------------------
(* Endpoints and elementary intervals                                      *)

\* es lists S in order.
Sorted(es, S) ==
    /\ es \in [1 .. Cardinality(S) -> S]
    /\ \A i, j \in 1 .. Cardinality(S) : i < j => es[i] < es[j]

\* A finite set of natural numbers can be sorted, its least element first.
LEMMA SortedExists ==
  ASSUME NEW A \in SUBSET Nat, IsFiniteSet(A)
  PROVE  \E es : Sorted(es, A)
<1> DEFINE Sortable(S) == \E es : Sorted(es, S)
           T == {m \in Nat : \A S \in SUBSET Nat :
                   IsFiniteSet(S) /\ Cardinality(S) = m => Sortable(S)}
<1>1. 0 \in T
  <2> SUFFICES ASSUME NEW S \in SUBSET Nat, Cardinality(S) = 0
               PROVE  Sortable(S)
    OBVIOUS
  <2>1. Sorted([i \in 1 .. 0 |-> 0], S)
    BY DEF Sorted
  <2> QED BY <2>1
<1>2. ASSUME NEW m \in Nat, m \in T PROVE m + 1 \in T
  <2> SUFFICES ASSUME NEW S \in SUBSET Nat, IsFiniteSet(S),
                      Cardinality(S) = m + 1
               PROVE  Sortable(S)
    OBVIOUS
  <2>1. S # {}
    BY FS_EmptySet
  <2>2. PICK least \in S : \A x \in S : least <= x
    BY <2>1, NatLeast
  <2> DEFINE R == S \ {least}
  <2>3. R \in SUBSET Nat /\ IsFiniteSet(R) /\ Cardinality(R) = m
    <3>1. IsFiniteSet(R) /\ Cardinality(R) = Cardinality(S) - 1
      BY FS_RemoveElement
    <3>2. R \in SUBSET Nat
      OBVIOUS
    <3> HIDE DEF R
    <3> QED BY <3>1, <3>2
  <2>4. \A x \in R : x \in S /\ least < x
    BY <2>2
  <2> HIDE DEF R
  <2>5. PICK es : Sorted(es, R)
    BY <2>3, <1>2
  <2> DEFINE h == [i \in 1 .. m + 1 |-> IF i = 1 THEN least ELSE es[i - 1]]
  <2>6. ASSUME NEW i \in 1 .. m + 1, i # 1
        PROVE  i - 1 \in 1 .. m /\ h[i] = es[i - 1] /\ es[i - 1] \in R
    BY <2>3, <2>5, <2>6 DEF Sorted
  <2>7. h[1] = least
    OBVIOUS
  <2>8. h \in [1 .. m + 1 -> S]
    BY <2>4, <2>6
  <2>9. ASSUME NEW i \in 1 .. m + 1, NEW j \in 1 .. m + 1, i < j
        PROVE  h[i] < h[j]
    <3>1. j # 1
      BY <2>9
    <3>2. CASE i = 1
      BY <3>1, <3>2, <2>4, <2>6, <2>7
    <3>3. CASE i # 1
      BY <3>1, <3>3, <2>3, <2>5, <2>6, <2>9 DEF Sorted
    <3> QED BY <3>2, <3>3
  <2> HIDE DEF h
  <2>10. Sorted(h, S)
    BY <2>8, <2>9 DEF Sorted
  <2> QED BY <2>10
<1>3. Nat \subseteq T
  <2> HIDE DEF T
  <2> QED BY <1>1, <1>2, SetInduction
<1> QED BY <1>3, FS_CardinalityType

\* It holds every element of the set.
LEMMA SortedIsOnto ==
  ASSUME NEW S \in SUBSET Nat, IsFiniteSet(S), NEW es, Sorted(es, S),
         NEW x \in S
  PROVE  \E i \in 1 .. Cardinality(S) : es[i] = x
<1> DEFINE n == Cardinality(S)
<1>1. n \in Nat /\ es \in [1 .. n -> S]
  BY FS_CardinalityType DEF Sorted
<1>2. \A i, j \in 1 .. n : es[i] = es[j] => i = j
  <2> SUFFICES ASSUME NEW i \in 1 .. n, NEW j \in 1 .. n, es[i] = es[j], i # j
               PROVE  FALSE
    OBVIOUS
  <2>1. es[i] \in Nat /\ es[j] \in Nat
    BY <1>1
  <2>2. i < j \/ j < i
    BY <1>1
  <2> QED BY <2>1, <2>2 DEF Sorted
<1>3. es \in Injection(1 .. n, S)
  <2> HIDE DEF n
  <2> QED BY <1>1, <1>2, Fun_IsInj
<1>4. IsFiniteSet(1 .. n) /\ Cardinality(1 .. n) = n
  BY <1>1, FS_Interval
<1>5. es \in Surjection(1 .. n, S)
  BY <1>3, <1>4, FS_Injection
<1>6. \A y \in S : \E i \in 1 .. n : es[i] = y
  <2> HIDE DEF n
  <2> QED BY <1>5 DEF Surjection
<1> QED BY <1>6

\* The ends of a segment.
LEMMA SegmentEnds == \A a, b : Segment(a, b).from = a /\ Segment(a, b).to = b
BY DEF Segment

\* Endpoints grow also if they may be the same.
LEMMA Increasing ==
  ASSUME NEW k \in Nat, NEW es \in [1 .. k -> Nat],
         \A i, j \in 1 .. k : i < j => es[i] < es[j]
  PROVE  \A i, j \in 1 .. k : i <= j => es[i] <= es[j]
OBVIOUS

\* The elementary intervals are as the tree needs them.
LEMMA ElementaryOrdered ==
  ASSUME NEW k \in Nat \ {0}, NEW es \in [1 .. k -> Nat],
         \A i, j \in 1 .. k : i < j => es[i] < es[j]
  PROVE  /\ Ordered(ElementaryIntervals(es))
         /\ Len(ElementaryIntervals(es)) = 2 * k - 1
         /\ \A i \in 1 .. 2 * k - 1 : ElementaryIntervals(es)[i] =
               Segment(es[(i + 1) \div 2], es[i \div 2 + 1])
<1> DEFINE leaves == ElementaryIntervals(es)
<1>1. Len(es) = k
  OBVIOUS
<1>2. leaves = [i \in 1 .. 2 * k - 1 |->
                  Segment(es[(i + 1) \div 2], es[i \div 2 + 1])]
  BY <1>1 DEF ElementaryIntervals
<1>3. Len(leaves) = 2 * k - 1 /\ Len(leaves) \in Nat \ {0}
  BY <1>2
<1> HIDE DEF leaves
<1>4. \A i \in 1 .. 2 * k - 1 : leaves[i] =
        Segment(es[(i + 1) \div 2], es[i \div 2 + 1])
  BY <1>2
<1>5. \A i \in 1 .. 2 * k - 1 :
        (i + 1) \div 2 \in 1 .. k /\ i \div 2 + 1 \in 1 .. k
  OBVIOUS
<1>6. \A i \in 1 .. 2 * k - 1 :
        leaves[i].from \in Int /\ leaves[i].to \in Int
  <2> SUFFICES ASSUME NEW i \in 1 .. 2 * k - 1
               PROVE  leaves[i].from \in Int /\ leaves[i].to \in Int
    OBVIOUS
  <2>1. es[(i + 1) \div 2] \in Int /\ es[i \div 2 + 1] \in Int
    BY <1>5
  <2> QED BY <2>1, <1>4, SegmentEnds
<1>7. \A p, q \in 1 .. k : p <= q => es[p] <= es[q]
  BY Increasing
<1>8. ASSUME NEW i \in 1 .. 2 * k - 1, NEW j \in 1 .. 2 * k - 1, i <= j
      PROVE  leaves[i].from <= leaves[j].from /\ leaves[i].to <= leaves[j].to
  <2>1. (i + 1) \div 2 <= (j + 1) \div 2 /\ i \div 2 + 1 <= j \div 2 + 1
    BY <1>8
  <2>2. es[(i + 1) \div 2] <= es[(j + 1) \div 2]
    BY <2>1, <1>5, <1>7
  <2>3. es[i \div 2 + 1] <= es[j \div 2 + 1]
    BY <2>1, <1>5, <1>7
  <2>4. /\ leaves[i] = Segment(es[(i + 1) \div 2], es[i \div 2 + 1])
        /\ leaves[j] = Segment(es[(j + 1) \div 2], es[j \div 2 + 1])
    BY <1>4
  <2>5. /\ leaves[i].from = es[(i + 1) \div 2]
        /\ leaves[i].to = es[i \div 2 + 1]
        /\ leaves[j].from = es[(j + 1) \div 2]
        /\ leaves[j].to = es[j \div 2 + 1]
    BY ONLY <2>4, SegmentEnds
  <2> QED BY <2>2, <2>3, <2>5
<1>9. Ordered(leaves)
  BY <1>3, <1>6, <1>8 DEF Ordered
<1> QED BY <1>3, <1>4, <1>9 DEF leaves

\* Every address between two endpoints is in a leaf between them: its own, or
\* the one between the neighbours of the address.
LEMMA LeafBetween ==
  ASSUME NEW k \in Nat \ {0}, NEW es \in [1 .. k -> Nat],
         \A i, j \in 1 .. k : i < j => es[i] < es[j],
         NEW p \in 1 .. k, NEW q \in 1 .. k, NEW v \in Nat,
         es[p] <= v, v <= es[q]
  PROVE  \E i \in 1 .. 2 * k - 1 :
            /\ ElementaryIntervals(es)[i].from <= v
            /\ v <= ElementaryIntervals(es)[i].to
            /\ SubsetOf(ElementaryIntervals(es)[i], Segment(es[p], es[q]))
<1> DEFINE leaves == ElementaryIntervals(es)
<1>1. \A i \in 1 .. 2 * k - 1 : leaves[i] =
        Segment(es[(i + 1) \div 2], es[i \div 2 + 1])
  BY ElementaryOrdered
<1>2. \A i, j \in 1 .. k : i <= j => es[i] <= es[j]
  BY Increasing
<1>3. CASE \E j \in 1 .. k : es[j] = v
  <2>1. PICK j \in 1 .. k : es[j] = v
    BY <1>3
  <2>2. /\ 2 * j - 1 \in 1 .. 2 * k - 1
        /\ (2 * j - 1 + 1) \div 2 = j /\ (2 * j - 1) \div 2 + 1 = j
    OBVIOUS
  <2>3. leaves[2 * j - 1] = Segment(v, v)
    BY <1>1, <2>1, <2>2
  <2> QED BY <2>2, <2>3 DEF Segment, SubsetOf
<1>4. CASE \A j \in 1 .. k : es[j] # v
  <2> DEFINE T == {j \in 1 .. k : v < es[j]}
  <2>1. q \in T /\ T \in SUBSET Nat
    BY <1>4
  <2>2. PICK m \in T : \A j \in T : m <= j
    <3> HIDE DEF T
    <3> QED BY <2>1, NatLeast
  <2>3. m \in 1 .. k /\ v < es[m] /\ m <= q
    BY <2>1, <2>2
  <2>4. p < m
    <3> SUFFICES ASSUME m <= p PROVE FALSE
      BY <2>3
    <3>1. es[m] <= es[p]
      BY <2>3, <1>2
    <3>2. es[m] \in Nat /\ es[p] \in Nat
      BY <2>3
    <3> QED BY <3>1, <3>2, <2>3
  <2>5. m - 1 \in 1 .. k /\ p <= m - 1
    BY <2>3, <2>4
  <2>6. es[m - 1] <= v
    <3>1. m - 1 \notin T
      BY <2>2, <2>5
    <3> QED BY <3>1, <2>5
  <2>7. es[p] <= es[m - 1] /\ es[m] <= es[q]
    BY <2>3, <2>5, <1>2
  <2>8. /\ 2 * (m - 1) \in 1 .. 2 * k - 1
        /\ (2 * (m - 1) + 1) \div 2 = m - 1 /\ (2 * (m - 1)) \div 2 + 1 = m
    BY <2>3, <2>5
  <2>9. leaves[2 * (m - 1)] = Segment(es[m - 1], es[m])
    BY <1>1, <2>8
  <2>10. v <= es[m]
    BY <2>3
  <2>11. /\ leaves[2 * (m - 1)].from = es[m - 1]
         /\ leaves[2 * (m - 1)].to = es[m]
         /\ Segment(es[p], es[q]).from = es[p]
         /\ Segment(es[p], es[q]).to = es[q]
    BY <2>9, SegmentEnds
  <2> HIDE DEF leaves
  <2>12. SubsetOf(leaves[2 * (m - 1)], Segment(es[p], es[q]))
    BY <2>7, <2>11 DEF SubsetOf
  <2>13. leaves[2 * (m - 1)].from <= v /\ v <= leaves[2 * (m - 1)].to
    BY <2>6, <2>10, <2>11
  <2> QED BY <2>8, <2>12, <2>13 DEF leaves
<1> QED BY <1>3, <1>4
-----------------------------------------------------------------------------
(* The tree of a list                                                      *)

\* The intervals of a base have natural ends and are finitely many.
IsBase(base) ==
    /\ IsFiniteSet(DOMAIN base)
    /\ \A id \in DOMAIN base : base[id] \in [from : Nat, to : Nat]

\* The endpoints of a base, in order.
LEMMA EndpointsSorted ==
  ASSUME NEW base, IsBase(base), DOMAIN base # {}
  PROVE  \E k \in Nat \ {0} :
            /\ Endpoints(base) \in [1 .. k -> Nat]
            /\ \A i, j \in 1 .. k :
                  i < j => Endpoints(base)[i] < Endpoints(base)[j]
            /\ \A id \in DOMAIN base : \E p, q \in 1 .. k :
                  /\ Endpoints(base)[p] = base[id].from
                  /\ Endpoints(base)[q] = base[id].to
<1> DEFINE EndsOf(id) == {base[id].from, base[id].to}
           ends == UNION {EndsOf(id) : id \in DOMAIN base}
           k == Cardinality(ends)
<1>1. ends \in SUBSET Nat
  BY DEF IsBase
<1>2. IsFiniteSet(ends)
  <2> DEFINE f == [id \in DOMAIN base |-> EndsOf(id)]
             S == {EndsOf(id) : id \in DOMAIN base}
  <2>1. f \in Surjection(DOMAIN base, S)
    BY DEF Surjection
  <2>2. IsFiniteSet(S)
    <3> HIDE DEF f, S
    <3> QED BY <2>1, FS_Surjection DEF IsBase
  <2>3. \A A \in S : IsFiniteSet(A)
    <3> SUFFICES ASSUME NEW id \in DOMAIN base PROVE IsFiniteSet(EndsOf(id))
      OBVIOUS
    <3>1. /\ IsFiniteSet({base[id].from})
          /\ EndsOf(id) = {base[id].from} \cup {base[id].to}
      BY FS_Singleton
    <3> QED BY <3>1, FS_AddElement
  <2> HIDE DEF S
  <2>4. IsFiniteSet(UNION S)
    BY <2>2, <2>3, FS_UNION
  <2> QED BY <2>4 DEF S
<1>3. \A id \in DOMAIN base : base[id].from \in ends /\ base[id].to \in ends
  OBVIOUS
<1>4. k \in Nat \ {0}
  <2>1. ends # {}
    BY <1>3
  <2> HIDE DEF ends
  <2> QED BY <1>2, <2>1, FS_CardinalityType, FS_EmptySet
<1>5. \E es : Sorted(es, ends)
  <2> HIDE DEF ends
  <2> QED BY <1>1, <1>2, SortedExists
<1>6. Sorted(Endpoints(base), ends)
  <2> DEFINE InOrder(es) == \A i, j \in DOMAIN es : i < j => es[i] < es[j]
  <2>1. Endpoints(base) =
          CHOOSE es \in [1 .. Cardinality(ends) -> ends] : InOrder(es)
    BY DEF Endpoints
  <2> HIDE DEF ends
  <2>2. PICK es : Sorted(es, ends)
    BY <1>5
  <2>3. es \in [1 .. Cardinality(ends) -> ends] /\ InOrder(es)
    BY <2>2 DEF Sorted
  <2> HIDE DEF InOrder
  <2>4. /\ Endpoints(base) \in [1 .. Cardinality(ends) -> ends]
        /\ InOrder(Endpoints(base))
    BY <2>1, <2>3
  <2> QED BY <2>4 DEF Sorted, InOrder
<1> HIDE DEF ends
<1>7. \A x \in ends : \E i \in 1 .. k : Endpoints(base)[i] = x
  BY <1>1, <1>2, <1>6, SortedIsOnto
<1>8. /\ Endpoints(base) \in [1 .. k -> Nat]
      /\ \A i, j \in 1 .. k : i < j => Endpoints(base)[i] < Endpoints(base)[j]
  BY <1>1, <1>6 DEF Sorted
<1>9. \A id \in DOMAIN base : \E p, q \in 1 .. k :
        Endpoints(base)[p] = base[id].from /\ Endpoints(base)[q] = base[id].to
  BY <1>3, <1>7
<1> HIDE DEF k
<1> QED BY <1>4, <1>8, <1>9

\* A tree holds the addresses that an interval of its base covers, and no other.
LEMMA TreeCovers ==
  ASSUME NEW base, IsBase(base), NEW v \in Nat
  PROVE  TreeContains(Build(base), v) <=>
            \E id \in DOMAIN base : base[id].from <= v /\ v <= base[id].to
<1>1. CASE DOMAIN base = {}
  BY <1>1 DEF Build, TreeContains
<1>2. CASE DOMAIN base # {}
  <2> DEFINE es == Endpoints(base)
             leaves == ElementaryIntervals(es)
             root == Build(base)
  <2>1. PICK k \in Nat \ {0} :
          /\ es \in [1 .. k -> Nat]
          /\ \A i, j \in 1 .. k : i < j => es[i] < es[j]
          /\ \A id \in DOMAIN base : \E p, q \in 1 .. k :
                es[p] = base[id].from /\ es[q] = base[id].to
    BY <1>2, EndpointsSorted
  <2>2. /\ root.leaves = leaves
        /\ root.overlap = [n \in Nodes(leaves) |->
              {id \in DOMAIN base : n \in InsertInterval(leaves, base[id])}]
        /\ root # NoTree
    <3> DEFINE noted == [id \in DOMAIN base |->
                           InsertInterval(leaves, base[id])]
    <3>1. root = [leaves |-> leaves,
                  overlap |-> [n \in Nodes(leaves) |->
                                 {id \in DOMAIN base : n \in noted[id]}]]
      BY <1>2 DEF Build
    <3>2. [n \in Nodes(leaves) |-> {id \in DOMAIN base : n \in noted[id]}] =
          [n \in Nodes(leaves) |->
             {id \in DOMAIN base : n \in InsertInterval(leaves, base[id])}]
      OBVIOUS
    <3> HIDE DEF leaves, noted, root
    <3>3. DOMAIN root = {"leaves", "overlap"} /\ DOMAIN NoTree = {}
      BY <3>1 DEF NoTree
    <3> QED BY <3>1, <3>2, <3>3
  <2>3. Ordered(leaves) /\ Len(leaves) = 2 * k - 1
    <3> HIDE DEF es
    <3> QED BY <2>1, ElementaryOrdered
  <2>4. ASSUME NEW id \in DOMAIN base, base[id].from <= v, v <= base[id].to
        PROVE  id \in QuerySingle(root, v, v)
    <3>1. PICK p \in 1 .. k, q \in 1 .. k :
            es[p] = base[id].from /\ es[q] = base[id].to
      BY <2>1
    <3>2. Segment(es[p], es[q]) = base[id]
      BY <3>1 DEF IsBase, Segment
    <3>3. PICK i \in 1 .. 2 * k - 1 :
            /\ leaves[i].from <= v /\ v <= leaves[i].to
            /\ SubsetOf(leaves[i], base[id])
      <4>1. base[id] = Segment(es[p], es[q]) /\ es[p] <= v /\ v <= es[q]
        BY <2>4, <3>1, <3>2
      <4> HIDE DEF es
      <4>2. \E i \in 1 .. 2 * k - 1 :
              /\ leaves[i].from <= v /\ v <= leaves[i].to
              /\ SubsetOf(leaves[i], Segment(es[p], es[q]))
        BY <2>1, <4>1, LeafBetween
      <4> HIDE DEF leaves
      <4> QED BY <4>1, <4>2
    <3>4. \A n \in InsertInterval(leaves, base[id]) : id \in root.overlap[n]
      <4> HIDE DEF leaves, root
      <4> QED BY <2>2, <2>3, NotedIsCovered
    <3>5. base[id].from \in Int /\ base[id].to \in Int
      BY DEF IsBase
    <3> HIDE DEF leaves, root
    <3>6. /\ Ordered(root.leaves) /\ i \in 1 .. Len(root.leaves)
          /\ root.leaves[i].from <= v /\ v <= root.leaves[i].to
          /\ SubsetOf(root.leaves[i], base[id])
          /\ \A n \in InsertInterval(root.leaves, base[id]) :
                id \in root.overlap[n]
      BY <2>2, <2>3, <3>3, <3>4
    <3> DEFINE s == base[id]
    <3>7. s.from \in Int /\ s.to \in Int /\ SubsetOf(root.leaves[i], s)
      BY <3>5, <3>6
    <3>8. \A n \in InsertInterval(root.leaves, s) : id \in root.overlap[n]
      BY <3>6
    <3>9. v \in Int
      OBVIOUS
    <3> HIDE DEF s
    <3> QED BY ONLY <3>6, <3>7, <3>8, <3>9, CoveredIsFound
  <2>5. ASSUME NEW id \in QuerySingle(root, v, v)
        PROVE  /\ id \in DOMAIN base
               /\ base[id].from <= v /\ v <= base[id].to
    <3> HIDE DEF leaves, root
    <3>1. PICK n \in Nodes(leaves) :
            id \in root.overlap[n] /\ ~Disjoint(SegmentOf(leaves, n), v, v)
      BY <2>2, <2>3, FoundIsNoted
    <3>2. id \in DOMAIN base /\ n \in InsertInterval(leaves, base[id])
      BY <2>2, <3>1
    <3>3. SubsetOf(SegmentOf(leaves, n), base[id])
      BY <2>3, <3>2, NotedIsCovered
    <3>4. SegmentOf(leaves, n).from \in Int /\ SegmentOf(leaves, n).to \in Int
      <4>1. n[1] \in n[1] .. n[2]
        BY <2>3, NodeFacts DEF Ordered
      <4> QED BY <4>1, <2>3, SegmentCovers
    <3>5. base[id].from \in Nat /\ base[id].to \in Nat
      BY <3>2 DEF IsBase
    <3> QED BY <3>1, <3>2, <3>3, <3>4, <3>5 DEF SubsetOf, Disjoint
  <2>6. TreeContains(root, v) <=> QuerySingle(root, v, v) # {}
    BY <2>2 DEF TreeContains
  <2> HIDE DEF root
  <2>7. TreeContains(root, v) <=>
          \E id \in DOMAIN base : base[id].from <= v /\ v <= base[id].to
    BY <2>4, <2>5, <2>6
  <2> QED BY <2>7 DEF root
<1> QED BY <1>1, <1>2
-----------------------------------------------------------------------------
(* The calls and the list                                                  *)

\* An address that is checked is one, or it is not IPv4.
TypeOK ==
    /\ pc \in {"idle", "lookup", "check", "done"}
    /\ ip \in Addresses \cup {NotV4}
    /\ inForce \subseteq Addresses

IInv == TypeOK /\ \A a \in Addresses : TreeContains(tree, a) <=> a \in inForce

\* No list is loaded at first, and no address blocked.
LEMMA InitIInv == Init => IInv
BY DEF Init, BlocklistInit, TreeContains, IInv, TypeOK

\* What a list that loads puts in force is what its tree holds.
LEMMA ReloadStep ==
  ASSUME IInv, NEW n \in 0 .. MaxLines, NEW list \in Lists(n), ReloadList(list)
  PROVE  IInv'
<1>1. TypeOK'
  BY DEF IInv, TypeOK, ReloadList, callVars, Covered
<1>2. CASE LoadFails(list)
  BY <1>1, <1>2 DEF IInv, ReloadList, Reload, blocklistVars
<1>3. CASE ~LoadFails(list)
  <2>1. /\ tree' = Build(Base(list))
        /\ inForce' = Covered(Range(list) \cap Rules)
    BY <1>3 DEF ReloadList, Reload
  <2>2. /\ DOMAIN Base(list) = {i \in DOMAIN list : list[i] \in Rules}
        /\ \A i \in DOMAIN Base(list) :
              list[i] \in Rules /\ Base(list)[i] = ParseCIDR(list[i])
    BY DEF Base
  <2>3. IsFiniteSet(DOMAIN list)
    <3>1. n \in Int /\ DOMAIN list = 1 .. n
      BY BlocklistAssumption DEF Lists
    <3> QED BY <3>1, FS_Interval
  <2>4. IsBase(Base(list))
    <3>1. IsFiniteSet(DOMAIN Base(list))
      BY <2>2, <2>3, FS_Subset
    <3> QED BY <3>1, <2>2, RangeOfRule DEF IsBase
  <2>5. ASSUME NEW a \in Addresses
        PROVE  TreeContains(tree', a) <=> a \in inForce'
    <3>1. a \in Nat
      BY DEF Addresses
    <3>2. TreeContains(tree', a) <=>
            \E i \in DOMAIN Base(list) :
               Base(list)[i].from <= a /\ a <= Base(list)[i].to
      BY <2>1, <2>4, <3>1, TreeCovers
    <3>3. \A i \in DOMAIN Base(list) :
            Base(list)[i].from <= a /\ a <= Base(list)[i].to <=>
              a \div Block[Width - list[i][2]] =
                list[i][1] \div Block[Width - list[i][2]]
      BY <2>2, RangeOfRule
    <3>4. a \in inForce' <=>
            \E r \in Range(list) \cap Rules :
               a \div Block[Width - r[2]] = r[1] \div Block[Width - r[2]]
      BY <2>1 DEF Covered
    <3>5. Range(list) \cap Rules = {list[i] : i \in DOMAIN Base(list)}
      BY <2>2 DEF Range
    <3>6. a \in inForce' <=>
            \E i \in DOMAIN Base(list) :
              a \div Block[Width - list[i][2]] =
                list[i][1] \div Block[Width - list[i][2]]
      BY <3>4, <3>5
    <3> QED BY <3>2, <3>3, <3>6
  <2> QED BY <1>1, <2>5 DEF IInv
<1> QED BY <1>2, <1>3

\* Calls change neither the tree nor what is in force.
LEMMA NextStep == IInv /\ [Next]_vars => IInv'
<1> SUFFICES ASSUME IInv, [Next]_vars PROVE IInv'
  OBVIOUS
<1>1. CASE \E h \in Hosts, p \in {NoPort, 0, 1, 65535, 65536} : Resolve(h, p)
  <2>1. PICK h \in Hosts, p \in {NoPort, 0, 1, 65535, 65536} : Resolve(h, p)
    BY <1>1
  <2>2. /\ UNCHANGED <<blocklistVars, inForce>>
        /\ \/ pc' = "done" /\ ip' = ip
           \/ pc' = "lookup" /\ ip' = ip
           \/ pc' = "check" /\ ip' = h /\ h # Name
    <3>1. CASE p = NoPort
      BY <2>1, <3>1 DEF Resolve, Return
    <3>2. CASE p # NoPort
      <4>1. p \in Int
        BY <3>2
      <4>2. CASE p <= 0 \/ p > 65535
        BY <2>1, <3>2, <4>2 DEF Resolve, Return
      <4>3. CASE ~(p <= 0 \/ p > 65535)
        BY <2>1, <3>2, <4>3 DEF Resolve
      <4> QED BY <4>2, <4>3
    <3> QED BY <3>1, <3>2
  <2>3. TypeOK'
    BY <2>2 DEF IInv, TypeOK, Hosts
  <2>4. tree' = tree
    BY <2>2 DEF blocklistVars
  <2> QED BY <2>2, <2>3, <2>4 DEF IInv
<1>2. CASE ResolveIPv4
  BY <1>2 DEF IInv, TypeOK, ResolveIPv4, Return, blocklistVars
<1>3. CASE Check
  BY <1>3 DEF IInv, TypeOK, Check, Return, blocklistVars
<1>4. CASE Again
  BY <1>4 DEF IInv, TypeOK, Again, blocklistVars
<1>5. CASE \E n \in 0 .. MaxLines : n + read < MaxRead
              /\ \E list \in Lists(n) : ReloadList(list)
  BY <1>5, ReloadStep
<1>6. CASE UNCHANGED vars
  BY <1>6 DEF IInv, TypeOK, vars, callVars, blocklistVars
<1> QED BY <1>1, <1>2, <1>3, <1>4, <1>5, <1>6 DEF Next

\* The invariant holds in every reachable state.
LEMMA Invariance == Spec => []IInv
BY InitIInv, NextStep, PTL DEF Spec

\* An address is refused exactly when a rule of the last list that loaded covers
\* it, whatever lists there were and whenever they were loaded
\* (blocklist.go:32-60, stree.go:40-132, node.go:12-67, resolver.go:43-50).
THEOREM RefusedIffCovered == Spec => []BlockedIffCovered
<1>1. IInv => BlockedIffCovered
  BY NotV4Assumption DEF IInv, TypeOK, BlockedIffCovered, Blocked, Refused
<1> QED BY <1>1, Invariance, PTL
-----------------------------------------------------------------------------
(* Filters                                                                 *)

\* The elements of a sequence that got one more.
LEMMA AppendToSet ==
  ASSUME NEW X, NEW s \in Seq(X), NEW x \in X
  PROVE  ToSet(Append(s, x)) = ToSet(s) \cup {x}
<1>1. DOMAIN s = 1 .. Len(s) /\ Len(s) \in Nat
  OBVIOUS
<1>2. /\ DOMAIN Append(s, x) = 1 .. Len(s) + 1
      /\ \A i \in 1 .. Len(s) : Append(s, x)[i] = s[i]
      /\ Append(s, x)[Len(s) + 1] = x
  OBVIOUS
<1>3. 1 .. Len(s) + 1 = (1 .. Len(s)) \cup {Len(s) + 1}
  BY <1>1
<1> QED BY <1>1, <1>2, <1>3 DEF ToSet

\* The part of a sequence at some places, collected from the left.
Collects(g, s, N, places) ==
    g = [n \in 0 .. N |-> IF n = 0 THEN <<>>
                          ELSE IF n \in places THEN Append(g[n - 1], s[n])
                          ELSE g[n - 1]]

\* Such a collection exists.
LEMMA CollectExists ==
  ASSUME NEW X, NEW N \in Nat, NEW s \in [1 .. N -> X], NEW places
  PROVE  \E g : Collects(g, s, N, places)
<1> DEFINE V == Seq(X)
           next == [p \in V \X (1 .. N) |->
                      IF p[2] \in places THEN Append(p[1], s[p[2]]) ELSE p[1]]
<1>1. <<>> \in V /\ \A q \in V, x \in X : Append(q, x) \in V
  OBVIOUS
<1> HIDE DEF V
<1>2. next \in [V \X (1 .. N) -> V]
  BY <1>1
<1>3. \A q \in V, n \in 1 .. N :
        next[<<q, n>>] = IF n \in places THEN Append(q, s[n]) ELSE q
  OBVIOUS
<1> HIDE DEF next
<1>4. PICK g \in [0 .. N -> V] :
        g[0] = <<>> /\ \A n \in 1 .. N : g[n] = next[<<g[n - 1], n>>]
  <2> DEFINE start == <<>>
  <2>1. start \in V
    BY <1>1
  <2> HIDE DEF start
  <2>2. \E g : PrefixValues(g, V, start, N, next)
    BY <1>2, <2>1, PrefixRecursion
  <2> QED BY <2>2 DEF start, PrefixValues
<1>5. \A n \in 1 .. N :
        g[n] = IF n \in places THEN Append(g[n - 1], s[n]) ELSE g[n - 1]
  <2> SUFFICES ASSUME NEW n \in 1 .. N
               PROVE  g[n] = IF n \in places THEN Append(g[n - 1], s[n])
                             ELSE g[n - 1]
    OBVIOUS
  <2>1. n - 1 \in 0 .. N
    OBVIOUS
  <2>2. g[n - 1] \in V
    BY <2>1
  <2> QED BY <2>2, <1>3, <1>4
<1>6. Collects(g, s, N, places)
  <2>1. g = [n \in 0 .. N |-> g[n]]
    OBVIOUS
  <2>2. \A n \in 0 .. N : n = 0 \/ n \in 1 .. N
    OBVIOUS
  <2>3. \A n \in 0 .. N :
          g[n] = IF n = 0 THEN <<>>
                 ELSE IF n \in places THEN Append(g[n - 1], s[n])
                 ELSE g[n - 1]
    BY <1>4, <1>5, <2>2
  <2> QED BY <2>1, <2>3 DEF Collects
<1> QED BY <1>6

\* It holds the elements at those places.
Picked(s, N, places) == {s[i] : i \in (1 .. N) \cap places}
LEMMA CollectFacts ==
  ASSUME NEW X, NEW N \in Nat, NEW s \in [1 .. N -> X], NEW places,
         NEW g, Collects(g, s, N, places)
  PROVE  /\ g[N] \in Seq(X)
         /\ ToSet(g[N]) = Picked(s, N, places)
<1>1. /\ g[0] = <<>>
      /\ \A n \in 1 .. N :
           g[n] = IF n \in places THEN Append(g[n - 1], s[n]) ELSE g[n - 1]
  <2>1. \A n \in 0 .. N :
          g[n] = IF n = 0 THEN <<>>
                 ELSE IF n \in places THEN Append(g[n - 1], s[n])
                 ELSE g[n - 1]
    BY DEF Collects
  <2> QED BY <2>1
<1> DEFINE At(n) == {s[i] : i \in (1 .. n) \cap places}
           T == {n \in Nat : n <= N => /\ g[n] \in Seq(X)
                                       /\ ToSet(g[n]) = At(n)}
<1>2. 0 \in T
  <2>1. <<>> \in Seq(X) /\ ToSet(<<>>) = {}
    BY DEF ToSet
  <2>2. At(0) = {}
    OBVIOUS
  <2> QED BY <1>1, <2>1, <2>2
<1>3. ASSUME NEW n \in Nat, n \in T PROVE n + 1 \in T
  <2> SUFFICES ASSUME n + 1 <= N
               PROVE  g[n + 1] \in Seq(X) /\ ToSet(g[n + 1]) = At(n + 1)
    OBVIOUS
  <2>1. g[n] \in Seq(X) /\ ToSet(g[n]) = At(n)
    BY <1>3
  <2>2. n + 1 \in 1 .. N /\ (n + 1) - 1 = n /\ s[n + 1] \in X
    OBVIOUS
  <2>3. 1 .. n + 1 = (1 .. n) \cup {n + 1}
    OBVIOUS
  <2> HIDE DEF T
  <2>4. CASE n + 1 \in places
    <3>1. g[n + 1] = Append(g[n], s[n + 1])
      BY <1>1, <2>2, <2>4
    <3>2. At(n + 1) = At(n) \cup {s[n + 1]}
      BY <2>3, <2>4
    <3> HIDE DEF At
    <3>3. ToSet(Append(g[n], s[n + 1])) = ToSet(g[n]) \cup {s[n + 1]}
      BY <2>1, <2>2, AppendToSet
    <3> QED BY <2>1, <2>2, <3>1, <3>2, <3>3
  <2>5. CASE n + 1 \notin places
    <3>1. g[n + 1] = g[n]
      BY <1>1, <2>2, <2>5
    <3>2. At(n + 1) = At(n)
      BY <2>3, <2>5
    <3> QED BY <2>1, <3>1, <3>2
  <2> QED BY <2>4, <2>5
<1>4. N \in T
  <2> HIDE DEF T
  <2> QED BY <1>2, <1>3, SetInduction
<1> QED BY <1>4 DEF Picked

\* What is kept of some URLs are those that are supported.
LEMMA KeepFacts ==
  ASSUME NEW X, NEW urls \in Seq(X), NEW supported
  PROVE  /\ Keep(urls, supported) \in Seq(X)
         /\ ToSet(Keep(urls, supported)) = ToSet(urls) \cap supported
<1> DEFINE N == Len(urls)
           places == {n \in 1 .. N : urls[n] \in supported}
           Eq(g) == g = [n \in 0 .. N |->
                           IF n = 0 THEN <<>>
                           ELSE IF urls[n] \in supported
                                THEN Append(g[n - 1], urls[n])
                           ELSE g[n - 1]]
           kept == CHOOSE g : Eq(g)
<1>1. N \in Nat /\ urls \in [1 .. N -> X] /\ DOMAIN urls = 1 .. N
  OBVIOUS
<1>2. Keep(urls, supported) = kept[N]
  BY DEF Keep
<1>3. ASSUME NEW g PROVE Eq(g) <=> Collects(g, urls, N, places)
  <2>1. \A n \in 0 .. N : n # 0 => (n \in places <=> urls[n] \in supported)
    BY <1>1
  <2> HIDE DEF N, places
  <2>2. [n \in 0 .. N |-> IF n = 0 THEN <<>>
                          ELSE IF urls[n] \in supported
                               THEN Append(g[n - 1], urls[n])
                          ELSE g[n - 1]] =
        [n \in 0 .. N |-> IF n = 0 THEN <<>>
                          ELSE IF n \in places THEN Append(g[n - 1], urls[n])
                          ELSE g[n - 1]]
    BY <2>1
  <2> QED BY <2>2 DEF Collects
<1> HIDE DEF N, Eq
<1>4. \E g : Collects(g, urls, N, places)
  <2> HIDE DEF places
  <2> QED BY <1>1, CollectExists
<1>5. Collects(kept, urls, N, places)
  <2>1. \E g : Eq(g)
    BY <1>3, <1>4
  <2>2. Eq(kept)
    BY <2>1
  <2> QED BY <2>2, <1>3
<1> HIDE DEF kept
<1>6. /\ kept[N] \in Seq(X)
      /\ ToSet(kept[N]) = Picked(urls, N, places)
  <2> HIDE DEF places
  <2> QED BY <1>1, <1>5, CollectFacts
<1>7. Picked(urls, N, places) = ToSet(urls) \cap supported
  BY <1>1 DEF ToSet, Picked
<1> QED BY <1>2, <1>6, <1>7

\* The tiers that are kept have URLs, and together all that are supported.
LEMMA KeepTiersFacts ==
  ASSUME NEW X, NEW tiers \in Seq(Seq(X))
  PROVE  /\ \A tier \in ToSet(KeepTiers(tiers)) : tier # <<>>
         /\ UNION {ToSet(tier) : tier \in ToSet(KeepTiers(tiers))} =
              TrackerURLs \cap UNION {ToSet(tier) : tier \in ToSet(tiers)}
<1> DEFINE Kept(n) == Keep(tiers[n], TrackerURLs)
           N == Len(tiers)
           s == [n \in 1 .. N |-> Kept(n)]
           places == {n \in 1 .. N : Kept(n) # <<>>}
           Eq(g) == g = [n \in 0 .. N |->
                           IF n = 0 THEN <<>>
                           ELSE IF Kept(n) = <<>> THEN g[n - 1]
                           ELSE Append(g[n - 1], Kept(n))]
           kept == CHOOSE g : Eq(g)
<1>1. /\ N \in Nat /\ DOMAIN tiers = 1 .. N
      /\ \A n \in 1 .. N : tiers[n] \in Seq(X)
  OBVIOUS
<1>2. KeepTiers(tiers) = kept[N]
  BY DEF KeepTiers
<1>3. ASSUME NEW g PROVE Eq(g) <=> Collects(g, s, N, places)
  <2>1. \A n \in 0 .. N : n # 0 =>
          /\ n \in places <=> Kept(n) # <<>>
          /\ s[n] = Kept(n)
    BY <1>1
  <2> HIDE DEF N, places, s
  <2>2. [n \in 0 .. N |-> IF n = 0 THEN <<>>
                          ELSE IF Kept(n) = <<>> THEN g[n - 1]
                          ELSE Append(g[n - 1], Kept(n))] =
        [n \in 0 .. N |-> IF n = 0 THEN <<>>
                          ELSE IF n \in places THEN Append(g[n - 1], s[n])
                          ELSE g[n - 1]]
    BY <2>1
  <2> QED BY <2>2 DEF Collects
<1>4. /\ \A n \in 1 .. N : s[n] = Kept(n)
      /\ s \in [1 .. N -> Seq(X)]
  BY <1>1, KeepFacts
<1> HIDE DEF N, Eq, s
<1>5. \E g : Collects(g, s, N, places)
  <2> HIDE DEF places
  <2> QED BY <1>1, <1>4, CollectExists
<1>6. Collects(kept, s, N, places)
  <2>1. \E g : Eq(g)
    BY <1>3, <1>5
  <2>2. Eq(kept)
    BY <2>1
  <2> QED BY <2>2, <1>3
<1> HIDE DEF kept
<1>7. ToSet(kept[N]) = Picked(s, N, places)
  <2> HIDE DEF places
  <2> QED BY <1>1, <1>4, <1>6, CollectFacts
<1>8. ToSet(KeepTiers(tiers)) = {Kept(n) : n \in places}
  BY <1>2, <1>4, <1>7 DEF Picked
<1>9. ToSet(tiers) = {tiers[n] : n \in 1 .. N}
  BY <1>1 DEF ToSet
<1>10. \A n \in 1 .. N : ToSet(Kept(n)) = ToSet(tiers[n]) \cap TrackerURLs
  BY <1>1, KeepFacts
<1>11. \A n \in (1 .. N) \ places : ToSet(Kept(n)) = {}
  BY DEF ToSet
<1>12. UNION {ToSet(Kept(n)) : n \in places} =
         UNION {ToSet(tiers[n]) \cap TrackerURLs : n \in 1 .. N}
  <2>1. places \subseteq 1 .. N
    OBVIOUS
  <2> HIDE DEF places
  <2> QED BY <1>10, <1>11, <2>1
<1>13. \A n \in places : Kept(n) # <<>>
  OBVIOUS
<1> HIDE DEF places
<1>14. \A tier \in ToSet(KeepTiers(tiers)) : tier # <<>>
  BY <1>8, <1>13
<1>15. UNION {ToSet(tier) : tier \in ToSet(KeepTiers(tiers))} =
         UNION {ToSet(Kept(n)) : n \in places}
  BY <1>8
<1>16. UNION {ToSet(tier) : tier \in ToSet(tiers)} =
         UNION {ToSet(tiers[n]) : n \in 1 .. N}
  BY <1>9
<1>17. UNION {ToSet(tiers[n]) \cap TrackerURLs : n \in 1 .. N} =
         TrackerURLs \cap UNION {ToSet(tiers[n]) : n \in 1 .. N}
  OBVIOUS
<1> QED BY <1>12, <1>14, <1>15, <1>16, <1>17, Zenon
-----------------------------------------------------------------------------
(* Sums and pieces                                                         *)

\* Quotient and remainder are unique.
LEMMA Remainder ==
  ASSUME NEW m \in Nat \ {0}, NEW k \in Int, NEW r \in 0 .. m - 1
  PROVE  (m * k + r) % m = r /\ (m * k + r) \div m = k
OBVIOUS

\* They exist.
LEMMA DivMod ==
  ASSUME NEW m \in Nat \ {0}, NEW a \in Int
  PROVE  /\ a = m * (a \div m) + (a % m)
         /\ a % m \in 0 .. m - 1 /\ a \div m \in Int
OBVIOUS

\* A multiple of the modulus does not change a remainder.
LEMMA ShiftedRemainder ==
  ASSUME NEW m \in Nat \ {0}, NEW k \in Int, NEW a \in Int
  PROVE  (m * k + a) % m = a % m
<1>1. /\ a = m * (a \div m) + (a % m)
      /\ a % m \in 0 .. m - 1 /\ a \div m \in Int
  BY DivMod
<1> DEFINE q == a \div m
           r == a % m
<1> HIDE DEF q, r
<1>2. r \in 0 .. m - 1 /\ q \in Int /\ a = m * q + r
  BY <1>1 DEF q, r
<1>3. m * k + a = m * (k + q) + r
  BY <1>2
<1>4. (m * (k + q) + r) % m = r
  BY <1>2, Remainder
<1> QED BY <1>3, <1>4 DEF r

\* An int64 wraps around once it is added to, or each time: it is the same.
LEMMA WrapOnce ==
  ASSUME NEW a \in Int, NEW b \in Int
  PROVE  Int64(Int64(a) + b) = Int64(a + b)
<1> DEFINE m == 2 * Half
           x == a + Half
           q == x \div m
           r == x % m
<1>1. m \in Nat \ {0} /\ Half \in Nat
  BY MetainfoAssumption
<1>2. x \in Int
  BY <1>1
<1>3. q \in Int /\ r \in Int /\ x = m * q + r
  <2> HIDE DEF m, x
  <2> QED BY <1>1, <1>2, DivMod
<1>4. Int64(a) = r - Half
  BY DEF Int64
<1>5. Int64(a + b) = ((a + b + Half) % m) - Half
  BY DEF Int64
<1>6. Int64(Int64(a) + b) = ((r - Half + b + Half) % m) - Half
  BY <1>4 DEF Int64
<1>7. r - Half + b + Half = r + b /\ a + b + Half = x + b
  <2> HIDE DEF r, q, m
  <2> QED BY <1>1, <1>3
<1>8. x + b = m * q + (r + b)
  <2> HIDE DEF m, x, q, r
  <2> QED BY <1>1, <1>3
<1> HIDE DEF m, x, q, r
<1>9. (m * q + (r + b)) % m = (r + b) % m
  <2> DEFINE c == r + b
  <2>1. c \in Int /\ q \in Int /\ m \in Nat \ {0}
    BY <1>1, <1>3
  <2> HIDE DEF c
  <2>2. (m * q + c) % m = c % m
    BY ONLY <2>1, ShiftedRemainder
  <2> QED BY <2>2 DEF c
<1> QED BY <1>5, <1>6, <1>7, <1>8, <1>9

\* It has the type, and a number that has it is left as it is.
LEMMA Int64Facts ==
  ASSUME NEW a \in Int
  PROVE  Int64(a) \in Int64s /\ (a \in Int64s => Int64(a) = a)
<1> DEFINE m == 2 * Half
           x == a + Half
<1>1. m \in Nat \ {0} /\ Half \in Nat /\ x \in Int
  BY MetainfoAssumption
<1>2. x % m \in 0 .. m - 1
  <2> HIDE DEF m, x
  <2> QED BY <1>1, DivMod
<1>3. Int64(a) = (x % m) - Half
  BY DEF Int64
<1>4. a \in Int64s => x % m = x
  <2> SUFFICES ASSUME a \in Int64s PROVE x % m = x
    OBVIOUS
  <2>1. x \in 0 .. m - 1
    BY <1>1 DEF Int64s
  <2> HIDE DEF m, x
  <2>2. (m * 0 + x) % m = x
    BY <1>1, <2>1, Remainder
  <2>3. m * 0 + x = x
    BY <1>1
  <2> QED BY <2>2, <2>3
<1>5. Int64(a) \in Int64s
  <2> DEFINE r == x % m
  <2>1. r \in 0 .. m - 1 /\ Int64(a) = r - Half
    BY <1>2, <1>3
  <2> HIDE DEF r
  <2> QED BY <1>1, <2>1 DEF Int64s
<1>6. a \in Int64s => Int64(a) = a
  <2> HIDE DEF m
  <2> QED BY <1>1, <1>3, <1>4
<1> QED BY <1>5, <1>6

\* The number of pieces of a torrent whose piece data passes the check.
LEMMA PiecesCover ==
  ASSUME NEW pl \in Nat \ {0}, NEW np \in Nat, NEW len \in Int64s,
         pl * np < Half,
         ~(Int64(pl * np - len) >= pl), ~(Int64(pl * np - len) < 0)
  PROVE  np = (len + pl - 1) \div pl
<1> DEFINE P == pl * np
           m == 2 * Half
<1>1. P \in Nat /\ P < Half /\ m \in Nat \ {0} /\ Half \in Nat
  BY MetainfoAssumption
<1>2. len \in Int /\ -Half <= len /\ len <= Half - 1
  BY <1>1 DEF Int64s
<1>3. Int64(P - len) = ((P - len + Half) % m) - Half
  BY DEF Int64
<1>4. Int64(P - len) \in Int
  <2> HIDE DEF P
  <2> QED BY <1>1, <1>2, Int64Facts DEF Int64s
<1>5. ~(Int64(P - len) >= pl) /\ ~(Int64(P - len) < 0)
  OBVIOUS
<1>6. P - len < Half
  <2> SUFFICES ASSUME P - len >= Half PROVE FALSE
    <3> HIDE DEF P
    <3> QED BY <1>1, <1>2
  <2> DEFINE r == P - len - Half
  <2>1. r \in 0 .. m - 1 /\ r < Half
    <3> HIDE DEF P
    <3> QED BY <1>1, <1>2
  <2>2. m * 1 + r = P - len + Half
    <3> HIDE DEF P
    <3> QED BY <1>1, <1>2
  <2> HIDE DEF r, P, m
  <2>3. (m * 1 + r) % m = r
    BY <1>1, <2>1, Remainder
  <2>4. Int64(P - len) = r - Half
    BY <1>3, <2>2, <2>3
  <2> QED BY <1>1, <1>5, <2>1, <2>4
<1>7. P - len \in Int64s
  <2>1. P - len >= -Half
    <3> HIDE DEF P
    <3> QED BY <1>1, <1>2
  <2> HIDE DEF P
  <2> QED BY <1>1, <1>2, <1>6, <2>1 DEF Int64s
<1>8. Int64(P - len) = P - len
  <2> HIDE DEF P
  <2> QED BY <1>1, <1>2, <1>7, Int64Facts
<1> DEFINE r == pl - 1 - (P - len)
<1>9. r \in 0 .. pl - 1 /\ len + pl - 1 = P + r
  <2> HIDE DEF P
  <2> QED BY <1>1, <1>2, <1>5, <1>8
<1> HIDE DEF r
<1>10. (pl * np + r) \div pl = np
  BY ONLY pl \in Nat \ {0}, np \in Int, <1>9, Remainder
<1> QED BY <1>9, <1>10

\* The sum that wraps around at every file is the sum, wrapped around once.
LEMMA TotalIsSum ==
  ASSUME NEW N \in Nat, NEW fs, NEW gs, Len(fs) = N, Len(gs) = N,
         \A n \in 1 .. N : fs[n].length \in Int /\ gs[n].length = fs[n].length
  PROVE  /\ Total(fs) \in Int64s
         /\ Total(fs) = Int64(SumOfLengths(gs))
<1> DEFINE Wraps(g) ==
             g = [n \in 0 .. N |->
                    IF n = 0 THEN 0 ELSE Int64(g[n - 1] + fs[n].length)]
           Sums(g) ==
             g = [n \in 0 .. N |->
                    IF n = 0 THEN 0 ELSE g[n - 1] + gs[n].length]
           total == CHOOSE g : Wraps(g)
           sum == CHOOSE g : Sums(g)
           V == Int
           zero == 0
           wrap == [p \in V \X (1 .. N) |-> Int64(p[1] + fs[p[2]].length)]
           add == [p \in V \X (1 .. N) |-> p[1] + gs[p[2]].length]
<1>1. Total(fs) = total[N] /\ SumOfLengths(gs) = sum[N]
  BY DEF Total, SumOfLengths
<1>2. wrap \in [V \X (1 .. N) -> V] /\ add \in [V \X (1 .. N) -> V]
  <2>1. \A p \in Int \X (1 .. N) : p[1] + fs[p[2]].length \in Int
    OBVIOUS
  <2>2. \A x \in Int : Int64(x) \in Int
    BY Int64Facts, MetainfoAssumption DEF Int64s
  <2>3. \A p \in Int \X (1 .. N) : p[1] + gs[p[2]].length \in Int
    OBVIOUS
  <2> QED BY <2>1, <2>2, <2>3
<1>3. /\ \A x \in Int, n \in 1 .. N : wrap[<<x, n>>] = Int64(x + fs[n].length)
      /\ \A x \in Int, n \in 1 .. N : add[<<x, n>>] = x + gs[n].length
  OBVIOUS
<1> HIDE DEF wrap, add
<1>4. PICK g, h : /\ PrefixValues(g, V, zero, N, wrap)
                  /\ PrefixValues(h, V, zero, N, add)
  <2>1. zero \in V
    OBVIOUS
  <2> HIDE DEF V, zero
  <2> QED BY <1>2, <2>1, PrefixRecursion
<1>5. /\ g \in [0 .. N -> Int] /\ h \in [0 .. N -> Int]
      /\ g[0] = 0 /\ h[0] = 0
      /\ \A n \in 1 .. N : g[n] = wrap[<<g[n - 1], n>>]
      /\ \A n \in 1 .. N : h[n] = add[<<h[n - 1], n>>]
  BY <1>4 DEF PrefixValues
<1>6. Wraps(g) /\ Sums(h)
  <2>1. g = [n \in 0 .. N |-> g[n]] /\ h = [n \in 0 .. N |-> h[n]]
    BY <1>5
  <2>2. \A n \in 1 .. N : /\ n - 1 \in 0 .. N
                          /\ g[n - 1] \in Int /\ h[n - 1] \in Int
    <3>1. \A n \in 1 .. N : n - 1 \in 0 .. N
      OBVIOUS
    <3> QED BY <1>5, <3>1
  <2>3. \A n \in 1 .. N : /\ g[n] = Int64(g[n - 1] + fs[n].length)
                          /\ h[n] = h[n - 1] + gs[n].length
    BY <1>3, <1>5, <2>2
  <2>4. \A n \in 0 .. N : n = 0 \/ n \in 1 .. N
    OBVIOUS
  <2>5. \A n \in 0 .. N :
          /\ g[n] = IF n = 0 THEN 0 ELSE Int64(g[n - 1] + fs[n].length)
          /\ h[n] = IF n = 0 THEN 0 ELSE h[n - 1] + gs[n].length
    BY <1>5, <2>3, <2>4
  <2> QED BY <2>1, <2>5
<1>7. Wraps(total) /\ Sums(sum)
  <2> HIDE DEF Wraps, Sums
  <2> QED BY <1>6
<1> HIDE DEF total, sum
<1>8. /\ total[0] = 0 /\ sum[0] = 0
      /\ \A n \in 1 .. N : total[n] = Int64(total[n - 1] + fs[n].length)
      /\ \A n \in 1 .. N : sum[n] = sum[n - 1] + fs[n].length
  <2>1. \A n \in 0 .. N :
          total[n] = IF n = 0 THEN 0 ELSE Int64(total[n - 1] + fs[n].length)
    BY <1>7
  <2>2. \A n \in 0 .. N :
          sum[n] = IF n = 0 THEN 0 ELSE sum[n - 1] + gs[n].length
    BY <1>7
  <2> QED BY <2>1, <2>2
<1> HIDE DEF Wraps, Sums
<1> DEFINE T == {n \in Nat : n <= N => /\ sum[n] \in Int
                                       /\ total[n] = Int64(sum[n])}
<1>9. 0 \in T
  BY <1>8, Int64Facts, MetainfoAssumption DEF Int64s
<1>10. ASSUME NEW n \in Nat, n \in T PROVE n + 1 \in T
  <2> SUFFICES ASSUME n + 1 <= N
               PROVE  sum[n + 1] \in Int /\ total[n + 1] = Int64(sum[n + 1])
    OBVIOUS
  <2>1. sum[n] \in Int /\ total[n] = Int64(sum[n])
    BY <1>10
  <2>2. n + 1 \in 1 .. N /\ (n + 1) - 1 = n /\ fs[n + 1].length \in Int
    OBVIOUS
  <2>3. /\ total[n + 1] = Int64(Int64(sum[n]) + fs[n + 1].length)
        /\ sum[n + 1] = sum[n] + fs[n + 1].length
    BY <1>8, <2>1, <2>2
  <2> DEFINE a == sum[n]
             b == fs[n + 1].length
  <2>4. a \in Int /\ b \in Int
    BY <2>1, <2>2
  <2> HIDE DEF a, b
  <2>5. Int64(Int64(a) + b) = Int64(a + b) /\ a + b \in Int
    BY ONLY <2>4, WrapOnce
  <2> QED BY <2>3, <2>5 DEF a, b
<1>11. N \in T
  <2> HIDE DEF T
  <2> QED BY <1>9, <1>10, SetInduction
<1> QED BY <1>1, <1>11, Int64Facts
-----------------------------------------------------------------------------
(* Names and paths                                                         *)

\* The extension of a name is a part of it.
LEMMA ExtTyped ==
  ASSUME NEW X, NEW s \in Seq(X)
  PROVE  Ext(s) \in Seq(X)
<1> DEFINE dots == {k \in DOMAIN s : s[k] = "."
                      /\ \A j \in k .. Len(s) : s[j] # "/"}
           last == CHOOSE k \in dots : \A j \in dots : j <= k
<1>1. DOMAIN s = 1 .. Len(s) /\ Len(s) \in Nat
  OBVIOUS
<1>2. CASE dots = {}
  <2>1. Ext(s) = <<>>
    BY <1>2 DEF Ext
  <2> QED BY <2>1
<1>3. CASE dots # {}
  <2> DEFINE T == {Len(s) - k : k \in dots}
  <2>1. T \in SUBSET Nat /\ T # {}
    BY <1>1, <1>3
  <2>2. PICK m \in T : \A k \in T : m <= k
    <3> HIDE DEF T
    <3> QED BY <2>1, NatLeast
  <2>3. PICK k \in dots : m = Len(s) - k
    BY <2>2
  <2>4. \A j \in dots : j <= k
    <3> SUFFICES ASSUME NEW j \in dots PROVE j <= k
      OBVIOUS
    <3>1. m <= Len(s) - j
      BY <2>2
    <3> QED BY <3>1, <2>3, <1>1
  <2>5. last \in dots
    <3> HIDE DEF dots
    <3> QED BY <2>3, <2>4
  <2>6. Ext(s) = SubSeq(s, last, Len(s))
    BY <1>3 DEF Ext
  <2>7. last \in 1 .. Len(s)
    BY <2>5, <1>1
  <2> HIDE DEF last
  <2> QED BY <1>1, <2>6, <2>7
<1> QED BY <1>2, <1>3

\* A name that is cut has the greatest length.
LEMMA TrimFacts ==
  ASSUME NEW X, NEW s \in Seq(X)
  PROVE  /\ TrimName(s) \in Seq(X)
         /\ Len(s) <= MaxName => TrimName(s) = s
         /\ Len(s) > MaxName => Len(TrimName(s)) = MaxName
<1> DEFINE e == Ext(s)
<1>1. s \in Seq(X) /\ e \in Seq(X) /\ Len(s) \in Nat /\ Len(e) \in Nat
  BY ExtTyped
<1> HIDE DEF e
<1>2. MaxName \in Nat
  BY MetainfoAssumption
<1>3. CASE Len(s) <= MaxName
  BY <1>1, <1>2, <1>3 DEF TrimName
<1>4. CASE Len(s) > MaxName /\ Len(e) > MaxName
  <2>1. TrimName(s) = SubSeq(s, 1, MaxName)
    BY <1>1, <1>2, <1>4 DEF TrimName, e
  <2> QED BY <1>1, <1>2, <1>4, <2>1
<1>5. CASE Len(s) > MaxName /\ ~(Len(e) > MaxName)
  <2> DEFINE n == MaxName - Len(e)
             start == SubSeq(s, 1, n)
  <2>1. TrimName(s) = start \o e
    BY <1>1, <1>2, <1>5 DEF TrimName, e
  <2>2. n \in 0 .. Len(s) /\ n + Len(e) = MaxName
    BY <1>1, <1>2, <1>5
  <2>3. start \in Seq(X) /\ Len(start) = n
    <3> HIDE DEF n
    <3> QED BY <1>1, <2>2
  <2> HIDE DEF start, n
  <2>4. start \o e \in Seq(X) /\ Len(start \o e) = n + Len(e)
    BY <1>1, <2>2, <2>3
  <2> QED BY <1>1, <1>2, <1>5, <2>1, <2>2, <2>4
<1> QED BY <1>1, <1>2, <1>3, <1>4, <1>5

\* No other name is made into ".." by cutting it and replacing its separators.
LEMMA OnlyDotDot ==
  ASSUME NEW X, NEW s \in Seq(X), TruncateName(s) = DotDot
  PROVE  s = DotDot
<1> DEFINE t == TrimName(s)
<1>1. t \in Seq(X) /\ DOMAIN t = 1 .. Len(t) /\ Len(t) \in Nat
  BY TrimFacts
<1> HIDE DEF t
<1>2. TruncateName(s) = [k \in DOMAIN t |-> IF t[k] = "/" THEN "_" ELSE t[k]]
  BY DEF TruncateName, t
<1>3. DOMAIN t = 1 .. 2
  <2>1. DOMAIN TruncateName(s) = DOMAIN t
    BY <1>2
  <2>2. DOMAIN DotDot = 1 .. 2
    BY DEF DotDot
  <2> QED BY <2>1, <2>2
<1>4. Len(t) = 2
  <2>1. \A k \in Nat : k \in 1 .. Len(t) <=> k \in 1 .. 2
    <3>1. DOMAIN t = 1 .. Len(t)
      BY <1>1
    <3> QED BY ONLY <3>1, <1>3, Zenon
  <2>2. 2 <= Len(t)
    BY <1>1, <2>1
  <2>3. Len(t) \in 1 .. 2
    BY <1>1, <2>1, <2>2
  <2> QED BY <1>1, <2>2, <2>3
<1>5. \A k \in 1 .. 2 : t[k] = "."
  <2> SUFFICES ASSUME NEW k \in 1 .. 2 PROVE t[k] = "."
    OBVIOUS
  <2>1. TruncateName(s)[k] = IF t[k] = "/" THEN "_" ELSE t[k]
    BY <1>2, <1>3
  <2>2. TruncateName(s)[k] = "."
    BY DEF DotDot
  <2> QED BY <2>1, <2>2
<1>6. t = DotDot
  BY <1>1, <1>4, <1>5 DEF DotDot
<1>7. MaxName \in Nat /\ MaxName > 2 /\ Len(s) \in Nat
  BY MetainfoAssumption
<1>8. /\ Len(s) <= MaxName => t = s
      /\ Len(s) > MaxName => Len(t) = MaxName
  BY TrimFacts DEF t
<1> QED BY <1>4, <1>6, <1>7, <1>8

\* A path is cleaned part by part.
LEMMA JoinSteps ==
  ASSUME NEW Y, NEW parts \in Seq(Y)
  PROVE  \E path : /\ path[0] = <<>> /\ path[Len(parts)] = Join(parts)
                   /\ \A n \in 1 .. Len(parts) :
                        /\ path[n - 1] \in Seq(Y)
                        /\ path[n] = Step(path[n - 1], parts[n])
<1> DEFINE N == Len(parts)
           V == Seq(Y)
           empty == <<>>
           next == [p \in V \X (1 .. N) |-> Step(p[1], parts[p[2]])]
           Eq(g) == g = [n \in 0 .. N |->
                           IF n = 0 THEN <<>> ELSE Step(g[n - 1], parts[n])]
           path == CHOOSE g : Eq(g)
<1>1. N \in Nat /\ \A n \in 1 .. N : parts[n] \in Y
  OBVIOUS
<1>2. ASSUME NEW q \in V, NEW p \in Y PROVE Step(q, p) \in V
  <2>1. Append(q, p) \in V
    OBVIOUS
  <2>2. q # <<>> => Front(q) \in V
    BY DEF Front
  <2> QED BY <2>1, <2>2 DEF Step
<1>3. empty \in V
  OBVIOUS
<1>4. Join(parts) = path[N]
  BY DEF Join
<1> HIDE DEF V, N
<1>5. next \in [V \X (1 .. N) -> V]
  BY <1>1, <1>2
<1>6. \A q \in V, n \in 1 .. N : next[<<q, n>>] = Step(q, parts[n])
  OBVIOUS
<1>7. PICK g : PrefixValues(g, V, empty, N, next)
  <2> HIDE DEF empty, next
  <2> QED BY <1>1, <1>3, <1>5, PrefixRecursion
<1> HIDE DEF next
<1>8. /\ g \in [0 .. N -> V] /\ g[0] = <<>>
      /\ \A n \in 1 .. N : g[n] = next[<<g[n - 1], n>>]
  BY <1>7 DEF PrefixValues
<1>9. Eq(g)
  <2>1. \A n \in 1 .. N : n - 1 \in 0 .. N /\ g[n - 1] \in V
    <3>1. \A n \in 1 .. N : n - 1 \in 0 .. N
      BY <1>1
    <3> QED BY <1>8, <3>1
  <2>2. \A n \in 1 .. N : g[n] = Step(g[n - 1], parts[n])
    BY <1>6, <1>8, <2>1
  <2>3. \A n \in 0 .. N : n = 0 \/ n \in 1 .. N
    BY <1>1
  <2>4. \A n \in 0 .. N :
          g[n] = IF n = 0 THEN <<>> ELSE Step(g[n - 1], parts[n])
    BY <1>8, <2>2, <2>3
  <2> QED BY <1>8, <2>4
<1>10. Eq(path)
  <2> HIDE DEF Eq
  <2> QED BY <1>9
<1> HIDE DEF path
<1>11. /\ path[0] = <<>>
       /\ \A n \in 1 .. N : path[n] = Step(path[n - 1], parts[n])
  <2>1. \A n \in 0 .. N :
          path[n] = IF n = 0 THEN <<>> ELSE Step(path[n - 1], parts[n])
    BY <1>10
  <2> QED BY <1>1, <2>1
<1> HIDE DEF Eq
<1> DEFINE T == {n \in Nat : n <= N => path[n] \in V}
<1>12. 0 \in T
  BY <1>3, <1>11
<1>13. ASSUME NEW n \in Nat, n \in T PROVE n + 1 \in T
  <2> SUFFICES ASSUME n + 1 <= N PROVE path[n + 1] \in V
    OBVIOUS
  <2>1. path[n] \in V /\ n + 1 \in 1 .. N /\ (n + 1) - 1 = n
    BY <1>1, <1>13
  <2> QED BY <1>1, <1>2, <1>11, <2>1
<1>14. \A n \in 1 .. N : n - 1 \in Nat /\ n - 1 <= N /\ n - 1 \in T
  <2> HIDE DEF T
  <2> QED BY <1>1, <1>12, <1>13, SetInduction
<1>15. \A n \in 1 .. N : path[n - 1] \in V
  BY <1>14
<1> HIDE DEF T
<1> QED BY <1>4, <1>11, <1>15 DEF V, N

\* When no part but the first is "..", nothing but the first part of the cleaned
\* path can be.
LEMMA DotDotFirst ==
  ASSUME NEW Y, NEW parts \in Seq(Y), parts # <<>>,
         \A n \in 2 .. Len(parts) : parts[n] # DotDot,
         NEW k \in DOMAIN Join(parts), Join(parts)[k] = DotDot
  PROVE  k = 1 /\ parts[1] = DotDot
<1> DEFINE N == Len(parts)
           First(p) == \A j \in DOMAIN p :
                         p[j] = DotDot => j = 1 /\ parts[1] = DotDot
<1>1. N \in Nat \ {0}
  OBVIOUS
<1>2. PICK path : /\ path[0] = <<>> /\ path[N] = Join(parts)
                  /\ \A n \in 1 .. N : /\ path[n - 1] \in Seq(Y)
                                      /\ path[n] = Step(path[n - 1], parts[n])
  BY JoinSteps
<1> DEFINE T == {n \in Nat : n + 1 <= N => First(path[n + 1])}
<1>3. 0 \in T
  <2>1. 1 \in 1 .. N /\ 1 - 1 = 0
    BY <1>1
  <2>2. path[1] = Step(<<>>, parts[1])
    BY <1>2, <2>1
  <2>3. path[1] = <<>> \/ path[1] = <<parts[1]>>
    BY <2>2 DEF Step
  <2>4. First(<<>>) /\ First(<<parts[1]>>)
    OBVIOUS
  <2> HIDE DEF First, N
  <2> QED BY <2>3, <2>4
<1>4. ASSUME NEW n \in Nat, n \in T PROVE n + 1 \in T
  <2> SUFFICES ASSUME (n + 1) + 1 <= N PROVE First(path[(n + 1) + 1])
    OBVIOUS
  <2> DEFINE m == (n + 1) + 1
             q == path[m - 1]
             p == parts[m]
  <2>1. m \in 1 .. N /\ m \in 2 .. N /\ m - 1 = n + 1 /\ n + 1 <= N
    BY <1>1
  <2>2. First(q)
    BY <1>4, <2>1
  <2>3. q \in Seq(Y) /\ path[m] = Step(q, p) /\ p # DotDot
    BY <1>2, <2>1
  <2> HIDE DEF m, q, p
  <2>4. path[m] = q \/ path[m] = Append(q, p)
    BY <2>3 DEF Step
  <2>5. First(Append(q, p))
    <3>1. /\ DOMAIN Append(q, p) = 1 .. Len(q) + 1
          /\ Append(q, p)[Len(q) + 1] = p
          /\ \A j \in 1 .. Len(q) : Append(q, p)[j] = q[j]
          /\ DOMAIN q = 1 .. Len(q)
      BY <2>3
    <3>2. \A j \in 1 .. Len(q) + 1 : j \in 1 .. Len(q) \/ j = Len(q) + 1
      BY <2>3
    <3> QED BY <2>2, <2>3, <3>1, <3>2
  <2>6. First(path[m])
    <3> HIDE DEF First
    <3> QED BY <2>2, <2>4, <2>5
  <2> QED BY <2>6 DEF m
<1>5. First(path[N])
  <2>1. N - 1 \in Nat /\ (N - 1) + 1 = N /\ N <= N
    BY <1>1
  <2>2. N - 1 \in T
    <3> HIDE DEF T, N
    <3> QED BY <1>3, <1>4, <2>1, SetInduction
  <2> HIDE DEF N, First
  <2> QED BY <2>1, <2>2
<1> QED BY <1>2, <1>5

\* The sum of one length.
LEMMA TotalOfOne ==
  ASSUME NEW fs, Len(fs) = 1, fs[1].length \in Int64s
  PROVE  Total(fs) = fs[1].length
<1> DEFINE g == [n \in 0 .. 1 |-> IF n = 0 THEN 0 ELSE fs[1].length]
           Eq(h) == h = [n \in 0 .. 1 |->
                           IF n = 0 THEN 0 ELSE Int64(h[n - 1] + fs[n].length)]
           total == CHOOSE h : Eq(h)
<1>1. fs[1].length \in Int /\ Int64(fs[1].length) = fs[1].length
  <2>1. fs[1].length \in Int
    BY MetainfoAssumption DEF Int64s
  <2> QED BY <2>1, Int64Facts
<1>2. Eq(g)
  <2>1. g[0] = 0 /\ g[1] = fs[1].length
    OBVIOUS
  <2>2. 0 .. 1 = {0, 1} /\ 1 - 1 = 0
    OBVIOUS
  <2>3. 0 + fs[1].length = fs[1].length
    BY <1>1
  <2>4. \A n \in 0 .. 1 :
          g[n] = IF n = 0 THEN 0 ELSE Int64(g[n - 1] + fs[n].length)
    <3> HIDE DEF g
    <3> QED BY <1>1, <2>1, <2>2, <2>3
  <2>5. g = [n \in 0 .. 1 |-> g[n]]
    OBVIOUS
  <2> HIDE DEF g
  <2> QED BY <2>4, <2>5
<1>3. Eq(total)
  <2> HIDE DEF Eq
  <2> QED BY <1>2
<1>4. Total(fs) = total[1]
  BY DEF Total
<1> HIDE DEF total
<1>5. total[0] = 0 /\ total[1] = Int64(total[0] + fs[1].length)
  BY <1>3
<1> QED BY <1>1, <1>4, <1>5

\* A name is text, the one made of the hash too.
LEMMA NameTyped ==
  ASSUME NEW it \in Infos
  PROVE  NameOf(it) \in Seq(STRING \cup {"h"})
<1>1. it.name \in Seq(STRING) /\ it.nameUTF8 \in Seq(STRING)
  BY DEF Infos, Names
<1>2. HashName \in Seq({"h"})
  BY DEF HashName
<1> QED BY <1>1, <1>2 DEF NameOf

\* A part that is ".." is refused.
LEMMA DotDotTrims == TrimsToDotDot(DotDot)
<1>1. 1 \in 1 .. Len(DotDot) - 1 /\ DOMAIN DotDot \ {1, 1 + 1} = {}
  BY DEF DotDot
<1>2. SubSeq(DotDot, 1, 1 + 1) = DotDot
  <2>1. DotDot \in Seq({"."}) /\ Len(DotDot) = 2
    BY DEF DotDot
  <2>2. SubSeq(DotDot, 1, 2) = DotDot
    BY <2>1
  <2> QED BY <2>2
<1> QED BY <1>1, <1>2 DEF TrimsToDotDot

\* ".." is in the path of a file only if the torrent is named so, and then only
\* in front.
LEMMA PathDotDot ==
  ASSUME NEW it \in Infos, NEW f \in Files,
         \A p \in ToSet(PathOf(f)) : ~TrimsToDotDot(p),
         NEW i \in DOMAIN FilePath(it, f), FilePath(it, f)[i] = DotDot
  PROVE  i = 1 /\ NameOf(it) = DotDot
<1> DEFINE p == PathOf(f)
           rest == [k \in DOMAIN p |-> TruncateName(p[k])]
           name == TruncateName(NameOf(it))
           Y == {name} \cup {rest[k] : k \in DOMAIN p}
           parts == <<name>> \o rest
<1>1. NameOf(it) \in Seq(STRING \cup {"h"})
  BY NameTyped
<1>2. p \in Seq(Names) /\ Len(p) \in Nat /\ DOMAIN p = 1 .. Len(p)
  BY DEF PathOf, Files
<1>3. name = DotDot => NameOf(it) = DotDot
  BY <1>1, OnlyDotDot
<1>4. \A k \in DOMAIN p : rest[k] # DotDot
  <2> SUFFICES ASSUME NEW k \in DOMAIN p PROVE TruncateName(p[k]) # DotDot
    OBVIOUS
  <2>1. p[k] \in Names /\ p[k] \in ToSet(p)
    BY <1>2 DEF ToSet
  <2>2. p[k] # DotDot
    BY <2>1, DotDotTrims
  <2> QED BY <2>1, <2>2, OnlyDotDot DEF Names
<1>5. FilePath(it, f) = Join(parts)
  BY DEF FilePath
<1>6. /\ parts \in Seq(Y) /\ parts # <<>> /\ parts[1] = name
      /\ \A n \in 2 .. Len(parts) : parts[n] # DotDot
  <2>1. rest \in Seq(Y) /\ Len(rest) = Len(p) /\ name \in Y
    BY <1>2
  <2>2. \A k \in 1 .. Len(rest) : rest[k] # DotDot
    BY <1>2, <1>4, <2>1
  <2> HIDE DEF rest, Y, p, name
  <2>3. Len(parts) = Len(rest) + 1 /\ parts[1] = name
    BY <2>1
  <2>4. \A n \in 2 .. Len(parts) :
          n - 1 \in 1 .. Len(rest) /\ parts[n] = rest[n - 1]
    BY <2>1
  <2> QED BY <2>1, <2>2, <2>3, <2>4
<1> HIDE DEF parts, Y, name
<1>7. i = 1 /\ parts[1] = DotDot
  BY <1>5, <1>6, DotDotFirst
<1> QED BY <1>3, <1>6, <1>7
-----------------------------------------------------------------------------
(* What is accepted                                                        *)

\* The lengths and the files of a torrent that passes every check.
LEMMA InfoIsUsable ==
  ASSUME NEW it \in Infos, it.pieceLength * NumPieces(it) < Half,
         NewInfo(it)[1] = "ok"
  PROVE  /\ NewInfo(it)[2].numPieces =
              (NewInfo(it)[2].length + NewInfo(it)[2].pieceLength - 1)
                \div NewInfo(it)[2].pieceLength
         /\ NewInfo(it)[2].length = Int64(SumOfLengths(NewInfo(it)[2].files))
         /\ \A i, j \in DOMAIN NewInfo(it)[2].files :
              NewInfo(it)[2].files[i].path = NewInfo(it)[2].files[j].path
                => i = j
         /\ \A i \in DOMAIN NewInfo(it)[2].files :
              \A k \in DOMAIN NewInfo(it)[2].files[i].path :
                NewInfo(it)[2].files[i].path[k] = DotDot =>
                  k = 1 /\ NameOf(it) = DotDot
<1> DEFINE info == NewInfo(it)[2]
           files == FilesOf(it)
           N == Len(it.files)
<1>1. /\ it.pieceLength # 0
      /\ \A f \in ToSet(it.files) : \A p \in ToSet(PathOf(f)) :
           ~TrimsToDotDot(p)
      /\ ~PieceDataInvalid(it)
      /\ ~Repeated(it)
      /\ info = [length |-> LengthOf(it), numPieces |-> NumPieces(it),
                 pieceLength |-> it.pieceLength, files |-> files]
  BY DEF NewInfo, Fails
<1>2. /\ info.length = LengthOf(it) /\ info.numPieces = NumPieces(it)
      /\ info.pieceLength = it.pieceLength /\ info.files = files
  BY <1>1
<1>3. /\ it.pieceLength \in Nat \ {0} /\ it.length \in Int64s
      /\ it.files \in Seq(Files) /\ it.pieces \in Nat
  BY <1>1 DEF Infos
<1>4. NumPieces(it) \in Nat
  BY <1>3, MetainfoAssumption DEF NumPieces
<1>5. N \in Nat /\ DOMAIN it.files = 1 .. N
      /\ \A n \in 1 .. N : it.files[n] \in Files
  BY <1>3
<1> HIDE DEF info, files, N
<1>6. Int64s \subseteq Int
  BY MetainfoAssumption DEF Int64s
<1>7. \A n \in 1 .. N : it.files[n].length \in Int
  BY <1>5, <1>6 DEF Files
<1>8. LengthOf(it) \in Int64s /\ LengthOf(it) = Int64(SumOfLengths(files))
  <2>1. CASE it.files = <<>>
    <3> DEFINE g == [path |-> <<TruncateName(NameOf(it))>>,
                     length |-> LengthOf(it), padding |-> FALSE]
    <3>1. LengthOf(it) = it.length
      BY <2>1 DEF LengthOf
    <3>2. files = <<g>>
      BY <2>1 DEF files, FilesOf
    <3>3. g.length = it.length
      BY <3>1
    <3> HIDE DEF g
    <3>4. Len(files) = 1 /\ files[1] = g
      BY <3>2
    <3> DEFINE one == 1
    <3>5. /\ one \in Nat /\ Len(files) = one
          /\ \A n \in 1 .. one :
                files[n].length \in Int /\ files[n].length = files[n].length
      <4>1. g.length \in Int
        BY <1>3, <1>6, <3>3
      <4>2. \A n \in 1 .. one : n = 1
        OBVIOUS
      <4> QED BY <3>4, <4>1, <4>2
    <3> HIDE DEF one
    <3>6. Total(files) = Int64(SumOfLengths(files))
      BY ONLY <3>5, TotalIsSum
    <3>7. Total(files) = it.length
      BY <3>3, <3>4, <1>3, TotalOfOne
    <3> QED BY <1>3, <3>1, <3>6, <3>7
  <2>2. CASE it.files # <<>>
    <3>1. LengthOf(it) = Total(it.files)
      BY <2>2 DEF LengthOf
    <3>2. files = [j \in DOMAIN it.files |->
                     [path |-> FilePath(it, it.files[j]),
                      length |-> it.files[j].length,
                      padding |-> IsPadding(it.files[j])]]
      BY <2>2 DEF files, FilesOf
    <3>3. Len(files) = N
      BY <1>5, <3>2
    <3>4. \A n \in 1 .. N : files[n].length = it.files[n].length
      BY <1>5, <3>2
    <3> DEFINE fs == it.files
    <3>5. /\ N \in Nat /\ Len(fs) = N /\ Len(files) = N
          /\ \A n \in 1 .. N :
                fs[n].length \in Int /\ files[n].length = fs[n].length
      BY <1>5, <1>7, <3>3, <3>4 DEF N
    <3> HIDE DEF fs
    <3>6. Total(fs) \in Int64s /\ Total(fs) = Int64(SumOfLengths(files))
      BY ONLY <3>5, TotalIsSum
    <3> QED BY <3>1, <3>6 DEF fs
  <2> QED BY <2>1, <2>2
<1>9. NumPieces(it) =
        (LengthOf(it) + it.pieceLength - 1) \div it.pieceLength
  <2> DEFINE pl == it.pieceLength
             np == NumPieces(it)
             len == LengthOf(it)
  <2>1. /\ pl \in Nat \ {0} /\ np \in Nat /\ len \in Int64s /\ pl * np < Half
        /\ ~(Int64(pl * np - len) >= pl) /\ ~(Int64(pl * np - len) < 0)
    BY <1>1, <1>3, <1>4, <1>8 DEF PieceDataInvalid, DeltaInvalid
  <2> HIDE DEF pl, np, len
  <2>2. np = (len + pl - 1) \div pl
    BY ONLY <2>1, PiecesCover
  <2> QED BY <2>2 DEF pl, np, len
<1>10. /\ \A i, j \in DOMAIN files : files[i].path = files[j].path => i = j
       /\ \A i \in DOMAIN files : \A k \in DOMAIN files[i].path :
            files[i].path[k] = DotDot => k = 1 /\ NameOf(it) = DotDot
  <2>1. CASE it.files = <<>>
    <3> DEFINE name == TruncateName(NameOf(it))
    <3>1. DOMAIN files = {1} /\ files[1].path = <<name>>
      BY <2>1 DEF files, FilesOf
    <3>2. name = DotDot => NameOf(it) = DotDot
      BY NameTyped, OnlyDotDot
    <3> HIDE DEF name
    <3>3. DOMAIN <<name>> = {1} /\ <<name>>[1] = name
      OBVIOUS
    <3> QED BY <3>1, <3>2, <3>3
  <2>2. CASE it.files # <<>>
    <3>1. /\ DOMAIN files = 1 .. N
          /\ \A i \in 1 .. N : files[i].path = FilePath(it, it.files[i])
      BY <1>5, <2>2 DEF files, FilesOf
    <3>2. \A i, j \in 1 .. N :
            FilePath(it, it.files[i]) = FilePath(it, it.files[j]) => i = j
      BY <1>1, <1>5 DEF Repeated
    <3>3. \A i \in 1 .. N : it.files[i] \in ToSet(it.files)
      BY <1>5 DEF ToSet
    <3>4. \A i \in 1 .. N : \A k \in DOMAIN FilePath(it, it.files[i]) :
            FilePath(it, it.files[i])[k] = DotDot =>
              k = 1 /\ NameOf(it) = DotDot
      BY <1>1, <1>5, <3>3, PathDotDot
    <3>5. \A i, j \in DOMAIN files : files[i].path = files[j].path => i = j
      BY <3>1, <3>2
    <3>6. ASSUME NEW i \in DOMAIN files, NEW k \in DOMAIN files[i].path,
                 files[i].path[k] = DotDot
          PROVE  k = 1 /\ NameOf(it) = DotDot
      <4> DEFINE path == FilePath(it, it.files[i])
      <4>1. i \in 1 .. N /\ files[i].path = path
        BY <3>1
      <4>2. k \in DOMAIN path /\ path[k] = DotDot
        BY ONLY <3>6, <4>1, Zenon
      <4> QED BY <3>4, <4>1, <4>2
    <3> QED BY <3>5, <3>6
  <2> QED BY <2>1, <2>2
<1> QED BY <1>2, <1>8, <1>9, <1>10 DEF info

\* The trackers of a torrent are those of its list that can be used, or the one
\* it names when it has no list.
LEMMA TrackersAreUsable ==
  ASSUME NEW t \in TorrentFiles
  PROVE  /\ \A tier \in ToSet(AnnounceList(t)) : tier # <<>>
         /\ UNION {ToSet(tier) : tier \in ToSet(AnnounceList(t))} =
              TrackerURLs \cap
                (IF t.announceList = Absent THEN {t.announce}
                 ELSE IF t.announceList = NoText THEN {}
                 ELSE UNION {ToSet(tier) : tier \in ToSet(t.announceList)})
         /\ ToSet(URLList(t)) \subseteq WebseedURLs
<1>1. /\ t.announceList \in Seq(Seq(URLs)) \cup {Absent, NoText}
      /\ t.urls \in Seq(URLs)
  BY DEF TorrentFiles
<1>2. ToSet(<<>>) = {} /\ \A x : ToSet(<<x>>) = {x}
  BY DEF ToSet
<1>3. ToSet(URLList(t)) \subseteq WebseedURLs
  BY <1>1, <1>2, KeepFacts DEF URLList
<1>4. CASE t.announceList = Absent
  <2>1. AnnounceList(t) =
          IF t.announce \in TrackerURLs THEN <<<<t.announce>>>> ELSE <<>>
    BY <1>4 DEF AnnounceList
  <2>2. CASE t.announce \in TrackerURLs
    <3>1. ToSet(AnnounceList(t)) = {<<t.announce>>}
      BY <1>2, <2>1, <2>2
    <3>2. UNION {ToSet(tier) : tier \in ToSet(AnnounceList(t))} = {t.announce}
      BY <1>2, <3>1
    <3> QED BY <1>3, <1>4, <2>2, <3>1, <3>2
  <2>3. CASE t.announce \notin TrackerURLs
    BY <1>2, <1>3, <1>4, <2>1, <2>3
  <2> QED BY <2>2, <2>3
<1>5. CASE t.announceList # Absent /\ t.announceList = NoText
  <2>1. AnnounceList(t) = <<>>
    BY <1>5 DEF AnnounceList
  <2> QED BY <1>2, <1>3, <1>5, <2>1
<1>6. CASE t.announceList # Absent /\ t.announceList # NoText
  <2>1. AnnounceList(t) = KeepTiers(t.announceList)
    BY <1>6 DEF AnnounceList
  <2>2. t.announceList \in Seq(Seq(URLs))
    BY <1>1, <1>6
  <2> DEFINE tiers == t.announceList
  <2> HIDE DEF tiers
  <2>3. /\ \A tier \in ToSet(KeepTiers(tiers)) : tier # <<>>
        /\ UNION {ToSet(tier) : tier \in ToSet(KeepTiers(tiers))} =
             TrackerURLs \cap UNION {ToSet(tier) : tier \in ToSet(tiers)}
    BY <2>2, KeepTiersFacts DEF tiers
  <2> QED BY <1>3, <1>6, <2>1, <2>3 DEF tiers
<1> QED BY <1>4, <1>5, <1>6

\* What Load leaves is what New makes of the file.
MetaIInv ==
    /\ file \in TorrentFiles
    /\ metaInfo = NoInfo \/ metaInfo = New(file)

\* A torrent that New accepts is usable.
LEMMA NewIsUsable == MetaIInv => AcceptedIsUsable
<1> SUFFICES ASSUME MetaIInv, metaInfo[1] = "ok" PROVE AcceptedIsUsable
  BY DEF AcceptedIsUsable, Loaded
<1>1. metaInfo = New(file)
  BY DEF MetaIInv, NoInfo
<1> DEFINE it == file.info
<1>0. it # Absent
  BY <1>1 DEF New, Fails
<1>2. it \in Infos /\ it.pieceLength * NumPieces(it) < Half
  BY <1>0 DEF MetaIInv, TorrentFiles
<1>3. /\ NewInfo(it)[1] = "ok"
      /\ metaInfo[2] = [info |-> NewInfo(it)[2],
                        announceList |-> AnnounceList(file),
                        urlList |-> URLList(file)]
  BY <1>0, <1>1 DEF New
<1>4. /\ metaInfo[2].info = NewInfo(it)[2]
      /\ metaInfo[2].announceList = AnnounceList(file)
      /\ metaInfo[2].urlList = URLList(file)
  BY <1>3
<1> DEFINE info == NewInfo(it)[2]
           tiers == AnnounceList(file)
<1>5. /\ info.numPieces =
           (info.length + info.pieceLength - 1) \div info.pieceLength
      /\ info.length = Int64(SumOfLengths(info.files))
      /\ \A i, j \in DOMAIN info.files :
           info.files[i].path = info.files[j].path => i = j
      /\ \A i \in DOMAIN info.files : \A k \in DOMAIN info.files[i].path :
           info.files[i].path[k] = DotDot => k = 1 /\ NameOf(it) = DotDot
  BY <1>2, <1>3, InfoIsUsable
<1>6. /\ \A tier \in ToSet(tiers) : tier # <<>>
      /\ UNION {ToSet(tier) : tier \in ToSet(tiers)} =
           TrackerURLs \cap
             (IF file.announceList = Absent THEN {file.announce}
              ELSE IF file.announceList = NoText THEN {}
              ELSE UNION {ToSet(tier) : tier \in ToSet(file.announceList)})
      /\ ToSet(URLList(file)) \subseteq WebseedURLs
  BY TrackersAreUsable DEF MetaIInv
<1>7. /\ metaInfo[2].info = info /\ metaInfo[2].announceList = tiers
  BY <1>4
<1> HIDE DEF info, tiers
<1> QED BY <1>4, <1>5, <1>6, <1>7 DEF AcceptedIsUsable

\* A torrent file that is accepted can be used, whatever is in it: as many
\* pieces as its content needs; files that make up the content, under paths of
\* their own in which ".." is nowhere but in front, and there only if it is the
\* torrent's name; the trackers of the list, however empty, or of the announce
\* URL when there is no list, and web seeds, each of a kind that is supported
\* (info.go:86-233, metainfo.go:22-95).
THEOREM AcceptedTorrents == MetaSpec => []AcceptedIsUsable
<1>1. file \in TorrentFiles /\ metaInfo = NoInfo => MetaIInv
  BY DEF MetaIInv
<1>2. MetaIInv /\ [Load]_metaVars => MetaIInv'
  BY DEF MetaIInv, Load, metaVars
<1> QED BY <1>1, <1>2, NewIsUsable, PTL DEF MetaSpec
-----------------------------------------------------------------------------
(* Numbers and strings in a byte string                                    *)

\* A byte that is looked for is found where it occurs first.
LEMMA UntilFacts ==
  ASSUME NEW X, NEW s \in Seq(X), NEW i \in Nat, NEW c
  PROVE  \/ /\ Until(s, i, c) = 0
            /\ \A k \in i .. Len(s) : s[k] # c
         \/ /\ Until(s, i, c) \in i .. Len(s)
            /\ s[Until(s, i, c)] = c
            /\ \A k \in i .. Until(s, i, c) - 1 : s[k] # c
<1> DEFINE T == {k \in i .. Len(s) : s[k] = c}
<1>1. CASE T = {}
  BY <1>1 DEF Until
<1>2. CASE T # {}
  <2>1. T \in SUBSET Nat
    OBVIOUS
  <2> HIDE DEF T
  <2>2. PICK m \in T : \A k \in T : m <= k
    BY <1>2, <2>1, NatLeast
  <2>3. \A k \in i .. m - 1 : k \notin T /\ k \in i .. Len(s)
    BY <2>1, <2>2 DEF T
  <2>4. /\ m \in i .. Len(s) /\ s[m] = c
        /\ \A k \in i .. m - 1 : s[k] # c
    BY <2>2, <2>3 DEF T
  <2> QED BY <2>4 DEF Until
<1> QED BY <1>1, <1>2

\* There is one such place.
LEMMA UntilIs ==
  ASSUME NEW X, NEW s \in Seq(X), NEW i \in Nat \ {0}, NEW c,
         NEW j \in i .. Len(s), s[j] = c, \A k \in i .. j - 1 : s[k] # c
  PROVE  Until(s, i, c) = j
<1>1. \/ /\ Until(s, i, c) = 0
         /\ \A k \in i .. Len(s) : s[k] # c
      \/ /\ Until(s, i, c) \in i .. Len(s)
         /\ s[Until(s, i, c)] = c
         /\ \A k \in i .. Until(s, i, c) - 1 : s[k] # c
  BY UntilFacts
<1> QED BY <1>1

-----------------------------------------------------------------------------
(* Numerals                                                                *)

\* A digit stands for a number.
LEMMA DigitsAreNumbers ==
  \A c \in Digit : Ord[c] \in 2 .. 11 /\ ByteOrder[Ord[c]] = c
<1> SUFFICES ASSUME NEW c \in Digit
             PROVE  Ord[c] \in 2 .. 11 /\ ByteOrder[Ord[c]] = c
  OBVIOUS
<1>1. /\ \A k \in {1} \cup 12 .. 16 : ByteOrder[k] # c
      /\ DOMAIN ByteOrder = 1 .. 16
  BY DEF ByteOrder, Digit
<1>2. \E k \in 2 .. 11 : ByteOrder[k] = c
  BY DEF ByteOrder, Digit
<1>3. c \in ToSet(ByteOrder)
  BY <1>1, <1>2 DEF ToSet
<1>4. Ord[c] = CHOOSE k \in 1 .. 16 : ByteOrder[k] = c
  BY <1>3 DEF Ord
<1>5. Ord[c] \in 1 .. 16 /\ ByteOrder[Ord[c]] = c
  BY <1>2, <1>4
<1> QED BY <1>1, <1>5

\* The digits of a number, as Ord and DigitOf relate them.
LEMMA DigitFacts ==
  /\ \A d \in 0 .. 9 : DigitOf(d) \in Digit /\ Ord[DigitOf(d)] - 2 = d
  /\ \A c \in Digit : Ord[c] - 2 \in 0 .. 9 /\ DigitOf(Ord[c] - 2) = c
  /\ Ord["0"] - 2 = 0 /\ \A c \in Digit : Ord[c] - 2 = 0 => c = "0"
<1>1. /\ ByteOrder[2] = "0" /\ ByteOrder[3] = "1" /\ ByteOrder[4] = "2"
      /\ ByteOrder[5] = "3" /\ ByteOrder[6] = "4" /\ ByteOrder[7] = "5"
      /\ ByteOrder[8] = "6" /\ ByteOrder[9] = "7" /\ ByteOrder[10] = "8"
      /\ ByteOrder[11] = "9"
      /\ ByteOrder[1] \notin Digit
      /\ \A k \in 12 .. 16 : ByteOrder[k] \notin Digit
      /\ DOMAIN ByteOrder = 1 .. 16
  BY DEF ByteOrder, Digit
<1>2. \A c \in Digit : Ord[c] \in 2 .. 11 /\ ByteOrder[Ord[c]] = c
  BY DigitsAreNumbers
<1>3. ASSUME NEW d \in 0 .. 9
      PROVE  DigitOf(d) \in Digit /\ Ord[DigitOf(d)] = d + 2
  <2>1. d + 2 \in 2 .. 11 /\ DigitOf(d) = ByteOrder[d + 2]
    BY DEF DigitOf
  <2>2. DigitOf(d) \in Digit
    BY <1>1, <2>1 DEF Digit
  <2>3. /\ Ord[DigitOf(d)] \in 2 .. 11
        /\ ByteOrder[Ord[DigitOf(d)]] = ByteOrder[d + 2]
    BY <1>2, <2>1, <2>2
  <2>4. \A j, k \in 2 .. 11 : ByteOrder[j] = ByteOrder[k] => j = k
    BY <1>1
  <2> QED BY <2>1, <2>2, <2>3, <2>4
<1>4. ASSUME NEW c \in Digit PROVE DigitOf(Ord[c] - 2) = c
  <2>1. (Ord[c] - 2) + 2 = Ord[c]
    BY <1>2
  <2> QED BY <1>2, <2>1 DEF DigitOf
<1>5. "0" \in Digit /\ DigitOf(0) = "0" /\ 0 \in 0 .. 9
  BY <1>1 DEF Digit, DigitOf
<1>6. Ord["0"] - 2 = 0
  BY <1>3, <1>5
<1> QED BY <1>2, <1>3, <1>4, <1>5, <1>6

\* The value of the first digits of a numeral.
ValueOf(t) == CHOOSE g : g = [n \in 0 .. Len(t) |->
                                IF n = 0 THEN 0
                                ELSE 10 * g[n - 1] + Ord[t[n]] - 2]

\* There is a function that has them.
LEMMA ValueFacts ==
  ASSUME NEW t \in Seq(Digit)
  PROVE  /\ ValueOf(t)[0] = 0
         /\ \A n \in 1 .. Len(t) :
              ValueOf(t)[n] = 10 * ValueOf(t)[n - 1] + Ord[t[n]] - 2
         /\ \A n \in 0 .. Len(t) : ValueOf(t)[n] \in Nat
<1> DEFINE N == Len(t)
           Eq(g) == g = [n \in 0 .. N |->
                           IF n = 0 THEN 0
                           ELSE 10 * g[n - 1] + Ord[t[n]] - 2]
           next == [p \in Nat \X (1 .. N) |-> 10 * p[1] + Ord[t[p[2]]] - 2]
<1>1. N \in Nat /\ \A n \in 1 .. N : t[n] \in Digit
  OBVIOUS
<1> HIDE DEF N
<1>2. \A n \in 1 .. N : Ord[t[n]] \in Nat /\ Ord[t[n]] >= 2
  BY <1>1, DigitsAreNumbers
<1>3. next \in [Nat \X (1 .. N) -> Nat]
  <2>1. \A m \in Nat, n \in 1 .. N : 10 * m + Ord[t[n]] - 2 \in Nat
    BY <1>2
  <2> QED BY <2>1
<1>4. PICK g : PrefixValues(g, Nat, 0, N, next)
  BY <1>1, <1>3, PrefixRecursion
<1>5. Eq(g)
  <2>1. /\ g \in [0 .. N -> Nat] /\ g[0] = 0
        /\ \A n \in 1 .. N : g[n] = next[<<g[n - 1], n>>]
    BY <1>4 DEF PrefixValues
  <2>2. \A n \in 1 .. N : g[n] = 10 * g[n - 1] + Ord[t[n]] - 2
    <3> SUFFICES ASSUME NEW n \in 1 .. N
                 PROVE  g[n] = 10 * g[n - 1] + Ord[t[n]] - 2
      OBVIOUS
    <3>1. g[n - 1] \in Nat
      BY <1>1, <2>1
    <3> QED BY <2>1, <3>1
  <2> HIDE DEF next
  <2>3. g = [n \in 0 .. N |-> g[n]]
    BY <2>1
  <2>4. \A n \in 0 .. N : n = 0 \/ n \in 1 .. N
    BY <1>1
  <2>5. \A n \in 0 .. N :
          g[n] = IF n = 0 THEN 0 ELSE 10 * g[n - 1] + Ord[t[n]] - 2
    BY <2>1, <2>2, <2>4
  <2> QED BY <2>3, <2>5
<1> HIDE DEF next
<1> DEFINE value == ValueOf(t)
<1>6. Eq(value)
  <2>1. value = CHOOSE h : Eq(h)
    BY DEF ValueOf, N
  <2> HIDE DEF Eq, value
  <2> QED BY <1>5, <2>1
<1> HIDE DEF value
<1>7. /\ value[0] = 0
      /\ \A n \in 1 .. N : value[n] = 10 * value[n - 1] + Ord[t[n]] - 2
  <2>1. \A n \in 0 .. N :
          value[n] = IF n = 0 THEN 0 ELSE 10 * value[n - 1] + Ord[t[n]] - 2
    BY <1>6
  <2> QED BY <2>1, <1>1
<1> DEFINE T == {n \in Nat : n <= N => value[n] \in Nat}
<1>8. 0 \in T
  BY <1>7
<1>9. ASSUME NEW n \in Nat, n \in T PROVE n + 1 \in T
  <2> SUFFICES ASSUME n + 1 <= N PROVE value[n + 1] \in Nat
    OBVIOUS
  <2>1. value[n] \in Nat
    BY <1>1, <1>9
  <2>2. n + 1 \in 1 .. N
    BY <1>1
  <2>3. value[n + 1] = 10 * value[n] + Ord[t[n + 1]] - 2
    BY <1>7, <2>2
  <2> QED BY <1>2, <2>1, <2>2, <2>3
<1>10. \A n \in 0 .. N : n \in T
  <2> HIDE DEF T
  <2> QED BY <1>8, <1>9, SetInduction
<1> QED BY <1>7, <1>10 DEF N, value

\* Without a sign a numeral has digits alone.
LEMMA MagnitudeIs ==
  ASSUME NEW t \in Seq(Digit)
  PROVE  /\ Unsigned(t) = t
         /\ Magnitude(t) = ValueOf(t)[Len(t)]
         /\ Magnitude(t) \in Nat
<1>1. Unsigned(t) = t
  <2>1. t # <<>> => t[1] \in Digit
    OBVIOUS
  <2> QED BY <2>1 DEF Unsigned, Digit
<1>2. Magnitude(t) = ValueOf(t)[Len(t)]
  BY <1>1 DEF Magnitude, ValueOf
<1> QED BY <1>1, <1>2, ValueFacts

\* A digit more, on the right.
LEMMA MagnitudeAppend ==
  ASSUME NEW t \in Seq(Digit), NEW c \in Digit
  PROVE  Magnitude(Append(t, c)) = 10 * Magnitude(t) + (Ord[c] - 2)
<1> DEFINE u == Append(t, c)
           N == Len(t)
           f == ValueOf(t)
           g == ValueOf(u)
<1>1. /\ u \in Seq(Digit) /\ Len(u) = N + 1 /\ N \in Nat
      /\ u[N + 1] = c /\ \A n \in 1 .. N : u[n] = t[n] /\ t[n] \in Digit
  OBVIOUS
<1>2. f[0] = 0 /\ \A n \in 1 .. N : f[n] = 10 * f[n - 1] + Ord[t[n]] - 2
  BY ValueFacts
<1>3. g[0] = 0 /\ \A n \in 1 .. N + 1 : g[n] = 10 * g[n - 1] + Ord[u[n]] - 2
  <2> HIDE DEF u
  <2> QED BY <1>1, ValueFacts
<1>4. \A n \in 0 .. N : f[n] \in Nat
  BY ValueFacts
<1>5. Magnitude(t) = f[N]
  BY MagnitudeIs
<1>6. Magnitude(u) = g[N + 1]
  <2> HIDE DEF u
  <2> QED BY <1>1, MagnitudeIs
<1> HIDE DEF u, f, g, N
<1> DEFINE T == {n \in Nat : n <= N => g[n] = f[n]}
<1>7. 0 \in T
  BY <1>2, <1>3
<1>8. ASSUME NEW n \in Nat, n \in T PROVE n + 1 \in T
  <2> SUFFICES ASSUME n + 1 <= N PROVE g[n + 1] = f[n + 1]
    OBVIOUS
  <2>1. n + 1 \in 1 .. N /\ n + 1 \in 1 .. N + 1 /\ (n + 1) - 1 = n /\ n <= N
    BY <1>1
  <2>2. g[n] = f[n]
    BY <1>8, <2>1
  <2>3. g[n + 1] = 10 * g[n] + Ord[u[n + 1]] - 2
    BY <1>3, <2>1
  <2>4. f[n + 1] = 10 * f[n] + Ord[t[n + 1]] - 2
    BY <1>2, <2>1
  <2> QED BY <1>1, <2>1, <2>2, <2>3, <2>4
<1>9. g[N] = f[N]
  <2> HIDE DEF T
  <2>1. N \in T
    BY <1>1, <1>7, <1>8, SetInduction
  <2> QED BY <1>1, <2>1 DEF T
<1>10. N + 1 \in 1 .. N + 1 /\ (N + 1) - 1 = N
  BY <1>1
<1>11. g[N + 1] = 10 * g[N] + Ord[c] - 2
  BY <1>1, <1>3, <1>10
<1>12. f[N] \in Nat /\ Ord[c] \in 2 .. 11
  <2>1. N \in 0 .. N
    BY <1>1
  <2> QED BY <1>4, <2>1, DigitsAreNumbers
<1> QED BY <1>5, <1>6, <1>9, <1>11, <1>12 DEF u

\* One digit.
LEMMA MagnitudeOfOne ==
  ASSUME NEW c \in Digit PROVE Magnitude(<<c>>) = Ord[c] - 2
<1>1. <<>> \in Seq(Digit) /\ Len(<<>>) = 0 /\ Append(<<>>, c) = <<c>>
  OBVIOUS
<1>2. Magnitude(<<>>) = 0
  BY <1>1, MagnitudeIs, ValueFacts
<1>3. Magnitude(<<c>>) = 10 * 0 + (Ord[c] - 2)
  BY <1>1, <1>2, MagnitudeAppend
<1>4. Ord[c] \in Nat
  BY DigitsAreNumbers
<1> QED BY <1>3, <1>4

\* A numeral without a sign is a natural number.
LEMMA NumberIsNatural ==
  ASSUME NEW X, NEW t \in Seq(X), IsNumeral(t), t[1] # "-"
  PROVE  Number(t) \in Nat
<1>1. Unsigned(t) = t
  BY DEF Unsigned
<1>2. \A n \in 1 .. Len(t) : t[n] \in Digit
  BY <1>1 DEF IsNumeral, ToSet
<1>3. t \in Seq(Digit)
  BY <1>2
<1>4. Magnitude(t) \in Nat
  BY <1>3, MagnitudeIs
<1> QED BY <1>4 DEF Number
-----------------------------------------------------------------------------
(* What one value takes                                                    *)

\* The bytes in front of a place.
LEMMA SliceFacts ==
  ASSUME NEW X, NEW s \in Seq(X), NEW i \in 1 .. Len(s),
         NEW j \in i + 1 .. Len(s)
  PROVE  /\ SubSeq(s, i, j - 1) \in Seq(X)
         /\ SubSeq(s, i, j - 1)[1] = s[i]
  OBVIOUS

\* A string that is read into interface{} is one the skipper takes, and both go
\* forward.
LEMMA TextExtent ==
  ASSUME NEW X, NEW s \in Seq(X), NEW i \in 1 .. Len(s), s[i] \in Digit,
         NEW ones
  PROVE  /\ Text(s, i).st \in {"ok", "error"}
         /\ Text(s, i).st = "ok" =>
              /\ OneOf(s, i, ones) = Ok(Nil, Text(s, i).i)
              /\ Text(s, i).i \in i + 1 .. Len(s) + 1
         /\ OneOf(s, i, ones).st \in {"ok", "error"}
         /\ OneOf(s, i, ones).st = "ok" =>
              OneOf(s, i, ones).i \in i + 1 .. Len(s) + 1
<1> DEFINE j == Until(s, i, ":")
           t == SubSeq(s, i, j - 1)
<1>1. s[i] \notin {"e", "d", "l", "i", "-", ":"} /\ i \in Nat
  BY DEF Digit
<1>2. j = 0 \/ j \in i + 1 .. Len(s)
  BY <1>1, UntilFacts
<1>3. OneOf(s, i, ones) =
        IF j = 0 \/ ~IsNumeral(t) THEN Err
        ELSE IF Number(t) > WordMax \/ j + Number(t) > Len(s) THEN Err
        ELSE Ok(Nil, j + Number(t) + 1)
  BY <1>1 DEF OneOf
<1>4. CASE j = 0 \/ ~IsNumeral(t)
  BY <1>3, <1>4 DEF Text, Err
<1>5. CASE ~(j = 0 \/ ~IsNumeral(t))
  <2>1. t \in Seq(X) /\ t[1] = s[i]
    BY <1>2, <1>5, SliceFacts
  <2> HIDE DEF t
  <2>2. Number(t) \in Nat
    BY <1>1, <1>5, <2>1, NumberIsNatural
  <2>3. Text(s, i) =
          IF ~Leading(t) THEN Err
          ELSE IF Number(t) > WordMax \/ Number(t) > MaxStr THEN Err
          ELSE IF j + Number(t) > Len(s) THEN Err
          ELSE Ok(<<"str", SubSeq(s, j + 1, j + Number(t))>>, j + Number(t) + 1)
    BY <1>5 DEF Text, t
  <2> HIDE DEF j
  <2>4. j + Number(t) <= Len(s) => j + Number(t) + 1 \in i + 1 .. Len(s) + 1
    BY <1>2, <1>5, <2>2
  <2> DEFINE n == Number(t)
             w == SubSeq(s, j + 1, j + Number(t))
  <2> HIDE DEF n, w
  <2> QED BY <1>2, <1>3, <1>5, <2>2, <2>3, <2>4 DEF Ok, Err
<1> QED BY <1>4, <1>5

\* So is an integer.
LEMMA IntExtent ==
  ASSUME NEW X, NEW s \in Seq(X), NEW i \in 1 .. Len(s), s[i] = "i", NEW ones
  PROVE  /\ GenericInt(s, i + 1).st \in {"ok", "error"}
         /\ GenericInt(s, i + 1).st = "ok" =>
              /\ OneOf(s, i, ones) = Ok(Nil, GenericInt(s, i + 1).i)
              /\ GenericInt(s, i + 1).i \in i + 1 .. Len(s) + 1
         /\ OneOf(s, i, ones).st \in {"ok", "error"}
         /\ OneOf(s, i, ones).st = "ok" =>
              OneOf(s, i, ones).i \in i + 1 .. Len(s) + 1
<1> DEFINE j == Until(s, i, "e")
           k == Until(s, i + 1, "e")
<1>1. i \in Nat /\ i + 1 \in Nat /\ i \in Nat \ {0}
  OBVIOUS
<1>2. j = 0 \/ j \in i + 1 .. Len(s)
  BY <1>1, UntilFacts
<1>3. k # 0 => j = k /\ k \in i + 1 .. Len(s)
  <2> SUFFICES ASSUME k # 0 PROVE j = k /\ k \in i + 1 .. Len(s)
    OBVIOUS
  <2>1. /\ k \in i + 1 .. Len(s) /\ s[k] = "e"
        /\ \A q \in i + 1 .. k - 1 : s[q] # "e"
    BY <1>1, UntilFacts
  <2> HIDE DEF k
  <2>2. k \in i .. Len(s) /\ \A q \in i .. k - 1 : s[q] # "e"
    BY <2>1
  <2> QED BY <1>1, <2>1, <2>2, UntilIs
<1>4. OneOf(s, i, ones) = IF j = 0 THEN Err ELSE Ok(Nil, j + 1)
  BY DEF OneOf
<1>5. \/ GenericInt(s, i + 1) = Err
      \/ k # 0 /\ \E v : GenericInt(s, i + 1) = Ok(v, k + 1)
  BY DEF GenericInt
<1> HIDE DEF j, k
<1>6. CASE GenericInt(s, i + 1) = Err
  BY <1>2, <1>4, <1>6 DEF Ok, Err
<1>7. CASE k # 0 /\ \E v : GenericInt(s, i + 1) = Ok(v, k + 1)
  <2>1. PICK v : GenericInt(s, i + 1) = Ok(v, k + 1)
    BY <1>7
  <2>2. OneOf(s, i, ones) = Ok(Nil, k + 1) /\ k + 1 \in i + 1 .. Len(s) + 1
    BY <1>2, <1>3, <1>4, <1>7
  <2> QED BY <2>1, <2>2 DEF Ok
<1> QED BY <1>5, <1>6, <1>7
-----------------------------------------------------------------------------
(* The functions of a position exist                                       *)

\* From a number down to one.
LEMMA DownInduction ==
  ASSUME NEW T, NEW N \in Nat, N \in T,
         \A n \in 1 .. N : n # N /\ n + 1 \in T => n \in T
  PROVE  1 .. N \subseteq T
<1> DEFINE U == {m \in Nat : m < N => N - m \in T}
<1>1. 0 \in U
  OBVIOUS
<1>2. ASSUME NEW m \in Nat, m \in U PROVE m + 1 \in U
  <2> SUFFICES ASSUME m + 1 < N PROVE N - (m + 1) \in T
    OBVIOUS
  <2>1. N - m \in T /\ N - (m + 1) \in 1 .. N /\ N - (m + 1) # N
    BY <1>2
  <2>2. (N - (m + 1)) + 1 = N - m
    OBVIOUS
  <2> QED BY <2>1, <2>2
<1>3. Nat \subseteq U
  <2> HIDE DEF U
  <2> QED BY <1>1, <1>2, SetInduction
<1>4. ASSUME NEW n \in 1 .. N PROVE n \in T
  <2>1. N - n \in U /\ N - n < N /\ N - (N - n) = n
    BY <1>3
  <2> QED BY <2>1
<1> QED BY <1>4

\* What is read from i on was something, and it was in the input.
Advances(r, s, i) == r.st = "ok" => r.i \in i + 1 .. Len(s) + 1
Closed(r, s, i) == r.st # "end" /\ Advances(r, s, i)

\* One value goes forward when lists and dictionaries do, and "e" is no value.
LEMMA OneAdvances ==
  ASSUME NEW X, NEW s \in Seq(X), NEW i \in 1 .. Len(s) + 1, NEW ones,
         i <= Len(s) => Closed(ones[i + 1], s, i + 1)
  PROVE  /\ Advances(OneOf(s, i, ones), s, i)
         /\ OneOf(s, i, ones).st = "end" =>
              i <= Len(s) /\ s[i] = "e" /\ OneOf(s, i, ones).i = i
<1>1. CASE i > Len(s)
  BY <1>1 DEF OneOf, Err, Advances
<1> SUFFICES ASSUME i \in 1 .. Len(s)
             PROVE  /\ Advances(OneOf(s, i, ones), s, i)
                    /\ OneOf(s, i, ones).st = "end" =>
                         s[i] = "e" /\ OneOf(s, i, ones).i = i
  BY <1>1
<1>2. CASE s[i] = "e"
  BY <1>2 DEF OneOf, End, Advances
<1>3. CASE s[i] \in {"d", "l"}
  <2>1. OneOf(s, i, ones) = ones[i + 1]
    BY <1>3 DEF OneOf
  <2>2. \A n \in (i + 1) + 1 .. Len(s) + 1 : n \in i + 1 .. Len(s) + 1
    OBVIOUS
  <2> QED BY <2>1, <2>2 DEF Closed, Advances
<1>4. CASE s[i] = "i"
  BY <1>4, IntExtent DEF Advances
<1>5. CASE s[i] \in Digit
  BY <1>5, TextExtent DEF Advances
<1>6. CASE s[i] \notin {"e", "d", "l", "i"} \cup Digit
  BY <1>6 DEF OneOf, Err, Advances
<1> QED BY <1>2, <1>3, <1>4, <1>5, <1>6

\* So does the rest of a list.
LEMMA OnesAdvance ==
  ASSUME NEW X, NEW s \in Seq(X), NEW i \in 1 .. Len(s) + 1, NEW ones,
         \A k \in i + 1 .. Len(s) + 1 : Closed(ones[k], s, k)
  PROVE  Closed(Ones(s, i, ones), s, i)
<1> DEFINE r == OneOf(s, i, ones)
<1>1. i <= Len(s) => Closed(ones[i + 1], s, i + 1)
  <2>1. i <= Len(s) => i + 1 \in i + 1 .. Len(s) + 1
    OBVIOUS
  <2> QED BY <2>1
<1>2. /\ r.st = "ok" => r.i \in i + 1 .. Len(s) + 1
      /\ r.st = "end" => i <= Len(s) /\ r.i = i
  BY <1>1, OneAdvances DEF Advances
<1>3. Ones(s, i, ones) = IF r.st = "end" THEN Ok(Nil, r.i + 1)
                         ELSE IF r.st = "ok" THEN ones[r.i] ELSE r
  BY DEF Ones
<1> HIDE DEF r
<1>4. CASE r.st = "end"
  BY <1>2, <1>3, <1>4 DEF Closed, Advances, Ok
<1>5. CASE r.st = "ok"
  <2>1. Closed(ones[r.i], s, r.i) /\ r.i \in i + 1 .. Len(s) + 1
    BY <1>2, <1>5
  <2>2. \A n \in r.i + 1 .. Len(s) + 1 : n \in i + 1 .. Len(s) + 1
    BY <2>1
  <2> QED BY <1>3, <1>5, <2>1, <2>2 DEF Closed, Advances
<1>6. CASE r.st \notin {"end", "ok"}
  BY <1>3, <1>6 DEF Closed, Advances
<1> QED BY <1>4, <1>5, <1>6

\* The rest of a list depends on what comes later alone.
LEMMA OnesLocal ==
  ASSUME NEW X, NEW s \in Seq(X), NEW i \in 1 .. Len(s) + 1, NEW f, NEW g,
         \A k \in i + 1 .. Len(s) + 1 : f[k] = g[k] /\ Closed(f[k], s, k)
  PROVE  Ones(s, i, f) = Ones(s, i, g)
<1>1. i <= Len(s) => f[i + 1] = g[i + 1] /\ Closed(f[i + 1], s, i + 1)
  <2>1. i <= Len(s) => i + 1 \in i + 1 .. Len(s) + 1
    OBVIOUS
  <2> QED BY <2>1
<1>2. OneOf(s, i, f) = OneOf(s, i, g)
  BY <1>1 DEF OneOf
<1>3. OneOf(s, i, f).st = "ok" => OneOf(s, i, f).i \in i + 1 .. Len(s) + 1
  BY <1>1, OneAdvances DEF Advances
<1> DEFINE r == OneOf(s, i, f)
<1>4. r.st = "ok" => f[r.i] = g[r.i]
  BY <1>3
<1> QED BY <1>2, <1>4 DEF Ones

\* Where a function satisfies the equation of ones, it goes forward.
LEMMA OnesClosed ==
  ASSUME NEW X, NEW s \in Seq(X), NEW n \in 1 .. Len(s) + 1, NEW f,
         \A k \in n .. Len(s) + 1 : f[k] = Ones(s, k, f)
  PROVE  \A k \in n .. Len(s) + 1 : Closed(f[k], s, k)
<1> DEFINE L == Len(s) + 1
           T == {m \in 1 .. L : m >= n =>
                   \A k \in m .. L : Closed(f[k], s, k)}
<1>1. L \in Nat /\ L >= 1
  OBVIOUS
<1>2. ASSUME NEW m \in 1 .. L, m >= n,
             \A k \in m + 1 .. L : Closed(f[k], s, k)
      PROVE  \A k \in m .. L : Closed(f[k], s, k)
  <2>1. Closed(Ones(s, m, f), s, m)
    BY <1>2, OnesAdvance
  <2>2. f[m] = Ones(s, m, f)
    BY <1>2
  <2>3. \A k \in m .. L : k = m \/ k \in m + 1 .. L
    OBVIOUS
  <2> QED BY <1>2, <2>1, <2>2, <2>3
<1>3. L \in T
  <2>1. L + 1 .. L = {} /\ L \in 1 .. L /\ L >= n
    OBVIOUS
  <2> HIDE DEF L
  <2> QED BY <1>2, <2>1
<1>4. ASSUME NEW m \in 1 .. L, m # L, m + 1 \in T PROVE m \in T
  <2> HIDE DEF L
  <2>1. m >= n => m + 1 >= n
    BY <1>1
  <2> QED BY <1>2, <1>4, <2>1
<1>5. n \in T
  <2> HIDE DEF T
  <2>1. 1 .. L \subseteq T
    BY <1>1, <1>3, <1>4, DownInduction
  <2> QED BY <2>1
<1> QED BY <1>5

\* Skipped satisfies its equation.
LEMMA SkippedFacts ==
  ASSUME NEW X, NEW s \in Seq(X)
  PROVE  \A k \in 1 .. Len(s) + 1 :
           /\ Skipped(s)[k] = Ones(s, k, Skipped(s))
           /\ Closed(Skipped(s)[k], s, k)
<1> DEFINE L == Len(s) + 1
           Eq(f) == f = [k \in 1 .. L |-> Ones(s, k, f)]
           Down(f, n) == /\ f = [k \in 1 .. L |-> f[k]]
                         /\ \A k \in n .. L : f[k] = Ones(s, k, f)
           T == {n \in 1 .. L : \E f : Down(f, n)}
<1>1. L \in Nat /\ L >= 1 /\ L + 1 .. L = {}
  OBVIOUS
<1>2. ASSUME NEW n \in 1 .. L, NEW f,
             f = [k \in 1 .. L |-> f[k]],
             \A k \in n + 1 .. L : f[k] = Ones(s, k, f)
      PROVE  n \in T
  <2> DEFINE g == [k \in 1 .. L |-> IF k = n THEN Ones(s, n, f) ELSE f[k]]
  <2>1. \A k \in n + 1 .. L : Closed(f[k], s, k)
    <3>1. CASE n = L
      BY <1>1, <3>1
    <3>2. CASE n # L
      <4>1. n + 1 \in 1 .. L
        BY <3>2
      <4> QED BY <1>2, <4>1, OnesClosed
    <3> QED BY <3>1, <3>2
  <2>2. \A k \in 1 .. L : g[k] = IF k = n THEN Ones(s, n, f) ELSE f[k]
    OBVIOUS
  <2>3. g = [k \in 1 .. L |-> g[k]]
    OBVIOUS
  <2> HIDE DEF g, L
  <2>4. \A k \in n + 1 .. L : k # n /\ k \in 1 .. L
    BY <1>1
  <2>5. ASSUME NEW k \in n .. L PROVE Ones(s, k, f) = Ones(s, k, g)
    <3>1. \A q \in k + 1 .. L : q \in n + 1 .. L
      BY <1>1
    <3>2. \A q \in k + 1 .. L : f[q] = g[q] /\ Closed(f[q], s, q)
      BY <2>1, <2>2, <2>4, <3>1
    <3>3. k \in 1 .. Len(s) + 1
      BY <1>1 DEF L
    <3> QED BY <3>2, <3>3, OnesLocal DEF L
  <2>6. ASSUME NEW k \in n .. L PROVE g[k] = Ones(s, k, g)
    <3>1. CASE k = n
      BY <2>2, <2>5, <3>1
    <3>2. CASE k # n
      <4>1. k \in n + 1 .. L
        BY <1>1, <3>2
      <4> QED BY <1>2, <2>2, <2>4, <2>5, <4>1
    <3> QED BY <3>1, <3>2
  <2>7. Down(g, n)
    BY <2>3, <2>6
  <2> QED BY <2>7
<1>3. L \in T
  <2> DEFINE f == [k \in 1 .. L |-> Nil]
  <2>1. f = [k \in 1 .. L |-> f[k]]
    OBVIOUS
  <2> HIDE DEF f, L, T
  <2>2. L \in 1 .. L
    BY <1>1
  <2> QED BY <1>1, <1>2, <2>1, <2>2
<1>4. ASSUME NEW n \in 1 .. L, n # L, n + 1 \in T PROVE n \in T
  <2>1. PICK f : Down(f, n + 1)
    BY <1>4
  <2> HIDE DEF L, T
  <2> QED BY <1>2, <2>1
<1>5. 1 \in T
  <2> HIDE DEF T
  <2>1. 1 .. L \subseteq T
    BY <1>1, <1>3, <1>4, DownInduction
  <2> QED BY <1>1, <2>1
<1>6. PICK f : Eq(f)
  <2>1. PICK f : Down(f, 1)
    BY <1>5
  <2>2. [k \in 1 .. L |-> f[k]] = [k \in 1 .. L |-> Ones(s, k, f)]
    <3> HIDE DEF L
    <3> QED BY <2>1
  <2> QED BY <2>1, <2>2
<1>7. Skipped(s) = CHOOSE h : Eq(h)
  BY DEF Skipped
<1>8. Eq(Skipped(s))
  <2> HIDE DEF Eq
  <2> QED BY <1>6, <1>7
<1>9. \A k \in 1 .. L : Skipped(s)[k] = Ones(s, k, Skipped(s))
  BY <1>8
<1>10. \A k \in 1 .. L : Closed(Skipped(s)[k], s, k)
  BY <1>1, <1>9, OnesClosed
<1> QED BY <1>9, <1>10
-----------------------------------------------------------------------------
(* The reader into interface{}                                             *)

\* What an element can be inside of, and Closed for both.
Modes == {"list", "dict"}
BothClosed(f, s, k) == \A m \in Modes : Closed(f[<<m, k>>], s, k)

\* One value goes forward when lists and dictionaries do, and "e" is no value.
LEMMA GenericAdvances ==
  ASSUME NEW X, NEW s \in Seq(X), NEW i \in 1 .. Len(s) + 1, NEW inside,
         i <= Len(s) => BothClosed(inside, s, i + 1)
  PROVE  /\ Advances(GenericOf(s, i, inside), s, i)
         /\ GenericOf(s, i, inside).st = "end" =>
              i <= Len(s) /\ s[i] = "e" /\ GenericOf(s, i, inside).i = i + 1
<1>1. CASE i > Len(s)
  BY <1>1 DEF GenericOf, Err, Advances
<1> SUFFICES ASSUME i \in 1 .. Len(s)
             PROVE  /\ Advances(GenericOf(s, i, inside), s, i)
                    /\ GenericOf(s, i, inside).st = "end" =>
                         s[i] = "e" /\ GenericOf(s, i, inside).i = i + 1
  BY <1>1
<1>2. CASE s[i] = "e"
  BY <1>2 DEF GenericOf, Digit, End, Advances
<1>3. ASSUME NEW r, Closed(r, s, i + 1), GenericOf(s, i, inside) = r
      PROVE  /\ Advances(GenericOf(s, i, inside), s, i)
             /\ GenericOf(s, i, inside).st # "end"
  <2>1. \A n \in (i + 1) + 1 .. Len(s) + 1 : n \in i + 1 .. Len(s) + 1
    OBVIOUS
  <2> QED BY <1>3, <2>1 DEF Closed, Advances
<1>4. CASE s[i] = "d"
  <2>1. GenericOf(s, i, inside) = inside[<<"dict", i + 1>>]
    BY <1>4 DEF GenericOf, Digit
  <2>2. Closed(inside[<<"dict", i + 1>>], s, i + 1)
    BY DEF BothClosed, Modes
  <2> QED BY <1>3, <2>1, <2>2
<1>5. CASE s[i] = "l"
  <2>1. GenericOf(s, i, inside) = inside[<<"list", i + 1>>]
    BY <1>5 DEF GenericOf, Digit
  <2>2. Closed(inside[<<"list", i + 1>>], s, i + 1)
    BY DEF BothClosed, Modes
  <2> QED BY <1>3, <2>1, <2>2
<1>6. CASE s[i] = "i"
  <2>1. GenericOf(s, i, inside) = GenericInt(s, i + 1)
    BY <1>6 DEF GenericOf, Digit
  <2> QED BY <1>6, <2>1, IntExtent DEF Advances
<1>7. CASE s[i] \in Digit
  <2>1. GenericOf(s, i, inside) = Text(s, i)
    BY <1>7 DEF GenericOf, Digit
  <2> QED BY <1>7, <2>1, TextExtent DEF Advances
<1>8. CASE s[i] \notin {"e", "d", "l", "i"} \cup Digit
  BY <1>8 DEF GenericOf, Err, Advances
<1> QED BY <1>2, <1>4, <1>5, <1>6, <1>7, <1>8

\* So does the rest of a list or of a dictionary.
LEMMA InsideAdvances ==
  ASSUME NEW X, NEW s \in Seq(X), NEW i \in 1 .. Len(s) + 1, NEW inside,
         \A k \in i + 1 .. Len(s) + 1 : BothClosed(inside, s, k)
  PROVE  /\ Closed(GenericList(s, i, inside), s, i)
         /\ Closed(GenericDict(s, i, inside), s, i)
<1> DEFINE r == GenericOf(s, i, inside)
           e == GenericOf(s, r.i, inside)
           L == Len(s) + 1
<1>1. ASSUME NEW k \in i .. L
      PROVE  /\ Advances(GenericOf(s, k, inside), s, k)
             /\ GenericOf(s, k, inside).st = "end" =>
                  GenericOf(s, k, inside).i \in k + 1 .. L
  <2>1. k <= Len(s) => BothClosed(inside, s, k + 1)
    <3>1. k <= Len(s) => k + 1 \in i + 1 .. Len(s) + 1
      OBVIOUS
    <3> QED BY <3>1
  <2>2. k \in 1 .. Len(s) + 1
    OBVIOUS
  <2>3. /\ Advances(GenericOf(s, k, inside), s, k)
        /\ GenericOf(s, k, inside).st = "end" =>
             k <= Len(s) /\ GenericOf(s, k, inside).i = k + 1
    BY <2>1, <2>2, GenericAdvances
  <2>4. k <= Len(s) => k + 1 \in k + 1 .. L
    OBVIOUS
  <2> QED BY <2>3, <2>4
<1>2. i \in i .. L /\ L \in Nat
  OBVIOUS
<1>3. r.st \in {"ok", "end"} => r.i \in i + 1 .. L
  BY <1>1, <1>2 DEF Advances
<1>4. r.st = "ok" /\ e.st = "ok" => e.i \in i + 1 .. L
  <2> SUFFICES ASSUME r.st = "ok", e.st = "ok" PROVE e.i \in i + 1 .. L
    OBVIOUS
  <2>1. r.i \in i .. L /\ r.i > i
    BY <1>3
  <2>2. e.i \in r.i + 1 .. L
    BY <1>1, <2>1 DEF Advances
  <2> QED BY <2>1, <2>2
<1>5. ASSUME NEW q \in i + 1 .. L, NEW m \in Modes,
             inside[<<m, q>>].st = "ok"
      PROVE  inside[<<m, q>>].i \in i + 1 .. L
  <2>1. Closed(inside[<<m, q>>], s, q)
    BY <1>5 DEF BothClosed
  <2>2. inside[<<m, q>>].i \in q + 1 .. L
    BY <1>5, <2>1 DEF Closed, Advances
  <2> QED BY <2>2
<1> HIDE DEF r, L
<1>6. Closed(GenericList(s, i, inside), s, i)
  <2> DEFINE rest == inside[<<"list", r.i>>]
  <2>1. GenericList(s, i, inside) =
          CASE r.st = "end" -> Ok(<<"list", <<>>>>, r.i)
            [] r.st = "ok" -> IF rest.st = "ok"
                              THEN Before("list", r.v, rest) ELSE Err
            [] OTHER -> r
    BY DEF GenericList, r
  <2>2. r.st = "ok" /\ rest.st = "ok" => rest.i \in i + 1 .. L
    BY <1>3, <1>5 DEF Modes
  <2> HIDE DEF rest
  <2>3. CASE r.st = "end"
    <3>1. GenericList(s, i, inside) = Ok(<<"list", <<>>>>, r.i)
      BY <2>1, <2>3
    <3> QED BY <1>3, <2>3, <3>1 DEF Closed, Advances, Ok, L
  <2>4. CASE r.st = "ok" /\ rest.st = "ok"
    <3>1. GenericList(s, i, inside) = Before("list", r.v, rest)
      BY <2>1, <2>4
    <3> QED BY <2>2, <2>4, <3>1 DEF Closed, Advances, Before, Ok, L
  <2>5. CASE r.st = "ok" /\ rest.st # "ok"
    <3>1. GenericList(s, i, inside) = Err
      BY <2>1, <2>5
    <3> QED BY <3>1 DEF Closed, Advances, Err
  <2>6. CASE r.st \notin {"ok", "end"}
    <3>1. GenericList(s, i, inside) = r
      BY <2>1, <2>6
    <3> QED BY <2>6, <3>1 DEF Closed, Advances
  <2> QED BY <2>3, <2>4, <2>5, <2>6
<1>7. Closed(GenericDict(s, i, inside), s, i)
  <2> DEFINE rest == inside[<<"dict", e.i>>]
             both == /\ e.st = "ok" /\ rest.st = "ok"
                     /\ Ascends(r.v[2], rest.v[2])
  <2>1. GenericDict(s, i, inside) =
          CASE r.st = "end" -> Ok(<<"dict", <<>>>>, r.i)
            [] r.st = "ok" /\ r.v[1] = "str" ->
                 IF both THEN Before("dict", <<r.v[2], e.v>>, rest) ELSE Err
            [] OTHER -> Err
    BY DEF GenericDict, r
  <2>2. r.st = "ok" /\ both => rest.i \in i + 1 .. L
    BY <1>4, <1>5 DEF Modes
  <2> HIDE DEF rest, e, both
  <2>3. CASE r.st = "end"
    <3>1. GenericDict(s, i, inside) = Ok(<<"dict", <<>>>>, r.i)
      BY <2>1, <2>3
    <3> QED BY <1>3, <2>3, <3>1 DEF Closed, Advances, Ok, L
  <2>4. CASE r.st = "ok" /\ r.v[1] = "str" /\ both
    <3>1. GenericDict(s, i, inside) = Before("dict", <<r.v[2], e.v>>, rest)
      BY <2>1, <2>4
    <3> QED BY <2>2, <2>4, <3>1 DEF Closed, Advances, Before, Ok, L
  <2>5. CASE r.st # "end" /\ ~(r.st = "ok" /\ r.v[1] = "str" /\ both)
    <3>1. GenericDict(s, i, inside) = Err
      BY <2>1, <2>5
    <3> QED BY <3>1 DEF Closed, Advances, Err
  <2> QED BY <2>3, <2>4, <2>5
<1> QED BY <1>6, <1>7

\* It depends on what comes later alone.
LEMMA InsideLocal ==
  ASSUME NEW X, NEW s \in Seq(X), NEW i \in 1 .. Len(s) + 1, NEW f, NEW g,
         \A k \in i + 1 .. Len(s) + 1 :
           BothClosed(f, s, k) /\ \A m \in Modes : f[<<m, k>>] = g[<<m, k>>]
  PROVE  /\ GenericList(s, i, f) = GenericList(s, i, g)
         /\ GenericDict(s, i, f) = GenericDict(s, i, g)
<1> DEFINE L == Len(s) + 1
           r == GenericOf(s, i, f)
           e == GenericOf(s, r.i, f)
<1>1. ASSUME NEW k \in i .. L
      PROVE  /\ GenericOf(s, k, f) = GenericOf(s, k, g)
             /\ Advances(GenericOf(s, k, f), s, k)
  <2>1. k <= Len(s) =>
          /\ BothClosed(f, s, k + 1)
          /\ \A m \in Modes : f[<<m, k + 1>>] = g[<<m, k + 1>>]
    <3>1. k <= Len(s) => k + 1 \in i + 1 .. Len(s) + 1
      OBVIOUS
    <3> QED BY <3>1
  <2>2. k \in 1 .. Len(s) + 1
    OBVIOUS
  <2>3. Advances(GenericOf(s, k, f), s, k)
    BY <2>1, <2>2, GenericAdvances
  <2>4. k <= Len(s) => /\ f[<<"list", k + 1>>] = g[<<"list", k + 1>>]
                       /\ f[<<"dict", k + 1>>] = g[<<"dict", k + 1>>]
    BY <2>1 DEF Modes
  <2>5. GenericOf(s, k, f) = GenericOf(s, k, g)
    BY <2>2, <2>4 DEF GenericOf
  <2> QED BY <2>3, <2>5
<1>2. /\ r = GenericOf(s, i, g)
      /\ r.st = "ok" => r.i \in i + 1 .. L
  <2>1. i \in i .. L
    OBVIOUS
  <2> QED BY <1>1, <2>1 DEF Advances
<1>3. r.st = "ok" => /\ e = GenericOf(s, r.i, g)
                     /\ e.st = "ok" => e.i \in i + 1 .. L
  <2> SUFFICES ASSUME r.st = "ok"
               PROVE  /\ e = GenericOf(s, r.i, g)
                      /\ e.st = "ok" => e.i \in i + 1 .. L
    OBVIOUS
  <2>1. r.i \in i .. L /\ r.i > i
    BY <1>2
  <2>2. e = GenericOf(s, r.i, g) /\ (e.st = "ok" => e.i \in r.i + 1 .. L)
    BY <1>1, <2>1 DEF Advances
  <2> QED BY <2>1, <2>2
<1>4. r.st = "ok" => f[<<"list", r.i>>] = g[<<"list", r.i>>]
  BY <1>2 DEF Modes
<1>5. r.st = "ok" /\ e.st = "ok" => f[<<"dict", e.i>>] = g[<<"dict", e.i>>]
  BY <1>3 DEF Modes
<1> HIDE DEF r, L
<1>6. GenericList(s, i, f) = GenericList(s, i, g)
  BY <1>2, <1>4 DEF GenericList, r
<1>7. GenericDict(s, i, f) = GenericDict(s, i, g)
  <2>1. CASE r.st # "ok"
    BY <1>2, <2>1 DEF GenericDict, r
  <2>2. CASE r.st = "ok" /\ e.st # "ok"
    BY <1>2, <1>3, <2>2 DEF GenericDict, r
  <2>3. CASE r.st = "ok" /\ e.st = "ok"
    BY <1>2, <1>3, <1>5, <2>3 DEF GenericDict, r
  <2> QED BY <2>1, <2>2, <2>3
<1> QED BY <1>6, <1>7

\* At k, f says of lists and of dictionaries what the code makes of them.
Solves(f, s, k) == /\ f[<<"list", k>>] = GenericList(s, k, f)
                   /\ f[<<"dict", k>>] = GenericDict(s, k, f)

\* Where a function satisfies the equation of inside, it goes forward.
LEMMA InsideClosed ==
  ASSUME NEW X, NEW s \in Seq(X), NEW n \in 1 .. Len(s) + 1, NEW f,
         \A k \in n .. Len(s) + 1 : Solves(f, s, k)
  PROVE  \A k \in n .. Len(s) + 1 : BothClosed(f, s, k)
<1> DEFINE L == Len(s) + 1
           T == {m \in 1 .. L : m >= n =>
                   \A k \in m .. L : BothClosed(f, s, k)}
<1>1. L \in Nat /\ L >= 1
  OBVIOUS
<1>2. ASSUME NEW m \in 1 .. L, m >= n,
             \A k \in m + 1 .. L : BothClosed(f, s, k)
      PROVE  \A k \in m .. L : BothClosed(f, s, k)
  <2>1. /\ Closed(GenericList(s, m, f), s, m)
        /\ Closed(GenericDict(s, m, f), s, m)
    BY <1>2, InsideAdvances
  <2>2. m \in n .. L
    BY <1>2
  <2>3. BothClosed(f, s, m)
    BY <2>1, <2>2 DEF Solves, BothClosed, Modes
  <2>4. \A k \in m .. L : k = m \/ k \in m + 1 .. L
    OBVIOUS
  <2> QED BY <1>2, <2>3, <2>4
<1>3. L \in T
  <2>1. L + 1 .. L = {} /\ L \in 1 .. L /\ L >= n
    OBVIOUS
  <2> HIDE DEF L
  <2> QED BY <1>2, <2>1
<1>4. ASSUME NEW m \in 1 .. L, m # L, m + 1 \in T PROVE m \in T
  <2> HIDE DEF L
  <2>1. m >= n => m + 1 >= n
    BY <1>1
  <2> QED BY <1>2, <1>4, <2>1
<1>5. n \in T
  <2> HIDE DEF T
  <2>1. 1 .. L \subseteq T
    BY <1>1, <1>3, <1>4, DownInduction
  <2> QED BY <2>1
<1> QED BY <1>5

\* Insides satisfies its equation.
LEMMA InsidesFacts ==
  ASSUME NEW X, NEW s \in Seq(X)
  PROVE  \A k \in 1 .. Len(s) + 1 :
           Solves(Insides(s), s, k) /\ BothClosed(Insides(s), s, k)
<1> DEFINE L == Len(s) + 1
           D == {"list", "dict"} \X (1 .. L)
           Eq(f) == f = [at \in D |-> IF at[1] = "list"
                                      THEN GenericList(s, at[2], f)
                                      ELSE GenericDict(s, at[2], f)]
           Down(f, n) == \A k \in n .. L : Solves(f, s, k)
           T == {n \in 1 .. L : \E f : Down(f, n)}
<1>1. L \in Nat /\ L >= 1 /\ L + 1 .. L = {}
  OBVIOUS
<1>2. /\ \A k \in 1 .. L : <<"list", k>> \in D /\ <<"dict", k>> \in D
      /\ \A at \in D : at[2] \in 1 .. L /\ (at = <<"list", at[2]>>
                                            \/ at = <<"dict", at[2]>>)
  OBVIOUS
<1>3. ASSUME NEW n \in 1 .. L, NEW f, \A k \in n + 1 .. L : Solves(f, s, k)
      PROVE  n \in T
  <2> DEFINE here(at) == IF at[1] = "list" THEN GenericList(s, n, f)
                         ELSE GenericDict(s, n, f)
             g == [at \in D |-> IF at[2] = n THEN here(at) ELSE f[at]]
  <2>1. \A k \in n + 1 .. L : BothClosed(f, s, k)
    <3>1. CASE n = L
      BY <1>1, <3>1
    <3>2. CASE n # L
      <4>1. n + 1 \in 1 .. L
        BY <3>2
      <4> QED BY <1>3, <4>1, InsideClosed
    <3> QED BY <3>1, <3>2
  <2>2. /\ g[<<"list", n>>] = GenericList(s, n, f)
        /\ g[<<"dict", n>>] = GenericDict(s, n, f)
    BY <1>2
  <2>3. \A k \in 1 .. L : k # n => /\ g[<<"list", k>>] = f[<<"list", k>>]
                                   /\ g[<<"dict", k>>] = f[<<"dict", k>>]
    BY <1>2
  <2> HIDE DEF g, D
  <2>4. ASSUME NEW k \in n .. L
        PROVE  /\ GenericList(s, k, f) = GenericList(s, k, g)
               /\ GenericDict(s, k, f) = GenericDict(s, k, g)
    <3>1. ASSUME NEW q \in k + 1 .. L
          PROVE  /\ BothClosed(f, s, q)
                 /\ \A m \in Modes : f[<<m, q>>] = g[<<m, q>>]
      <4>1. q \in n + 1 .. L /\ q # n /\ q \in 1 .. L
        OBVIOUS
      <4> QED BY <2>1, <2>3, <4>1 DEF Modes
    <3>2. k \in 1 .. Len(s) + 1
      OBVIOUS
    <3> HIDE DEF L
    <3> QED BY <3>1, <3>2, InsideLocal DEF L
  <2>5. ASSUME NEW k \in n .. L PROVE Solves(g, s, k)
    <3>1. CASE k = n
      BY <2>2, <2>4, <3>1 DEF Solves
    <3>2. CASE k # n
      <4>1. k \in n + 1 .. L /\ k \in 1 .. L
        BY <1>1, <3>2
      <4> QED BY <1>3, <2>3, <2>4, <3>2, <4>1 DEF Solves
    <3> QED BY <3>1, <3>2
  <2> QED BY <2>5
<1>4. L \in T
  <2>1. L \in 1 .. L
    BY <1>1
  <2> HIDE DEF L, T
  <2> QED BY <1>1, <1>3, <2>1
<1>5. ASSUME NEW n \in 1 .. L, n # L, n + 1 \in T PROVE n \in T
  <2>1. PICK f : Down(f, n + 1)
    BY <1>5
  <2> HIDE DEF L, T
  <2> QED BY <1>3, <2>1
<1>6. 1 \in T
  <2> HIDE DEF T
  <2>1. 1 .. L \subseteq T
    BY <1>1, <1>4, <1>5, DownInduction
  <2> QED BY <1>1, <2>1
<1>7. \E f : Eq(f)
  <2>1. PICK f : Down(f, 1)
    BY <1>6
  <2> DEFINE g == [at \in D |-> f[at]]
  <2>2. \A k \in 1 .. L : /\ g[<<"list", k>>] = f[<<"list", k>>]
                          /\ g[<<"dict", k>>] = f[<<"dict", k>>]
    BY <1>2
  <2>3. DOMAIN g = D /\ g = [at \in D |-> g[at]]
    OBVIOUS
  <2>4. \A k \in 1 .. L : BothClosed(f, s, k)
    <3>1. 1 \in 1 .. Len(s) + 1
      BY <1>1
    <3> QED BY <2>1, <3>1, InsideClosed
  <2> HIDE DEF g
  <2>5. ASSUME NEW k \in 1 .. L
        PROVE  /\ g[<<"list", k>>] = GenericList(s, k, g)
               /\ g[<<"dict", k>>] = GenericDict(s, k, g)
    <3>1. \A q \in k + 1 .. L : q \in 1 .. L
      OBVIOUS
    <3>2. \A q \in k + 1 .. L :
            BothClosed(f, s, q) /\ \A m \in Modes : f[<<m, q>>] = g[<<m, q>>]
      BY <2>2, <2>4, <3>1 DEF Modes
    <3>3. /\ GenericList(s, k, f) = GenericList(s, k, g)
          /\ GenericDict(s, k, f) = GenericDict(s, k, g)
      BY <3>2, InsideLocal
    <3>4. Solves(f, s, k)
      BY <2>1
    <3> QED BY <2>2, <3>3, <3>4 DEF Solves
  <2>6. \A at \in D : g[at] = IF at[1] = "list" THEN GenericList(s, at[2], g)
                              ELSE GenericDict(s, at[2], g)
    <3> SUFFICES ASSUME NEW at \in D
                 PROVE  g[at] = IF at[1] = "list"
                                THEN GenericList(s, at[2], g)
                                ELSE GenericDict(s, at[2], g)
      OBVIOUS
    <3>1. at[2] \in 1 .. L /\ (at = <<"list", at[2]>> \/ at = <<"dict", at[2]>>)
      BY <1>2
    <3> DEFINE k == at[2]
    <3> HIDE DEF D, L, k
    <3>2. /\ g[<<"list", k>>] = GenericList(s, k, g)
          /\ g[<<"dict", k>>] = GenericDict(s, k, g)
      BY <2>5, <3>1 DEF k
    <3>3. CASE at = <<"list", k>>
      <4>1. at[1] = "list" /\ at[2] = k
        BY <3>3
      <4>2. g[at] = GenericList(s, k, g)
        BY <3>2, <3>3
      <4> QED BY <4>1, <4>2
    <3>4. CASE at = <<"dict", k>>
      <4>1. at[1] # "list" /\ at[2] = k
        BY <3>4
      <4>2. g[at] = GenericDict(s, k, g)
        BY <3>2, <3>4
      <4> QED BY <4>1, <4>2
    <3> QED BY <3>1, <3>3, <3>4 DEF k
  <2> HIDE DEF D
  <2> QED BY <2>3, <2>6
<1>8. Insides(s) = CHOOSE h : Eq(h)
  BY DEF Insides
<1>9. Eq(Insides(s))
  <2> HIDE DEF Eq
  <2> QED BY <1>7, <1>8
<1>10. \A k \in 1 .. L : Solves(Insides(s), s, k)
  <2> SUFFICES ASSUME NEW k \in 1 .. L PROVE Solves(Insides(s), s, k)
    OBVIOUS
  <2> DEFINE h == Insides(s)
  <2>1. \A at \in D : h[at] = IF at[1] = "list" THEN GenericList(s, at[2], h)
                              ELSE GenericDict(s, at[2], h)
    <3> HIDE DEF D
    <3> QED BY <1>9
  <2>2. <<"list", k>> \in D /\ <<"dict", k>> \in D
    BY <1>2
  <2> HIDE DEF h, D
  <2>3. /\ h[<<"list", k>>] = GenericList(s, k, h)
        /\ h[<<"dict", k>>] = GenericDict(s, k, h)
    BY <2>1, <2>2
  <2> QED BY <2>3 DEF Solves, h
<1>11. \A k \in 1 .. L : BothClosed(Insides(s), s, k)
  BY <1>1, <1>10, InsideClosed
<1> QED BY <1>10, <1>11
-----------------------------------------------------------------------------
(* Both take the same bytes                                                *)

\* What is accepted is skipped, and to the same place.
Same(r, o) == r.st = "ok" => o.st = "ok" /\ o.i = r.i

\* One value, when the insides of lists and dictionaries are the same.
LEMMA ValuesSame ==
  ASSUME NEW X, NEW s \in Seq(X), NEW i \in 1 .. Len(s) + 1, NEW f, NEW g,
         i <= Len(s) => \A m \in Modes : Same(f[<<m, i + 1>>], g[i + 1]),
         i <= Len(s) => BothClosed(f, s, i + 1)
  PROVE  /\ Same(GenericOf(s, i, f), OneOf(s, i, g))
         /\ GenericOf(s, i, f).st = "end" =>
              /\ OneOf(s, i, g).st = "end"
              /\ OneOf(s, i, g).i + 1 = GenericOf(s, i, f).i
<1>1. CASE i > Len(s)
  BY <1>1 DEF GenericOf, Err, Same
<1> SUFFICES ASSUME i \in 1 .. Len(s)
             PROVE  /\ Same(GenericOf(s, i, f), OneOf(s, i, g))
                    /\ GenericOf(s, i, f).st = "end" =>
                         /\ OneOf(s, i, g).st = "end"
                         /\ OneOf(s, i, g).i + 1 = GenericOf(s, i, f).i
  BY <1>1
<1>2. GenericOf(s, i, f).st = "end" => s[i] = "e"
  BY GenericAdvances
<1>3. CASE s[i] = "e"
  <2>1. GenericOf(s, i, f) = End(i + 1) /\ OneOf(s, i, g) = End(i)
    BY <1>3 DEF GenericOf, OneOf, Digit
  <2> QED BY <2>1 DEF End, Same
<1>4. CASE s[i] = "d"
  <2>1. GenericOf(s, i, f) = f[<<"dict", i + 1>>] /\ OneOf(s, i, g) = g[i + 1]
    BY <1>4 DEF GenericOf, OneOf, Digit
  <2> QED BY <1>2, <1>4, <2>1 DEF Modes
<1>5. CASE s[i] = "l"
  <2>1. GenericOf(s, i, f) = f[<<"list", i + 1>>] /\ OneOf(s, i, g) = g[i + 1]
    BY <1>5 DEF GenericOf, OneOf, Digit
  <2> QED BY <1>2, <1>5, <2>1 DEF Modes
<1>6. CASE s[i] = "i"
  <2>1. GenericOf(s, i, f) = GenericInt(s, i + 1)
    BY <1>6 DEF GenericOf, Digit
  <2>2. GenericInt(s, i + 1).st = "ok" =>
          OneOf(s, i, g) = Ok(Nil, GenericInt(s, i + 1).i)
    BY <1>6, IntExtent
  <2> QED BY <1>2, <1>6, <2>1, <2>2 DEF Same, Ok
<1>7. CASE s[i] \in Digit
  <2>1. GenericOf(s, i, f) = Text(s, i)
    BY <1>7 DEF GenericOf, Digit
  <2>2. Text(s, i).st = "ok" => OneOf(s, i, g) = Ok(Nil, Text(s, i).i)
    BY <1>7, TextExtent
  <2>3. s[i] # "e"
    BY <1>7 DEF Digit
  <2> QED BY <1>2, <2>1, <2>2, <2>3 DEF Same, Ok
<1>8. CASE s[i] \notin {"e", "d", "l", "i"} \cup Digit
  BY <1>8 DEF GenericOf, Err, Same
<1> QED BY <1>3, <1>4, <1>5, <1>6, <1>7, <1>8

\* The rest of a list or of a dictionary, when what comes later is the same.
LEMMA InsidesSame ==
  ASSUME NEW X, NEW s \in Seq(X), NEW i \in 1 .. Len(s) + 1, NEW f, NEW g,
         \A k \in i + 1 .. Len(s) + 1 :
           BothClosed(f, s, k) /\ \A m \in Modes : Same(f[<<m, k>>], g[k]),
         \A k \in i .. Len(s) + 1 : g[k] = Ones(s, k, g)
  PROVE  /\ Same(GenericList(s, i, f), g[i])
         /\ Same(GenericDict(s, i, f), g[i])
<1> DEFINE L == Len(s) + 1
           r == GenericOf(s, i, f)
           o == OneOf(s, i, g)
           e == GenericOf(s, r.i, f)
           oe == OneOf(s, r.i, g)
<1>1. ASSUME NEW k \in i .. L
      PROVE  /\ Same(GenericOf(s, k, f), OneOf(s, k, g))
             /\ GenericOf(s, k, f).st = "end" =>
                  /\ OneOf(s, k, g).st = "end"
                  /\ OneOf(s, k, g).i + 1 = GenericOf(s, k, f).i
             /\ Advances(GenericOf(s, k, f), s, k)
  <2>1. k <= Len(s) => /\ BothClosed(f, s, k + 1)
                       /\ \A m \in Modes : Same(f[<<m, k + 1>>], g[k + 1])
    <3>1. k <= Len(s) => k + 1 \in i + 1 .. Len(s) + 1
      OBVIOUS
    <3> QED BY <3>1
  <2>2. k \in 1 .. Len(s) + 1
    OBVIOUS
  <2> QED BY <2>1, <2>2, ValuesSame, GenericAdvances
<1>2. i \in i .. L
  OBVIOUS
<1>3. ASSUME NEW k \in i .. L
      PROVE  /\ OneOf(s, k, g).st = "end" =>
                  g[k] = Ok(Nil, OneOf(s, k, g).i + 1)
             /\ OneOf(s, k, g).st = "ok" => g[k] = g[OneOf(s, k, g).i]
  <2>1. g[k] = Ones(s, k, g)
    OBVIOUS
  <2> QED BY <2>1 DEF Ones
<1>4. r.st = "end" => g[i] = Ok(Nil, r.i)
  BY <1>1, <1>2, <1>3
<1>5. r.st = "ok" => r.i \in i + 1 .. L /\ g[i] = g[r.i]
  BY <1>1, <1>2, <1>3 DEF Same, Advances
<1>6. r.st = "ok" /\ e.st = "ok" => e.i \in i + 1 .. L /\ g[i] = g[e.i]
  <2> SUFFICES ASSUME r.st = "ok", e.st = "ok"
               PROVE  e.i \in i + 1 .. L /\ g[i] = g[e.i]
    OBVIOUS
  <2>1. r.i \in i .. L /\ r.i > i /\ g[i] = g[r.i]
    BY <1>5
  <2>2. e.i \in r.i + 1 .. L /\ g[r.i] = g[e.i]
    BY <1>1, <1>3, <2>1 DEF Same, Advances
  <2> QED BY <2>1, <2>2
<1>7. Same(GenericList(s, i, f), g[i])
  <2> DEFINE rest == f[<<"list", r.i>>]
  <2>1. r.st = "ok" => Same(rest, g[i])
    BY <1>5 DEF Modes
  <2>2. GenericList(s, i, f) =
          CASE r.st = "end" -> Ok(<<"list", <<>>>>, r.i)
            [] r.st = "ok" -> IF rest.st = "ok"
                              THEN Before("list", r.v, rest) ELSE Err
            [] OTHER -> r
    BY DEF GenericList
  <2> HIDE DEF r, rest
  <2>3. CASE r.st = "end"
    BY <1>4, <2>2, <2>3 DEF Same, Ok
  <2>4. CASE r.st = "ok" /\ rest.st = "ok"
    <3>1. GenericList(s, i, f) = Before("list", r.v, rest)
      BY <2>2, <2>4
    <3> QED BY <2>1, <2>4, <3>1 DEF Same, Before, Ok
  <2>5. CASE r.st = "ok" /\ rest.st # "ok"
    <3>1. GenericList(s, i, f) = Err
      BY <2>2, <2>5
    <3> QED BY <3>1 DEF Same, Err
  <2>6. CASE r.st \notin {"ok", "end"}
    BY <2>2, <2>6 DEF Same
  <2> QED BY <2>3, <2>4, <2>5, <2>6
<1>8. Same(GenericDict(s, i, f), g[i])
  <2> DEFINE rest == f[<<"dict", e.i>>]
             both == /\ e.st = "ok" /\ rest.st = "ok"
                     /\ Ascends(r.v[2], rest.v[2])
  <2>1. r.st = "ok" /\ both => Same(rest, g[i])
    BY <1>6 DEF Modes
  <2>2. GenericDict(s, i, f) =
          CASE r.st = "end" -> Ok(<<"dict", <<>>>>, r.i)
            [] r.st = "ok" /\ r.v[1] = "str" ->
                 IF both THEN Before("dict", <<r.v[2], e.v>>, rest) ELSE Err
            [] OTHER -> Err
    BY DEF GenericDict
  <2>3. both => rest.st = "ok"
    OBVIOUS
  <2> HIDE DEF r, e, rest, both
  <2>4. CASE r.st = "end"
    BY <1>4, <2>2, <2>4 DEF Same, Ok
  <2>5. CASE r.st = "ok" /\ r.v[1] = "str" /\ both
    <3>1. GenericDict(s, i, f) = Before("dict", <<r.v[2], e.v>>, rest)
      BY <2>2, <2>5
    <3> QED BY <2>1, <2>3, <2>5, <3>1 DEF Same, Before, Ok
  <2>6. CASE r.st # "end" /\ ~(r.st = "ok" /\ r.v[1] = "str" /\ both)
    <3>1. GenericDict(s, i, f) = Err
      BY <2>2, <2>6
    <3> QED BY <3>1 DEF Same, Err
  <2> QED BY <2>4, <2>5, <2>6
<1> QED BY <1>7, <1>8

\* Of any input, of any length and however lists and dictionaries are nested:
\* where the reader into interface{} accepts a value, the skipper that cuts raw
\* values out of the stream takes the same bytes (decoder.go:138-209, 687-829).
THEOREM SkipperFindsExtent ==
  ASSUME NEW X, NEW s \in Seq(X)
  PROVE  SameExtent(s)
<1> DEFINE L == Len(s) + 1
           f == Insides(s)
           g == Skipped(s)
           T == {n \in 1 .. L : \A k \in n .. L, m \in Modes :
                                  Same(f[<<m, k>>], g[k])}
<1>1. L \in Nat /\ L >= 1 /\ L + 1 .. L = {}
  OBVIOUS
<1>2. \A k \in 1 .. L : /\ f[<<"list", k>>] = GenericList(s, k, f)
                        /\ f[<<"dict", k>>] = GenericDict(s, k, f)
                        /\ BothClosed(f, s, k)
                        /\ g[k] = Ones(s, k, g)
  BY InsidesFacts, SkippedFacts DEF Solves
<1> HIDE DEF f, g
<1>3. ASSUME NEW n \in 1 .. L,
             \A k \in n + 1 .. L, m \in Modes : Same(f[<<m, k>>], g[k])
      PROVE  n \in T
  <2>1. Same(GenericList(s, n, f), g[n]) /\ Same(GenericDict(s, n, f), g[n])
    <3>1. \A k \in n + 1 .. L : k \in 1 .. L
      OBVIOUS
    <3>2. \A k \in n .. L : k \in 1 .. L
      OBVIOUS
    <3> QED BY <1>2, <1>3, <3>1, <3>2, InsidesSame
  <2>2. \A m \in Modes : Same(f[<<m, n>>], g[n])
    BY <1>2, <2>1 DEF Modes
  <2>3. \A k \in n .. L : k = n \/ k \in n + 1 .. L
    OBVIOUS
  <2> QED BY <1>3, <2>2, <2>3
<1>4. L \in T
  <2>1. L \in 1 .. L
    BY <1>1
  <2> HIDE DEF L, T
  <2> QED BY <1>1, <1>3, <2>1
<1>5. ASSUME NEW n \in 1 .. L, n # L, n + 1 \in T PROVE n \in T
  <2> HIDE DEF L
  <2>1. \A k \in n + 1 .. L, m \in Modes : Same(f[<<m, k>>], g[k])
    BY <1>5
  <2> HIDE DEF T
  <2> QED BY <1>3, <2>1
<1>6. 1 \in T
  <2> HIDE DEF T
  <2>1. 1 .. L \subseteq T
    BY <1>1, <1>4, <1>5, DownInduction
  <2> QED BY <1>1, <2>1
<1>7. ASSUME NEW i \in 1 .. Len(s) PROVE Same(Generic(s, i), One(s, i))
  <2>1. i \in 1 .. L /\ i + 1 \in 1 .. L
    OBVIOUS
  <2>2. \A m \in Modes : Same(f[<<m, i + 1>>], g[i + 1])
    BY <1>6, <2>1
  <2>3. Same(GenericOf(s, i, f), OneOf(s, i, g))
    BY <1>2, <2>1, <2>2, ValuesSame
  <2> QED BY <2>3 DEF Generic, One, f, g
<1> QED BY <1>7 DEF SameExtent, Same
-----------------------------------------------------------------------------
(* Numbers that are written                                                *)

\* The last digit of a number and those before it.
LEMMA Tens ==
  /\ \A m \in Nat : /\ m \div 10 \in Nat /\ m % 10 \in 0 .. 9
                    /\ m = 10 * (m \div 10) + (m % 10)
                    /\ m >= 10 => m \div 10 >= 1 /\ m \div 10 < m
  /\ \A q \in Nat, d \in 0 .. 9 : /\ (10 * q + d) \div 10 = q
                                  /\ (10 * q + d) % 10 = d
  OBVIOUS

\* Digits that do not begin with zero unless that is all, one more on the
\* right, and the function by which the encoder spells the numbers up to N.
Plain(t) == /\ t \in Seq(Digit) /\ t # <<>>
            /\ Len(t) = 1 \/ t[1] # "0"
Longer(t, u, c) == Plain(u) /\ u[1] # "0" /\ t = Append(u, c)
Spells(f, N) ==
    f = [m \in 0 .. N |-> IF m < 10 THEN <<DigitOf(m)>>
                          ELSE Append(f[m \div 10], DigitOf(m % 10))]

\* What a function that spells numbers does at one of them.
LEMMA SpellsAt ==
  ASSUME NEW N \in Nat, NEW f, Spells(f, N), NEW m \in 0 .. N
  PROVE  /\ m < 10 => f[m] = <<DigitOf(m)>>
         /\ m >= 10 => f[m] = Append(f[m \div 10], DigitOf(m % 10))
<1>1. f = [n \in 0 .. N |-> IF n < 10 THEN <<DigitOf(n)>>
                            ELSE Append(f[n \div 10], DigitOf(n % 10))]
  BY DEF Spells
<1>2. f[m] = IF m < 10 THEN <<DigitOf(m)>>
             ELSE Append(f[m \div 10], DigitOf(m % 10))
  BY <1>1
<1>3. ~(m >= 10 /\ m < 10)
  OBVIOUS
<1> QED BY <1>2, <1>3

\* Plain numerals with one digit, and with more.
LEMMA PlainParts ==
  ASSUME NEW t, Plain(t)
  PROVE  \/ \E c \in Digit : t = <<c>>
         \/ \E u \in Seq(Digit), c \in Digit : Longer(t, u, c)
<1>1. t \in Seq(Digit) /\ Len(t) \in Nat /\ Len(t) >= 1
  BY DEF Plain
<1>2. Len(t) = 1 \/ t[1] # "0"
  BY DEF Plain
<1>3. Len(t) = 1 \/ (Len(t) > 1 /\ Len(t) # 1)
  <2> DEFINE N == Len(t)
  <2>1. N \in Nat /\ N >= 1
    BY <1>1
  <2> HIDE DEF N
  <2>2. N = 1 \/ (N > 1 /\ N # 1)
    BY <2>1
  <2> QED BY <2>2 DEF N
<1>4. CASE Len(t) = 1
  <2>1. t = <<t[1]>> /\ t[1] \in Digit
    BY <1>1, <1>4
  <2> QED BY <2>1
<1>5. CASE Len(t) > 1 /\ Len(t) # 1
  <2> DEFINE u == SubSeq(t, 1, Len(t) - 1)
  <2>1. /\ u \in Seq(Digit) /\ Len(u) = Len(t) - 1 /\ u[1] = t[1]
        /\ t[Len(t)] \in Digit /\ t = Append(u, t[Len(t)])
    BY <1>1, <1>5
  <2> HIDE DEF u
  <2>2. u # <<>>
    BY <1>5, <2>1
  <2>3. t[1] # "0"
    BY <1>2, <1>5
  <2>4. Plain(u) /\ u[1] # "0"
    BY <2>1, <2>2, <2>3 DEF Plain
  <2> QED BY <2>1, <2>4 DEF Longer
<1> QED BY <1>3, <1>4, <1>5

\* A numeral that begins with another digit than zero is not zero.
LEMMA PlainPositive ==
  \A n \in Nat : \A t : Plain(t) /\ Len(t) = n + 1 /\ t[1] # "0" =>
                          Magnitude(t) \in Nat /\ Magnitude(t) >= 1
<1> DEFINE T == {n \in Nat : \A t : Plain(t) /\ Len(t) = n + 1 /\ t[1] # "0" =>
                               Magnitude(t) \in Nat /\ Magnitude(t) >= 1}
<1>1. 0 \in T
  <2> SUFFICES ASSUME NEW t, Plain(t), Len(t) = 1, t[1] # "0"
               PROVE  Magnitude(t) \in Nat /\ Magnitude(t) >= 1
    OBVIOUS
  <2>1. t = <<t[1]>> /\ t[1] \in Digit
    BY DEF Plain
  <2>2. Magnitude(t) = Ord[t[1]] - 2
    BY <2>1, MagnitudeOfOne
  <2>3. Ord[t[1]] - 2 \in 0 .. 9 /\ Ord[t[1]] - 2 # 0
    BY <2>1, DigitFacts
  <2> QED BY <2>2, <2>3
<1>2. ASSUME NEW n \in Nat, n \in T PROVE n + 1 \in T
  <2> SUFFICES ASSUME NEW t, Plain(t), Len(t) = (n + 1) + 1, t[1] # "0"
               PROVE  Magnitude(t) \in Nat /\ Magnitude(t) >= 1
    OBVIOUS
  <2>1. PICK u \in Seq(Digit), c \in Digit : Longer(t, u, c)
    <3>1. ASSUME NEW c \in Digit, t = <<c>> PROVE FALSE
      BY <3>1
    <3>2. \/ \E c \in Digit : t = <<c>>
          \/ \E u \in Seq(Digit), c \in Digit : Longer(t, u, c)
      BY PlainParts
    <3> QED BY <3>1, <3>2
  <2>2. u \in Seq(Digit) /\ Len(u) = n + 1
    BY <2>1 DEF Longer
  <2>3. Magnitude(u) \in Nat /\ Magnitude(u) >= 1
    BY <1>2, <2>1, <2>2 DEF Longer
  <2>4. Magnitude(t) = 10 * Magnitude(u) + (Ord[c] - 2)
    BY <2>1, <2>2, MagnitudeAppend DEF Longer
  <2>5. Ord[c] - 2 \in 0 .. 9
    BY DigitFacts
  <2> DEFINE d == Ord[c] - 2
  <2> HIDE DEF d
  <2> QED BY <2>3, <2>4, <2>5 DEF d
<1>3. Nat \subseteq T
  <2> HIDE DEF T
  <2> QED BY <1>1, <1>2, SetInduction
<1> QED BY <1>3

\* The digits of a number spell it, and nothing else does.
LEMMA SpellsFacts ==
  ASSUME NEW N \in Nat, NEW f, Spells(f, N)
  PROVE  \A m \in 0 .. N :
           /\ Plain(f[m]) /\ Magnitude(f[m]) = m
           /\ m > 0 => f[m][1] # "0"
           /\ \A t : Plain(t) /\ Magnitude(t) = m => t = f[m]
<1> DEFINE Good(m) == /\ Plain(f[m]) /\ Magnitude(f[m]) = m
                      /\ m > 0 => f[m][1] # "0"
                      /\ \A t : Plain(t) /\ Magnitude(t) = m => t = f[m]
           T == {n \in Nat : \A m \in 0 .. n : m <= N => Good(m)}
<1>1. ASSUME NEW m \in 0 .. N, m < 10 PROVE Good(m)
  <2>1. f[m] = <<DigitOf(m)>> /\ m \in 0 .. 9
    BY <1>1, SpellsAt
  <2>2. DigitOf(m) \in Digit /\ Ord[DigitOf(m)] - 2 = m
    BY <2>1, DigitFacts
  <2>3. Plain(f[m]) /\ f[m][1] = DigitOf(m)
    BY <2>1, <2>2 DEF Plain
  <2>4. Magnitude(f[m]) = m
    BY <2>1, <2>2, MagnitudeOfOne
  <2>5. m > 0 => DigitOf(m) # "0"
    BY <2>1, <2>2, DigitFacts
  <2>6. ASSUME NEW t, Plain(t), Magnitude(t) = m PROVE t = f[m]
    <3>1. CASE \E c \in Digit : t = <<c>>
      <4>1. PICK c \in Digit : t = <<c>>
        BY <3>1
      <4>2. Ord[c] - 2 = m
        BY <2>6, <4>1, MagnitudeOfOne
      <4> QED BY <2>1, <4>1, <4>2, DigitFacts
    <3>2. CASE \E u \in Seq(Digit), c \in Digit : Longer(t, u, c)
      <4>1. PICK u \in Seq(Digit), c \in Digit : Longer(t, u, c)
        BY <3>2
      <4>2. u \in Seq(Digit) /\ Len(u) \in Nat /\ Len(u) >= 1
        <5>1. u \in Seq(Digit) /\ u # <<>>
          BY <4>1 DEF Longer, Plain
        <5> QED BY <5>1
      <4>3. Magnitude(u) \in Nat /\ Magnitude(u) >= 1
        <5>1. Len(u) - 1 \in Nat /\ Len(u) = (Len(u) - 1) + 1
          BY <4>2
        <5> QED BY <4>1, <5>1, PlainPositive DEF Longer
      <4>4. m = 10 * Magnitude(u) + (Ord[c] - 2)
        BY <2>6, <4>1, <4>2, MagnitudeAppend DEF Longer
      <4>5. Ord[c] - 2 \in 0 .. 9
        BY DigitFacts
      <4> DEFINE d == Ord[c] - 2
                 p == Magnitude(u)
      <4> HIDE DEF d, p
      <4>6. m >= 10
        <5>1. p \in Nat /\ p >= 1 /\ d \in 0 .. 9 /\ m = 10 * p + d
          BY <4>3, <4>4, <4>5 DEF d, p
        <5> QED BY <5>1
      <4> QED BY <1>1, <4>6
    <3> QED BY <2>6, <3>1, <3>2, PlainParts
  <2> QED BY <2>3, <2>4, <2>5, <2>6
<1>2. ASSUME NEW m \in 0 .. N, m >= 10, Good(m \div 10) PROVE Good(m)
  <2> DEFINE q == m \div 10
             d == m % 10
  <2>1. /\ m \in Nat /\ q \in Nat /\ d \in 0 .. 9 /\ m = 10 * q + d
        /\ q >= 1 /\ m > 0
    BY <1>2, Tens
  <2>2. f[m] = Append(f[q], DigitOf(d))
    BY <1>2, SpellsAt
  <2> HIDE DEF q, d
  <2>3. DigitOf(d) \in Digit /\ Ord[DigitOf(d)] - 2 = d
    BY <2>1, DigitFacts
  <2>4. Plain(f[q]) /\ Magnitude(f[q]) = q /\ f[q][1] # "0"
    BY <1>2, <2>1 DEF q
  <2>5. f[q] \in Seq(Digit) /\ f[q] # <<>>
    BY <2>4 DEF Plain
  <2>6. /\ f[m] \in Seq(Digit) /\ f[m] # <<>> /\ f[m][1] = f[q][1]
    BY <2>2, <2>3, <2>5
  <2>7. Plain(f[m]) /\ f[m][1] # "0"
    BY <2>4, <2>6 DEF Plain
  <2>8. Magnitude(f[m]) = m
    BY <2>1, <2>2, <2>3, <2>4, <2>5, MagnitudeAppend
  <2>9. ASSUME NEW t, Plain(t), Magnitude(t) = m PROVE t = f[m]
    <3>1. CASE \E c \in Digit : t = <<c>>
      <4>1. PICK c \in Digit : t = <<c>>
        BY <3>1
      <4>2. Ord[c] - 2 = m
        BY <2>9, <4>1, MagnitudeOfOne
      <4>3. Ord[c] - 2 \in 0 .. 9
        BY DigitFacts
      <4> QED BY <1>2, <4>2, <4>3
    <3>2. CASE \E u \in Seq(Digit), c \in Digit : Longer(t, u, c)
      <4>1. PICK u \in Seq(Digit), c \in Digit : Longer(t, u, c)
        BY <3>2
      <4>2. u \in Seq(Digit) /\ Plain(u) /\ t = Append(u, c)
        BY <4>1 DEF Longer
      <4> DEFINE b == Ord[c] - 2
                 p == Magnitude(u)
      <4>3. p \in Nat
        BY <4>2, MagnitudeIs
      <4>4. m = 10 * p + b
        BY <2>9, <4>2, MagnitudeAppend
      <4>5. b \in 0 .. 9 /\ DigitOf(b) = c
        BY DigitFacts
      <4> HIDE DEF b, p
      <4>6. p = q /\ b = d
        BY <4>3, <4>4, <4>5, Tens DEF q, d
      <4>7. u = f[q]
        BY <1>2, <4>2, <4>6 DEF p, q
      <4> QED BY <2>2, <4>2, <4>5, <4>6, <4>7
    <3> QED BY <2>9, <3>1, <3>2, PlainParts
  <2> QED BY <2>7, <2>8, <2>9
<1> HIDE DEF Good
<1>3. 0 \in T
  BY <1>1
<1>4. ASSUME NEW n \in Nat, n \in T PROVE n + 1 \in T
  <2> SUFFICES ASSUME NEW m \in 0 .. n + 1, m <= N PROVE Good(m)
    OBVIOUS
  <2>1. CASE m < 10
    BY <1>1, <2>1
  <2>2. CASE m >= 10
    <3>1. m \in Nat /\ m \div 10 \in Nat /\ m \div 10 < m
      BY <2>2, Tens
    <3>2. m \div 10 \in 0 .. n /\ m \div 10 <= N
      BY <3>1
    <3>3. Good(m \div 10)
      BY <1>4, <3>2
    <3> QED BY <1>2, <2>2, <3>3
  <2> QED BY <2>1, <2>2
<1>5. N \in T
  <2> HIDE DEF T
  <2> QED BY <1>3, <1>4, SetInduction
<1>6. \A m \in 0 .. N : Good(m)
  BY <1>5
<1> QED BY <1>6 DEF Good

\* The digits of the numbers up to one are a function.
LEMMA SpellsExists ==
  ASSUME NEW N \in Nat PROVE \E f : Spells(f, N)
<1> DEFINE At(f, m) == IF m < 10 THEN <<DigitOf(m)>>
                       ELSE Append(f[m \div 10], DigitOf(m % 10))
           T == {n \in Nat : \E f : f = [m \in 0 .. n |-> At(f, m)]}
<1>1. 0 \in T
  <2> DEFINE f == [m \in 0 .. 0 |-> <<DigitOf(m)>>]
  <2>1. f = [m \in 0 .. 0 |-> At(f, m)]
    <3> HIDE DEF f
    <3>1. \A m \in 0 .. 0 : <<DigitOf(m)>> = At(f, m)
      OBVIOUS
    <3> QED BY <3>1 DEF f
  <2> QED BY <2>1
<1>2. ASSUME NEW n \in Nat, n \in T PROVE n + 1 \in T
  <2>1. PICK f : f = [m \in 0 .. n |-> At(f, m)]
    BY <1>2
  <2> DEFINE g == [m \in 0 .. n + 1 |-> At(f, m)]
  <2>2. \A m \in 0 .. n : f[m] = At(f, m)
    <3> HIDE DEF At
    <3> QED BY <2>1
  <2>3. \A m \in 0 .. n : g[m] = f[m]
    <3>1. \A m \in 0 .. n : m \in 0 .. n + 1
      OBVIOUS
    <3> HIDE DEF At
    <3> QED BY <2>2, <3>1
  <2>4. ASSUME NEW m \in 0 .. n + 1 PROVE At(f, m) = At(g, m)
    <3> HIDE DEF g
    <3>1. m >= 10 => m \div 10 \in 0 .. n
      BY Tens
    <3> QED BY <2>3, <3>1
  <2>5. g = [m \in 0 .. n + 1 |-> At(g, m)]
    <3>1. [m \in 0 .. n + 1 |-> At(f, m)] = [m \in 0 .. n + 1 |-> At(g, m)]
      <4> HIDE DEF At, g
      <4> QED BY <2>4
    <3> QED BY <3>1
  <2> HIDE DEF At, g
  <2>6. \E h : h = [m \in 0 .. n + 1 |-> At(h, m)]
    BY <2>5
  <2> QED BY <2>6
<1>3. N \in T
  <2> HIDE DEF T
  <2> QED BY <1>1, <1>2, SetInduction
<1> QED BY <1>3 DEF Spells

\* What the encoder writes for a number.
LEMMA DecimalFacts ==
  ASSUME NEW n \in Int
  PROVE  \E u : /\ Plain(u)
                /\ n # 0 => u[1] # "0"
                /\ Magnitude(u) = IF n < 0 THEN -n ELSE n
                /\ \A t : Plain(t) /\ Magnitude(t) = Magnitude(u) => t = u
                /\ Decimal(n) = IF n < 0 THEN <<"-">> \o u ELSE u
<1> DEFINE N == IF n < 0 THEN -n ELSE n
           f == CHOOSE f : Spells(f, N)
<1>1. N \in Nat /\ N \in 0 .. N /\ (n # 0 => N > 0)
  OBVIOUS
<1>2. Spells(f, N)
  <2> HIDE DEF N
  <2>1. \E g : Spells(g, N)
    BY <1>1, SpellsExists
  <2> QED BY <2>1
<1>3. Decimal(n) = IF n < 0 THEN <<"-">> \o f[N] ELSE f[N]
  BY DEF Decimal, Spells
<1> HIDE DEF N, f
<1>4. /\ Plain(f[N]) /\ Magnitude(f[N]) = N
      /\ N > 0 => f[N][1] # "0"
      /\ \A t : Plain(t) /\ Magnitude(t) = N => t = f[N]
  BY <1>1, <1>2, SpellsFacts
<1>5. Magnitude(f[N]) = IF n < 0 THEN -n ELSE n
  BY <1>4 DEF N
<1> QED BY <1>1, <1>3, <1>4, <1>5

\* A sign in front of a sequence.
LEMMA Signed ==
  ASSUME NEW X, NEW u \in Seq(X), NEW c
  PROVE  /\ Tail(<<c>> \o u) = u /\ (<<c>> \o u)[1] = c
         /\ <<c>> \o u # <<>> /\ Len(<<c>> \o u) = Len(u) + 1
<1> DEFINE Z == X \cup {c}
           p == <<c>>
<1>1. p \in Seq(Z) /\ Len(p) = 1 /\ p[1] = c
  OBVIOUS
<1>2. u \in Seq(Z)
  OBVIOUS
<1>3. /\ <<c>> \o u \in Seq(Z) /\ Len(<<c>> \o u) = Len(u) + 1
      /\ (<<c>> \o u)[1] = c
      /\ \A i \in 1 .. Len(u) : (<<c>> \o u)[i + 1] = u[i]
  <2> HIDE DEF Z, p
  <2>1. /\ p \o u \in Seq(Z) /\ Len(p \o u) = Len(p) + Len(u)
        /\ \A i \in 1 .. Len(p) + Len(u) :
             (p \o u)[i] = IF i <= Len(p) THEN p[i] ELSE u[i - Len(p)]
    BY <1>1, <1>2, ConcatProperties
  <2>2. Len(u) \in Nat
    BY <1>2
  <2>3. (p \o u)[1] = c
    BY <1>1, <2>1, <2>2
  <2>4. ASSUME NEW i \in 1 .. Len(u) PROVE (p \o u)[i + 1] = u[i]
    <3>1. /\ i + 1 \in 1 .. Len(p) + Len(u)
          /\ ~(i + 1 <= Len(p)) /\ (i + 1) - Len(p) = i
      BY <1>1, <2>2
    <3> QED BY <2>1, <3>1
  <2> QED BY <1>1, <2>1, <2>2, <2>3, <2>4 DEF p
<1> DEFINE w == <<c>> \o u
<1>4. w \in Seq(Z) /\ w # <<>> /\ Len(w) = Len(u) + 1
  <2> HIDE DEF w
  <2>1. Len(w) = Len(u) + 1 /\ w \in Seq(Z)
    BY <1>3 DEF w
  <2> QED BY <2>1
<1> HIDE DEF w
<1>5. /\ Tail(w) \in Seq(Z) /\ Len(Tail(w)) = Len(u)
      /\ \A i \in 1 .. Len(u) : Tail(w)[i] = w[i + 1]
  BY <1>4
<1>6. Tail(w) = u
  BY <1>2, <1>3, <1>5 DEF w
<1> QED BY <1>3, <1>4, <1>6 DEF w

\* What is accepted as a number: plain digits, or a sign in front of digits that
\* do not begin with zero.
LEMMA NumeralParts ==
  ASSUME NEW X, NEW t \in Seq(X), IsNumeral(t), Leading(t)
  PROVE  \E u : /\ Plain(u)
                /\ \/ t = u /\ Number(t) = Magnitude(u)
                   \/ /\ t = <<"-">> \o u /\ u[1] # "0"
                      /\ Number(t) = -Magnitude(u)
<1> DEFINE u == Unsigned(t)
<1>1. u # <<>> /\ ToSet(u) \subseteq Digit
  BY DEF IsNumeral
<1>2. t # <<>> /\ u \in Seq(X)
  BY <1>1 DEF Unsigned
<1>3. u \in Seq(Digit)
  <2> HIDE DEF u
  <2>1. \A i \in 1 .. Len(u) : u[i] \in Digit
    BY <1>1, <1>2 DEF ToSet
  <2> QED BY <1>2, <2>1
<1>4. Len(t) <= 1 \/ u[1] \in Digit \ {"0"}
  BY DEF Leading
<1>5. Magnitude(t) = Magnitude(u)
  <2>1. Unsigned(u) = u
    BY <1>3, MagnitudeIs
  <2> QED BY <2>1 DEF Magnitude
<1>6. CASE t[1] = "-"
  <2>1. u = Tail(t)
    BY <1>2, <1>6 DEF Unsigned
  <2> HIDE DEF u
  <2>2. Len(t) = Len(u) + 1 /\ Len(u) \in Nat /\ Len(u) # 0
    BY <1>1, <1>2, <2>1
  <2>3. u[1] # "0"
    BY <1>4, <2>2
  <2>4. t = <<"-">> \o u
    BY <1>2, <1>6, <2>1
  <2>5. Plain(u)
    BY <1>1, <1>3, <2>3 DEF Plain
  <2> QED BY <1>5, <1>6, <2>3, <2>4, <2>5 DEF Number
<1>7. CASE t[1] # "-"
  <2>1. u = t
    BY <1>7 DEF Unsigned
  <2> HIDE DEF u
  <2>2. Len(t) <= 1 => Len(t) = 1
    <3> DEFINE N == Len(t)
    <3>1. N \in Nat /\ N # 0
      BY <1>2
    <3> HIDE DEF N
    <3>2. N <= 1 => N = 1
      BY <3>1
    <3> QED BY <3>2 DEF N
  <2>3. Len(u) = 1 \/ u[1] # "0"
    BY <1>4, <2>1, <2>2
  <2>4. Plain(u)
    BY <1>1, <1>3, <2>3 DEF Plain
  <2> QED BY <1>5, <1>7, <2>1, <2>4 DEF Number
<1> QED BY <1>6, <1>7

\* A number has one spelling, the one that the encoder writes.
LEMMA OneSpelling ==
  ASSUME NEW X, NEW t \in Seq(X), IsNumeral(t), Leading(t)
  PROVE  Number(t) \in Int /\ t = Decimal(Number(t))
<1>1. PICK u : /\ Plain(u)
               /\ \/ t = u /\ Number(t) = Magnitude(u)
                  \/ /\ t = <<"-">> \o u /\ u[1] # "0"
                     /\ Number(t) = -Magnitude(u)
  BY NumeralParts
<1>2. u \in Seq(Digit) /\ u # <<>>
  BY <1>1 DEF Plain
<1>3. Magnitude(u) \in Nat
  BY <1>2, MagnitudeIs
<1>4. u[1] # "0" => Magnitude(u) >= 1
  <2>1. Len(u) - 1 \in Nat /\ Len(u) = (Len(u) - 1) + 1
    BY <1>2
  <2> QED BY <1>1, <2>1, PlainPositive
<1> DEFINE n == Number(t)
<1>5. n \in Int
  BY <1>1, <1>3
<1> HIDE DEF n
<1>6. PICK w : /\ Plain(w)
               /\ Magnitude(w) = IF n < 0 THEN -n ELSE n
               /\ \A v : Plain(v) /\ Magnitude(v) = Magnitude(w) => v = w
               /\ Decimal(n) = IF n < 0 THEN <<"-">> \o w ELSE w
  BY <1>5, DecimalFacts
<1>7. CASE t = u /\ n = Magnitude(u)
  <2>1. ~(n < 0)
    BY <1>3, <1>7
  <2>2. Magnitude(w) = Magnitude(u) /\ Decimal(n) = w
    BY <1>6, <1>7, <2>1
  <2>3. u = w
    BY <1>1, <1>6, <2>2
  <2> QED BY <1>5, <1>7, <2>2, <2>3 DEF n
<1>8. CASE t = <<"-">> \o u /\ u[1] # "0" /\ n = -Magnitude(u)
  <2>1. n < 0 /\ -n = Magnitude(u)
    BY <1>3, <1>4, <1>8
  <2>2. Magnitude(w) = Magnitude(u) /\ Decimal(n) = <<"-">> \o w
    BY <1>6, <2>1
  <2>3. u = w
    BY <1>1, <1>6, <2>2
  <2> QED BY <1>5, <1>8, <2>2, <2>3 DEF n
<1> QED BY <1>1, <1>7, <1>8 DEF n

\* And that is accepted as the number.
LEMMA SpellingReads ==
  ASSUME NEW n \in Int
  PROVE  /\ Decimal(n) \in Seq(Digit \cup {"-"})
         /\ n >= 0 => Decimal(n) \in Seq(Digit)
         /\ Decimal(n) # <<>>
         /\ IsNumeral(Decimal(n)) /\ Leading(Decimal(n))
         /\ Number(Decimal(n)) = n
<1>1. PICK u : /\ Plain(u)
               /\ n # 0 => u[1] # "0"
               /\ Magnitude(u) = IF n < 0 THEN -n ELSE n
               /\ Decimal(n) = IF n < 0 THEN <<"-">> \o u ELSE u
  BY DecimalFacts
<1>2. u \in Seq(Digit) /\ u # <<>> /\ u[1] \in Digit /\ Len(u) \in Nat
  BY <1>1 DEF Plain
<1>3. ToSet(u) \subseteq Digit /\ Unsigned(u) = u
  BY <1>2, MagnitudeIs DEF ToSet
<1>4. CASE n < 0
  <2> DEFINE w == <<"-">> \o u
  <2>1. /\ Decimal(n) = w /\ Magnitude(u) = -n /\ u[1] # "0"
    BY <1>1, <1>4
  <2>2. Tail(w) = u /\ w[1] = "-" /\ w # <<>> /\ Len(w) = Len(u) + 1
    BY <1>2, Signed
  <2>3. w \in Seq(Digit \cup {"-"})
    <3>1. u \in Seq(Digit \cup {"-"}) /\ <<"-">> \in Seq(Digit \cup {"-"})
      BY <1>2
    <3> QED BY <3>1
  <2> HIDE DEF w
  <2>4. Unsigned(w) = u
    BY <2>2 DEF Unsigned
  <2>5. Magnitude(w) = Magnitude(u)
    BY <1>3, <2>4 DEF Magnitude
  <2>6. IsNumeral(w) /\ Leading(w)
    BY <1>2, <1>3, <2>1, <2>4 DEF IsNumeral, Leading
  <2>7. Number(w) = n
    BY <2>1, <2>2, <2>5 DEF Number
  <2>8. ~(n >= 0)
    BY <1>4
  <2> QED BY <2>1, <2>2, <2>3, <2>6, <2>7, <2>8
<1>5. CASE ~(n < 0)
  <2>1. Decimal(n) = u /\ Magnitude(u) = n
    BY <1>1, <1>5
  <2>2. u \in Seq(Digit \cup {"-"})
    BY <1>2
  <2>3. Len(u) <= 1 \/ u[1] # "0"
    BY <1>1 DEF Plain
  <2>4. IsNumeral(u) /\ Leading(u)
    BY <1>2, <1>3, <2>3 DEF IsNumeral, Leading
  <2>5. u[1] # "-"
    BY <1>2 DEF Digit
  <2>6. Number(u) = n
    BY <2>1, <2>5 DEF Number
  <2> QED BY <1>2, <2>1, <2>2, <2>4, <2>6
<1> QED BY <1>4, <1>5
-----------------------------------------------------------------------------
(* Integers and strings in a byte string                                   *)

\* From i to k, s consists of w.
Holds(s, i, k, w) ==
  Len(w) = k - i + 1 /\ \A q \in 1 .. k - i + 1 : s[i + q - 1] = w[q]

\* When a part of a sequence is another.
LEMMA SliceIs ==
  ASSUME NEW X, NEW s \in Seq(X), NEW Y, NEW w \in Seq(Y),
         NEW i \in Nat \ {0}, NEW k \in Nat, i <= k + 1, k <= Len(s)
  PROVE  SubSeq(s, i, k) = w <=> Holds(s, i, k, w)
<1> DEFINE Z == X \cup Y
           v == SubSeq(s, i, k)
<1>1. \A q \in i .. k : s[q] \in Z
  OBVIOUS
<1>2. w \in Seq(Z)
  OBVIOUS
<1> HIDE DEF Z
<1>3. /\ v \in Seq(Z) /\ Len(v) = k - i + 1
      /\ \A q \in 1 .. k - i + 1 : v[q] = s[i + q - 1]
  <2>1. i \in Int /\ k \in Int
    OBVIOUS
  <2>2. /\ v \in Seq(Z) /\ Len(v) = IF i <= k THEN k - i + 1 ELSE 0
        /\ \A q \in 1 .. k - i + 1 : v[q] = s[i + q - 1]
    BY <1>1, <2>1, SubSeqProperties
  <2>3. (IF i <= k THEN k - i + 1 ELSE 0) = k - i + 1
    OBVIOUS
  <2> QED BY <2>2, <2>3
<1> HIDE DEF v
<1>4. CASE v = w
  BY <1>3, <1>4 DEF v, Holds
<1>5. ASSUME Len(w) = k - i + 1, \A q \in 1 .. k - i + 1 : s[i + q - 1] = w[q]
      PROVE  v = w
  <2>1. Len(v) = Len(w) /\ \A q \in 1 .. Len(v) : v[q] = w[q]
    BY <1>3, <1>5
  <2> QED BY <1>2, <1>3, <2>1, SeqEqual
<1> QED BY <1>4, <1>5 DEF v, Holds

\* Three sequences behind one another.
LEMMA ThreeParts ==
  ASSUME NEW Y, NEW a \in Seq(Y), NEW b \in Seq(Y), NEW c \in Seq(Y)
  PROVE  /\ a \o b \o c \in Seq(Y)
         /\ Len(a \o b \o c) = Len(a) + Len(b) + Len(c)
         /\ \A q \in 1 .. Len(a) : (a \o b \o c)[q] = a[q]
         /\ \A q \in 1 .. Len(b) : (a \o b \o c)[Len(a) + q] = b[q]
         /\ \A q \in 1 .. Len(c) : (a \o b \o c)[Len(a) + Len(b) + q] = c[q]
<1> DEFINE ab == a \o b
           w == ab \o c
           A == Len(a)
           B == Len(b)
           C == Len(c)
<1>1. A \in Nat /\ B \in Nat /\ C \in Nat
  OBVIOUS
<1>2. /\ ab \in Seq(Y) /\ Len(ab) = A + B
      /\ \A q \in 1 .. A + B : ab[q] = IF q <= A THEN a[q] ELSE b[q - A]
  BY ConcatProperties
<1> HIDE DEF ab
<1>3. /\ w \in Seq(Y) /\ Len(w) = A + B + C
      /\ \A q \in 1 .. A + B + C :
           w[q] = IF q <= A + B THEN ab[q] ELSE c[q - (A + B)]
  <2>1. /\ w \in Seq(Y) /\ Len(w) = Len(ab) + Len(c)
        /\ \A q \in 1 .. Len(ab) + Len(c) :
             w[q] = IF q <= Len(ab) THEN ab[q] ELSE c[q - Len(ab)]
    <3> HIDE DEF A, B, C
    <3> QED BY <1>2, ConcatProperties
  <2>2. Len(ab) = A + B /\ Len(c) = C
    BY <1>2
  <2> HIDE DEF w, A, B, C
  <2> QED BY <2>1, <2>2
<1> HIDE DEF w, A, B, C
<1>4. ASSUME NEW q \in 1 .. A PROVE w[q] = a[q]
  <2>1. q \in 1 .. A + B + C /\ q \in 1 .. A + B /\ q <= A + B /\ q <= A
    BY <1>1
  <2> QED BY <1>2, <1>3, <2>1
<1>5. ASSUME NEW q \in 1 .. B PROVE w[A + q] = b[q]
  <2>1. /\ A + q \in 1 .. A + B + C /\ A + q \in 1 .. A + B /\ A + q <= A + B
        /\ ~(A + q <= A) /\ (A + q) - A = q
    BY <1>1
  <2> QED BY <1>2, <1>3, <2>1
<1>6. ASSUME NEW q \in 1 .. C PROVE w[A + B + q] = c[q]
  <2>1. /\ A + B + q \in 1 .. A + B + C /\ ~(A + B + q <= A + B)
        /\ (A + B + q) - (A + B) = q
    BY <1>1
  <2> QED BY <1>3, <2>1
<1> QED BY <1>3, <1>4, <1>5, <1>6 DEF w, ab, A, B, C

\* From i to k, s consists of a, b and c, as a whole and part by part.
Consists(s, i, k, a, b, c) == SubSeq(s, i, k) = a \o b \o c
Parted(s, i, k, a, b, c) ==
  /\ k - i + 1 = Len(a) + Len(b) + Len(c)
  /\ SubSeq(s, i, i + Len(a) - 1) = a
  /\ SubSeq(s, i + Len(a), i + Len(a) + Len(b) - 1) = b
  /\ SubSeq(s, i + Len(a) + Len(b), k) = c

\* Those are the same.
LEMMA PartsOfSlice ==
  ASSUME NEW X, NEW s \in Seq(X), NEW Y,
         NEW a \in Seq(Y), NEW b \in Seq(Y), NEW c \in Seq(Y),
         NEW i \in Nat \ {0}, NEW k \in Nat, i <= k + 1, k <= Len(s)
  PROVE  Consists(s, i, k, a, b, c) <=> Parted(s, i, k, a, b, c)
<1> DEFINE w == a \o b \o c
           A == Len(a)
           B == Len(b)
           C == Len(c)
<1>1. A \in Nat /\ B \in Nat /\ C \in Nat /\ Len(s) \in Nat
  OBVIOUS
<1>2. /\ w \in Seq(Y) /\ Len(w) = A + B + C
      /\ \A q \in 1 .. A : w[q] = a[q]
      /\ \A q \in 1 .. B : w[A + q] = b[q]
      /\ \A q \in 1 .. C : w[A + B + q] = c[q]
  BY ThreeParts
<1> HIDE DEF w
<1>3. SubSeq(s, i, k) = w <=>
        /\ Len(w) = k - i + 1
        /\ \A q \in 1 .. k - i + 1 : s[i + q - 1] = w[q]
  <2>1. SubSeq(s, i, k) = w <=> Holds(s, i, k, w)
    BY <1>2, SliceIs
  <2> QED BY <2>1 DEF Holds
<1> HIDE DEF A, B, C
<1>4. ASSUME k - i + 1 = A + B + C
      PROVE  /\ SubSeq(s, i, i + A - 1) = a <=>
                  \A q \in 1 .. A : s[i + q - 1] = a[q]
             /\ SubSeq(s, i + A, i + A + B - 1) = b <=>
                  \A q \in 1 .. B : s[i + A + q - 1] = b[q]
             /\ SubSeq(s, i + A + B, k) = c <=>
                  \A q \in 1 .. C : s[i + A + B + q - 1] = c[q]
  <2> DEFINE ka == i + A - 1
             ib == i + A
             kb == i + A + B - 1
             ic == i + A + B
  <2>1. /\ ka \in Nat /\ i <= ka + 1 /\ ka <= Len(s) /\ ka - i + 1 = A
        /\ ib \in Nat \ {0} /\ kb \in Nat /\ ib <= kb + 1 /\ kb <= Len(s)
        /\ kb - ib + 1 = B
        /\ ic \in Nat \ {0} /\ ic <= k + 1 /\ k - ic + 1 = C
    BY <1>1, <1>4
  <2> HIDE DEF ka, ib, kb, ic
  <2>2. SubSeq(s, i, ka) = a <=> \A q \in 1 .. A : s[i + q - 1] = a[q]
    <3>1. ka \in Nat /\ i <= ka + 1 /\ ka <= Len(s)
      BY <2>1
    <3>2. SubSeq(s, i, ka) = a <=> Holds(s, i, ka, a)
      BY <3>1, SliceIs
    <3> QED BY <2>1, <3>2 DEF A, Holds
  <2>3. SubSeq(s, ib, kb) = b <=> \A q \in 1 .. B : s[ib + q - 1] = b[q]
    <3>1. ib \in Nat \ {0} /\ kb \in Nat /\ ib <= kb + 1 /\ kb <= Len(s)
      BY <2>1
    <3>2. SubSeq(s, ib, kb) = b <=> Holds(s, ib, kb, b)
      BY <3>1, SliceIs
    <3> QED BY <2>1, <3>2 DEF B, Holds
  <2>4. SubSeq(s, ic, k) = c <=> \A q \in 1 .. C : s[ic + q - 1] = c[q]
    <3>1. ic \in Nat \ {0} /\ ic <= k + 1
      BY <2>1
    <3>2. SubSeq(s, ic, k) = c <=> Holds(s, ic, k, c)
      BY <3>1, SliceIs
    <3> QED BY <2>1, <3>2 DEF C, Holds
  <2> QED BY <2>2, <2>3, <2>4 DEF ka, ib, kb, ic
<1>5. ASSUME k - i + 1 = A + B + C
      PROVE  (\A q \in 1 .. k - i + 1 : s[i + q - 1] = w[q]) <=>
               /\ \A q \in 1 .. A : s[i + q - 1] = a[q]
               /\ \A q \in 1 .. B : s[i + A + q - 1] = b[q]
               /\ \A q \in 1 .. C : s[i + A + B + q - 1] = c[q]
  <2>1. ASSUME \A q \in 1 .. k - i + 1 : s[i + q - 1] = w[q]
        PROVE  /\ \A q \in 1 .. A : s[i + q - 1] = a[q]
               /\ \A q \in 1 .. B : s[i + A + q - 1] = b[q]
               /\ \A q \in 1 .. C : s[i + A + B + q - 1] = c[q]
    <3>1. ASSUME NEW q \in 1 .. A PROVE s[i + q - 1] = a[q]
      <4>1. q \in 1 .. k - i + 1
        BY <1>1, <1>5
      <4> QED BY <1>2, <2>1, <4>1
    <3>2. ASSUME NEW q \in 1 .. B PROVE s[i + A + q - 1] = b[q]
      <4>1. A + q \in 1 .. k - i + 1 /\ i + (A + q) - 1 = i + A + q - 1
        BY <1>1, <1>5
      <4>2. s[i + (A + q) - 1] = w[A + q]
        BY <2>1, <4>1
      <4> QED BY <1>2, <4>1, <4>2
    <3>3. ASSUME NEW q \in 1 .. C PROVE s[i + A + B + q - 1] = c[q]
      <4>1. /\ A + B + q \in 1 .. k - i + 1
            /\ i + (A + B + q) - 1 = i + A + B + q - 1
        BY <1>1, <1>5
      <4>2. s[i + (A + B + q) - 1] = w[A + B + q]
        BY <2>1, <4>1
      <4> QED BY <1>2, <4>1, <4>2
    <3> QED BY <3>1, <3>2, <3>3
  <2>2. ASSUME \A q \in 1 .. A : s[i + q - 1] = a[q],
               \A q \in 1 .. B : s[i + A + q - 1] = b[q],
               \A q \in 1 .. C : s[i + A + B + q - 1] = c[q],
               NEW q \in 1 .. k - i + 1
        PROVE  s[i + q - 1] = w[q]
    <3>1. CASE q <= A
      <4>1. q \in 1 .. A
        BY <3>1
      <4> QED BY <1>2, <2>2, <4>1
    <3>2. CASE q > A /\ q <= A + B
      <4>1. /\ q - A \in 1 .. B /\ A + (q - A) = q
            /\ i + A + (q - A) - 1 = i + q - 1
        BY <1>1, <3>2
      <4>2. s[i + A + (q - A) - 1] = b[q - A] /\ w[A + (q - A)] = b[q - A]
        BY <1>2, <2>2, <4>1
      <4> QED BY <4>1, <4>2
    <3>3. CASE q > A + B
      <4> DEFINE j == q - (A + B)
      <4>1. j \in 1 .. C /\ A + B + j = q /\ i + A + B + j - 1 = i + q - 1
        BY <1>1, <1>5, <3>3
      <4> HIDE DEF j
      <4>2. s[i + A + B + j - 1] = c[j] /\ w[A + B + j] = c[j]
        BY <1>2, <2>2, <4>1
      <4> QED BY <4>1, <4>2
    <3>4. q <= A \/ (q > A /\ q <= A + B) \/ q > A + B
      BY <1>1
    <3> QED BY <3>1, <3>2, <3>3, <3>4
  <2> QED BY <2>1, <2>2
<1>6. SubSeq(s, i, k) = w <=>
        /\ k - i + 1 = A + B + C
        /\ SubSeq(s, i, i + A - 1) = a
        /\ SubSeq(s, i + A, i + A + B - 1) = b
        /\ SubSeq(s, i + A + B, k) = c
  <2>1. CASE k - i + 1 = A + B + C
    BY <1>2, <1>3, <1>4, <1>5, <2>1
  <2>2. CASE k - i + 1 # A + B + C
    BY <1>2, <1>3, <2>2
  <2> QED BY <2>1, <2>2
<1> QED BY <1>6 DEF Consists, Parted, w, A, B, C

\* What numbers, lengths and their marks are written with.
Letters == Digit \cup {"-", ":", "e", "i"}

\* A byte as a part of a byte string.
LEMMA SliceOfOne ==
  ASSUME NEW X, NEW s \in Seq(X), NEW i \in 1 .. Len(s), NEW c
  PROVE  SubSeq(s, i, i) = <<c>> <=> s[i] = c
<1>1. <<c>> \in Seq({c}) /\ Len(<<c>>) = 1 /\ <<c>>[1] = c
  OBVIOUS
<1> DEFINE w == <<c>>
<1>2. i \in Nat \ {0} /\ i \in Nat /\ i <= i + 1 /\ i <= Len(s)
  OBVIOUS
<1>3. w \in Seq({c})
  BY <1>1
<1>4. Len(w) = 1 /\ w[1] = c
  BY <1>1
<1> HIDE DEF w
<1>5. SubSeq(s, i, i) = w <=> Holds(s, i, i, w)
  BY <1>2, <1>3, SliceIs
<1>6. i - i + 1 = 1 /\ \A q \in 1 .. 1 : q = 1 /\ i + q - 1 = i
  BY <1>2
<1> QED BY <1>4, <1>5, <1>6 DEF w, Holds

\* An integer is read from what the encoder writes for it, and from that alone.
LEMMA IntSpelling ==
  ASSUME NEW X, NEW s \in Seq(X), NEW i \in 1 .. Len(s), s[i] = "i",
         NEW k \in i + 1 .. Len(s) + 1, NEW n \in Int
  PROVE  GenericInt(s, i + 1) = Ok(<<"int", n>>, k) <=>
           SubSeq(s, i, k - 1) = EncodeInt(n)
<1> DEFINE d == Decimal(n)
           D == Len(d)
           Y == Letters
           p == <<"i">>
           r == <<"e">>
           j == Until(s, i + 1, "e")
           t == SubSeq(s, i + 1, j - 1)
<1>1. /\ d \in Seq(Digit \cup {"-"}) /\ d # <<>>
      /\ IsNumeral(d) /\ Leading(d) /\ Number(d) = n
  BY SpellingReads
<1>2. /\ p \in Seq(Y) /\ Len(p) = 1 /\ r \in Seq(Y) /\ Len(r) = 1
  BY DEF Letters
<1>3. d \in Seq(Y) /\ D \in Nat
  <2> HIDE DEF d
  <2> QED BY <1>1 DEF Letters
<1>4. /\ i \in Nat \ {0} /\ i + 1 \in Nat /\ k - 1 \in Nat /\ i <= (k - 1) + 1
      /\ k - 1 <= Len(s) /\ Len(s) \in Nat /\ i \in Nat /\ k \in Nat
  OBVIOUS
<1>5. GenericInt(s, i + 1) =
        IF j = 0 \/ ~Leading(t) \/ ~IsNumeral(t) THEN Err
        ELSE Ok(<<"int", Number(t)>>, j + 1)
  BY DEF GenericInt
<1>6. EncodeInt(n) = p \o d \o r
  BY DEF EncodeInt
<1> HIDE DEF d, Y, p, r, j, t
<1>7. SubSeq(s, i, k - 1) = p \o d \o r <=>
        /\ (k - 1) - i + 1 = Len(p) + Len(d) + Len(r)
        /\ SubSeq(s, i, i + Len(p) - 1) = p
        /\ SubSeq(s, i + Len(p), i + Len(p) + Len(d) - 1) = d
        /\ SubSeq(s, i + Len(p) + Len(d), k - 1) = r
  <2> DEFINE e == k - 1
  <2>1. /\ p \in Seq(Y) /\ d \in Seq(Y) /\ r \in Seq(Y)
        /\ i \in Nat \ {0} /\ e \in Nat /\ i <= e + 1 /\ e <= Len(s)
    BY <1>2, <1>3, <1>4
  <2> HIDE DEF e
  <2>2. Consists(s, i, e, p, d, r) <=> Parted(s, i, e, p, d, r)
    BY <2>1, PartsOfSlice
  <2> QED BY <2>2 DEF e, Consists, Parted
<1>8. SubSeq(s, i, i) = p
  BY SliceOfOne DEF p
<1>9. SubSeq(s, i, k - 1) = p \o d \o r <=>
        /\ k - 1 = i + 1 + D
        /\ SubSeq(s, i + 1, k - 2) = d
        /\ s[k - 1] = "e"
  <2>1. Len(p) = 1 /\ Len(r) = 1 /\ Len(d) = D
    BY <1>2 DEF D
  <2> HIDE DEF D
  <2>2. (k - 1) - i + 1 = Len(p) + Len(d) + Len(r) <=> k - 1 = i + 1 + D
    BY <1>3, <1>4, <2>1
  <2>3. CASE k - 1 = i + 1 + D
    <3>1. /\ i + Len(p) - 1 = i /\ i + Len(p) = i + 1
          /\ i + Len(p) + Len(d) - 1 = k - 2 /\ i + Len(p) + Len(d) = k - 1
          /\ k - 1 \in 1 .. Len(s)
      BY <1>3, <1>4, <2>1, <2>3
    <3>2. SubSeq(s, k - 1, k - 1) = r <=> s[k - 1] = "e"
      BY <3>1, SliceOfOne DEF r
    <3> QED BY <1>7, <1>8, <2>2, <2>3, <3>1, <3>2
  <2>4. CASE k - 1 # i + 1 + D
    BY <1>7, <2>2, <2>4
  <2> QED BY <2>3, <2>4
<1>10. ASSUME GenericInt(s, i + 1) = Ok(<<"int", n>>, k)
       PROVE  SubSeq(s, i, k - 1) = p \o d \o r
  <2>1. /\ j # 0 /\ Leading(t) /\ IsNumeral(t)
        /\ Ok(<<"int", Number(t)>>, j + 1) = Ok(<<"int", n>>, k)
    BY <1>5, <1>10 DEF Ok, Err
  <2>2. Number(t) = n /\ j + 1 = k
    BY <2>1 DEF Ok
  <2>3. j \in i + 1 .. Len(s) /\ s[j] = "e"
    BY <1>4, <2>1, UntilFacts DEF j
  <2>4. j = k - 1 /\ k - 1 \in i + 1 .. Len(s) /\ j - 1 = k - 2
    BY <1>4, <2>2, <2>3
  <2>5. t \in Seq(X) /\ Len(t) = k - 1 - (i + 1)
    <3>1. t = SubSeq(s, i + 1, k - 2)
      BY <2>4 DEF t
    <3>2. \A q \in i + 1 .. k - 2 : s[q] \in X
      BY <1>4
    <3>3. i + 1 \in Int /\ k - 2 \in Int
      BY <1>4
    <3>4. /\ SubSeq(s, i + 1, k - 2) \in Seq(X)
          /\ Len(SubSeq(s, i + 1, k - 2)) =
               IF i + 1 <= k - 2 THEN k - 2 - (i + 1) + 1 ELSE 0
      BY <3>2, <3>3, SubSeqProperties
    <3>5. (IF i + 1 <= k - 2 THEN k - 2 - (i + 1) + 1 ELSE 0) = k - 1 - (i + 1)
      BY <1>4, <2>4
    <3> QED BY <3>1, <3>4, <3>5
  <2>6. t = d
    BY <2>1, <2>2, <2>5, OneSpelling DEF d
  <2>7. D = k - 1 - (i + 1) /\ SubSeq(s, i + 1, k - 2) = d
    BY <2>4, <2>5, <2>6 DEF t
  <2>8. k - 1 = i + 1 + D
    <3> HIDE DEF D
    <3> QED BY <1>4, <2>7
  <2> QED BY <1>9, <2>3, <2>4, <2>7, <2>8
<1>11. ASSUME SubSeq(s, i, k - 1) = p \o d \o r
       PROVE  GenericInt(s, i + 1) = Ok(<<"int", n>>, k)
  <2>1. k - 1 = i + 1 + D /\ SubSeq(s, i + 1, k - 2) = d /\ s[k - 1] = "e"
    BY <1>9, <1>11
  <2>2. \A q \in 1 .. D : d[q] # "e"
    <3>1. \A q \in 1 .. D : d[q] \in Digit \cup {"-"}
      BY <1>1
    <3> QED BY <3>1 DEF Digit
  <2> DEFINE e == k - 2
  <2>3. /\ i + 1 \in Nat \ {0} /\ e \in Nat /\ i + 1 <= e + 1 /\ e <= Len(s)
        /\ e - (i + 1) + 1 = D
    <3> HIDE DEF D
    <3> QED BY <1>3, <1>4, <2>1
  <2>4. \A q \in 1 .. D : s[i + 1 + q - 1] = d[q]
    <3> HIDE DEF e, D
    <3>1. SubSeq(s, i + 1, e) = d
      BY <2>1 DEF e
    <3>2. Holds(s, i + 1, e, d)
      BY <1>1, <2>3, <3>1, SliceIs
    <3> QED BY <2>3, <3>2 DEF Holds
  <2>5. ASSUME NEW q \in i + 1 .. (k - 1) - 1 PROVE s[q] # "e"
    <3>1. q - i \in 1 .. D /\ i + 1 + (q - i) - 1 = q
      <4> HIDE DEF D
      <4> QED BY <1>3, <1>4, <2>1
    <3>2. s[i + 1 + (q - i) - 1] = d[q - i]
      BY <2>4, <3>1
    <3> QED BY <2>2, <3>1, <3>2
  <2>6. j = k - 1
    <3>1. i + 1 \in Nat \ {0} /\ k - 1 \in i + 1 .. Len(s)
      <4> HIDE DEF D
      <4> QED BY <1>3, <1>4, <2>1
    <3> QED BY <2>1, <2>5, <3>1, UntilIs DEF j
  <2>7. j # 0 /\ j - 1 = k - 2 /\ j + 1 = k
    <3> HIDE DEF D
    <3> QED BY <1>3, <1>4, <2>1, <2>6
  <2>8. t = d
    BY <2>1, <2>7 DEF t
  <2> QED BY <1>1, <1>5, <2>7, <2>8
<1> QED BY <1>6, <1>10, <1>11

\* From i to k, a string is read when what is there is its encoding.
StringAt(s, i, k, b) ==
  Text(s, i) = Ok(<<"str", b>>, k) <=> SubSeq(s, i, k - 1) = EncodeString(b)

\* So it is, when the decoder has room for it.
LEMMA StringSpelling ==
  ASSUME NEW X, NEW s \in Seq(X), NEW i \in 1 .. Len(s), s[i] \in Digit,
         NEW k \in i + 1 .. Len(s) + 1, NEW b \in Seq(X),
         Len(b) <= WordMax, Len(b) <= MaxStr
  PROVE  StringAt(s, i, k, b)
<1> DEFINE B == Len(b)
           d == Decimal(B)
           D == Len(d)
           Y == X \cup Letters
           p == <<":">>
           j == Until(s, i, ":")
           t == SubSeq(s, i, j - 1)
           n == Number(t)
           w == SubSeq(s, j + 1, j + n)
           e == k - 1
           L == Len(s)
<1>1. B \in Nat /\ L \in Nat /\ WordMax \in Nat /\ MaxStr \in Nat
  BY ReadersAssumption
<1>2. /\ d \in Seq(Digit) /\ d # <<>>
      /\ IsNumeral(d) /\ Leading(d) /\ Number(d) = B
  <2> HIDE DEF B
  <2>1. B \in Int /\ B >= 0
    BY <1>1
  <2> QED BY <2>1, SpellingReads
<1>3. EncodeString(b) = d \o p \o b
  BY DEF EncodeString
<1>4. Text(s, i) =
        IF j = 0 \/ ~Leading(t) \/ ~IsNumeral(t) THEN Err
        ELSE IF n > WordMax \/ n > MaxStr THEN Err
        ELSE IF j + n > L THEN Err
        ELSE Ok(<<"str", w>>, j + n + 1)
  BY DEF Text
<1>5. s[i] \notin {"-", ":"} /\ i \in Nat \ {0} /\ i \in Nat
  BY DEF Digit
<1> HIDE DEF d
<1>6. /\ D \in Nat /\ D >= 1 /\ Len(p) = 1
      /\ d \in Seq(Y) /\ p \in Seq(Y) /\ b \in Seq(Y)
  <2>1. d \in Seq(Y)
    BY <1>2 DEF Letters
  <2>2. D \in Nat /\ D # 0
    BY <1>2
  <2>3. p \in Seq(Y) /\ b \in Seq(Y)
    BY DEF Letters
  <2> HIDE DEF D, Y
  <2> QED BY <2>1, <2>2, <2>3
<1>7. e \in Nat /\ i <= e + 1 /\ e <= L /\ i < k /\ k \in Nat /\ k = e + 1
  BY <1>1
<1> HIDE DEF Y, p, j, t, n, w, e, L
<1>8. SubSeq(s, i, e) = d \o p \o b <=>
        /\ e = i + D + B
        /\ SubSeq(s, i, i + D - 1) = d
        /\ s[i + D] = ":"
        /\ SubSeq(s, i + D + 1, e) = b
  <2>1. Consists(s, i, e, d, p, b) <=> Parted(s, i, e, d, p, b)
    BY <1>5, <1>6, <1>7, PartsOfSlice DEF L
  <2>2. Len(p) = 1 /\ Len(d) = D /\ Len(b) = B
    BY <1>6
  <2> HIDE DEF D, B
  <2>3. e - i + 1 = D + 1 + B <=> e = i + D + B
    BY <1>1, <1>5, <1>6, <1>7
  <2>4. i + D + 1 - 1 = i + D
    BY <1>5, <1>6
  <2>5. e = i + D + B => i + D \in 1 .. Len(s)
    BY <1>1, <1>5, <1>6, <1>7 DEF L
  <2>6. e = i + D + B => (SubSeq(s, i + D, i + D) = p <=> s[i + D] = ":")
    BY <2>5, SliceOfOne DEF p
  <2>7. SubSeq(s, i, e) = d \o p \o b <=>
          /\ e - i + 1 = D + 1 + B
          /\ SubSeq(s, i, i + D - 1) = d
          /\ SubSeq(s, i + D, i + D + 1 - 1) = p
          /\ SubSeq(s, i + D + 1, e) = b
    BY <2>1, <2>2 DEF Consists, Parted
  <2> QED BY <2>3, <2>4, <2>6, <2>7
<1>9. ASSUME Text(s, i) = Ok(<<"str", b>>, k)
      PROVE  SubSeq(s, i, e) = d \o p \o b
  <2>1. /\ j # 0 /\ Leading(t) /\ IsNumeral(t) /\ ~(j + n > L)
        /\ Ok(<<"str", w>>, j + n + 1) = Ok(<<"str", b>>, k)
    <3>1. Text(s, i) # Err
      BY <1>9 DEF Ok, Err
    <3> QED BY <1>4, <1>9, <3>1
  <2>2. w = b /\ j + n + 1 = k
    BY <2>1 DEF Ok
  <2>3. j \in i + 1 .. Len(s) /\ s[j] = ":"
    BY <1>5, <2>1, UntilFacts DEF j
  <2>4. t \in Seq(X) /\ t[1] = s[i] /\ Len(t) = j - i
    <3>1. t \in Seq(X) /\ t[1] = s[i]
      BY <2>3, SliceFacts DEF t
    <3>2. \A q \in i .. j - 1 : s[q] \in X
      BY <1>5, <2>3
    <3>3. i \in Int /\ j - 1 \in Int
      BY <1>5, <2>3
    <3>4. Len(t) = IF i <= j - 1 THEN j - 1 - i + 1 ELSE 0
      BY <3>2, <3>3, SubSeqProperties DEF t
    <3>5. (IF i <= j - 1 THEN j - 1 - i + 1 ELSE 0) = j - i
      BY <1>5, <2>3
    <3> QED BY <3>1, <3>4, <3>5
  <2>5. n \in Nat
    BY <1>5, <2>1, <2>4, NumberIsNatural DEF n
  <2>6. t = Decimal(n)
    BY <2>1, <2>4, OneSpelling DEF n
  <2>7. B = n
    <3> DEFINE a == j + 1
               z == j + n
    <3>1. a \in Int /\ z \in Int /\ \A q \in a .. z : s[q] \in X
      <4>1. \A q \in a .. z : q \in 1 .. Len(s)
        BY <1>1, <1>5, <2>1, <2>3, <2>5 DEF L
      <4> QED BY <1>5, <2>3, <2>5, <4>1
    <3> HIDE DEF a, z
    <3>2. Len(SubSeq(s, a, z)) = IF a <= z THEN z - a + 1 ELSE 0
      BY <3>1, SubSeqProperties
    <3>3. Len(w) = IF a <= z THEN z - a + 1 ELSE 0
      BY <3>2 DEF w, a, z
    <3>4. (IF a <= z THEN z - a + 1 ELSE 0) = n
      BY <2>3, <2>5 DEF a, z
    <3> QED BY <2>2, <3>3, <3>4
  <2>8. t = d
    BY <2>6, <2>7 DEF d
  <2>9. D = j - i
    BY <2>4, <2>8
  <2> HIDE DEF D, B
  <2>10. e = i + D + B /\ i + D = j /\ i + D - 1 = j - 1 /\ e = j + n
    BY <1>1, <1>5, <1>6, <1>7, <2>2, <2>3, <2>5, <2>7, <2>9
  <2>11. SubSeq(s, i, i + D - 1) = d /\ SubSeq(s, i + D + 1, e) = b
    BY <2>2, <2>8, <2>10 DEF t, w
  <2> QED BY <1>8, <2>3, <2>10, <2>11
<1>10. ASSUME SubSeq(s, i, e) = d \o p \o b
       PROVE  Text(s, i) = Ok(<<"str", b>>, k)
  <2> DEFINE a == i + D
             z == i + D - 1
  <2>1. /\ e = i + D + B /\ SubSeq(s, i, z) = d
        /\ s[a] = ":" /\ SubSeq(s, a + 1, e) = b
    BY <1>8, <1>10
  <2> HIDE DEF D, B
  <2>2. /\ a \in i .. Len(s) /\ a - 1 = z /\ a # 0 /\ e = a + B /\ a + B <= L
        /\ z \in Nat /\ i <= z + 1 /\ z <= Len(s) /\ z - i + 1 = D
    BY <1>1, <1>5, <1>6, <1>7, <2>1 DEF L
  <2> HIDE DEF a, z
  <2>3. \A q \in 1 .. D : s[i + q - 1] = d[q]
    <3>1. Holds(s, i, z, d)
      BY <1>2, <1>5, <2>1, <2>2, SliceIs
    <3> QED BY <2>2, <3>1 DEF Holds
  <2>4. ASSUME NEW q \in i .. a - 1 PROVE s[q] # ":"
    <3>1. q - i + 1 \in 1 .. D /\ i + (q - i + 1) - 1 = q
      BY <1>5, <1>6, <2>2
    <3>2. s[q] = d[q - i + 1]
      BY <2>3, <3>1
    <3>3. d[q - i + 1] \in Digit
      BY <1>2, <3>1 DEF D
    <3> QED BY <3>2, <3>3 DEF Digit
  <2>5. j = a
    BY <1>5, <2>1, <2>2, <2>4, UntilIs DEF j
  <2>6. t = d
    BY <2>1, <2>2, <2>5 DEF t
  <2>7. n = B
    BY <1>2, <2>6 DEF n
  <2>8. w = b
    BY <2>1, <2>2, <2>5, <2>7 DEF w
  <2>9. ~(B > WordMax) /\ ~(B > MaxStr) /\ ~(a + B > L) /\ a + B + 1 = k
    BY <1>1, <1>7, <2>2 DEF B, L
  <2> QED BY <1>2, <1>4, <2>2, <2>5, <2>6, <2>7, <2>8, <2>9
<1> QED BY <1>3, <1>9, <1>10 DEF e, StringAt

\* Only an integer is read as one, and only a string as one.
LEMMA ScalarsAlone ==
  ASSUME NEW X, NEW s \in Seq(X), NEW i \in 1 .. Len(s)
  PROVE  /\ s[i] = "i" => Generic(s, i) = GenericInt(s, i + 1)
         /\ s[i] \in Digit => Generic(s, i) = Text(s, i)
         /\ \A n, k : Generic(s, i) = Ok(<<"int", n>>, k) => s[i] = "i"
         /\ \A b, k : Generic(s, i) = Ok(<<"str", b>>, k) => s[i] \in Digit
<1> DEFINE f == Insides(s)
           r == Generic(s, i)
<1>1. i + 1 \in 1 .. Len(s) + 1
  OBVIOUS
<1>2. /\ f[<<"list", i + 1>>] = GenericList(s, i + 1, f)
      /\ f[<<"dict", i + 1>>] = GenericDict(s, i + 1, f)
  BY <1>1, InsidesFacts DEF Solves
<1>3. r = GenericOf(s, i, f)
  BY DEF Generic
<1> HIDE DEF f, r
<1>4. s[i] = "i" => r = GenericInt(s, i + 1)
  BY <1>3 DEF GenericOf, Digit
<1>5. s[i] \in Digit => r = Text(s, i)
  BY <1>3 DEF GenericOf, Digit
<1>6. s[i] = "e" => r = End(i + 1)
  BY <1>3 DEF GenericOf, Digit
<1>7. s[i] = "l" => r = GenericList(s, i + 1, f)
  BY <1>2, <1>3 DEF GenericOf, Digit
<1>8. s[i] = "d" => r = GenericDict(s, i + 1, f)
  BY <1>2, <1>3 DEF GenericOf, Digit
<1>9. s[i] \notin {"e", "d", "l", "i"} \cup Digit => r = Err
  BY <1>3 DEF GenericOf
<1>10. r.st = "ok" => \/ s[i] = "i" /\ r.v[1] = "int"
                      \/ s[i] \in Digit /\ r.v[1] = "str"
                      \/ s[i] = "l" /\ r.v[1] = "list"
                      \/ s[i] = "d" /\ r.v[1] = "dict"
  <2>1. CASE s[i] = "i"
    <3> DEFINE j == Until(s, i + 1, "e")
               v == Number(SubSeq(s, i + 1, j - 1))
               o == j + 1
    <3>1. r = Err \/ r = Ok(<<"int", v>>, o)
      BY <1>4, <2>1 DEF GenericInt
    <3> HIDE DEF v, o
    <3> QED BY <2>1, <3>1 DEF Err, Ok
  <2>2. CASE s[i] \in Digit
    <3> DEFINE j == Until(s, i, ":")
               t == SubSeq(s, i, j - 1)
               w == SubSeq(s, j + 1, j + Number(t))
               o == j + Number(t) + 1
    <3>1. Text(s, i) =
            IF j = 0 \/ ~Leading(t) \/ ~IsNumeral(t) THEN Err
            ELSE IF Number(t) > WordMax \/ Number(t) > MaxStr THEN Err
            ELSE IF j + Number(t) > Len(s) THEN Err
            ELSE Ok(<<"str", w>>, o)
      BY DEF Text
    <3> HIDE DEF w, o, t, j
    <3>2. Text(s, i) = Err \/ Text(s, i) = Ok(<<"str", w>>, o)
      BY <3>1
    <3> QED BY <1>5, <2>2, <3>2 DEF Err, Ok
  <2>3. CASE s[i] = "e"
    BY <1>6, <2>3 DEF End
  <2>4. CASE s[i] = "l"
    <3> DEFINE q == GenericOf(s, i + 1, f)
               rest == f[<<"list", q.i>>]
    <3>1. GenericList(s, i + 1, f) =
            CASE q.st = "end" -> Ok(<<"list", <<>>>>, q.i)
              [] q.st = "ok" -> IF rest.st = "ok"
                                THEN Before("list", q.v, rest) ELSE Err
              [] OTHER -> q
      BY DEF GenericList
    <3> HIDE DEF q, rest
    <3>2. \/ r = Ok(<<"list", <<>>>>, q.i) \/ r = Before("list", q.v, rest)
          \/ r = Err \/ r.st # "ok"
      BY <1>7, <2>4, <3>1
    <3>3. r.st = "ok" => r.v[1] = "list"
      BY <3>2 DEF Before, Err, Ok
    <3> QED BY <2>4, <3>3
  <2>5. CASE s[i] = "d"
    <3> DEFINE q == GenericOf(s, i + 1, f)
               o == GenericOf(s, q.i, f)
               rest == f[<<"dict", o.i>>]
               both == /\ o.st = "ok" /\ rest.st = "ok"
                       /\ Ascends(q.v[2], rest.v[2])
               pair == <<q.v[2], o.v>>
    <3>1. GenericDict(s, i + 1, f) =
            CASE q.st = "end" -> Ok(<<"dict", <<>>>>, q.i)
              [] q.st = "ok" /\ q.v[1] = "str" ->
                   IF both THEN Before("dict", pair, rest) ELSE Err
              [] OTHER -> Err
      BY DEF GenericDict
    <3> HIDE DEF q, o, rest, both, pair
    <3>2. \/ r = Ok(<<"dict", <<>>>>, q.i)
          \/ r = Before("dict", pair, rest) \/ r = Err
      BY <1>8, <2>5, <3>1
    <3>3. r.st = "ok" => r.v[1] = "dict"
      BY <3>2 DEF Before, Err, Ok
    <3> QED BY <2>5, <3>3
  <2>6. CASE s[i] \notin {"e", "d", "l", "i"} \cup Digit
    BY <1>9, <2>6 DEF Err
  <2> QED BY <2>1, <2>2, <2>3, <2>4, <2>5, <2>6
<1>11. ASSUME NEW n, NEW k, r = Ok(<<"int", n>>, k) PROVE s[i] = "i"
  <2>1. r.st = "ok" /\ r.v[1] = "int"
    BY <1>11 DEF Ok
  <2> QED BY <1>10, <2>1
<1>12. ASSUME NEW b, NEW k, r = Ok(<<"str", b>>, k) PROVE s[i] \in Digit
  <2>1. r.st = "ok" /\ r.v[1] = "str"
    BY <1>12 DEF Ok
  <2> QED BY <1>10, <2>1
<1> QED BY <1>4, <1>5, <1>11, <1>12 DEF r

\* What an encoded integer and an encoded string begin with.
LEMMA FirstByte ==
  ASSUME NEW X, NEW s \in Seq(X), NEW i \in 1 .. Len(s),
         NEW k \in i + 1 .. Len(s) + 1
  PROVE  /\ \A n \in Int : SubSeq(s, i, k - 1) = EncodeInt(n) => s[i] = "i"
         /\ \A b \in Seq(X) :
              SubSeq(s, i, k - 1) = EncodeString(b) => s[i] \in Digit
<1>1. SubSeq(s, i, k - 1)[1] = s[i]
  OBVIOUS
<1>2. ASSUME NEW n \in Int PROVE EncodeInt(n)[1] = "i"
  <2> DEFINE d == Decimal(n)
             p == <<"i">>
             r == <<"e">>
  <2>1. d \in Seq(Digit \cup {"-"})
    BY SpellingReads
  <2> HIDE DEF d
  <2>2. d \in Seq(Letters) /\ p \in Seq(Letters) /\ r \in Seq(Letters)
    BY <2>1 DEF Letters
  <2>3. 1 \in 1 .. Len(p) /\ p[1] = "i"
    OBVIOUS
  <2> HIDE DEF p, r
  <2>4. (p \o d \o r)[1] = p[1]
    BY <2>2, <2>3, ThreeParts
  <2> QED BY <2>3, <2>4 DEF EncodeInt, d, p, r
<1>3. ASSUME NEW b \in Seq(X) PROVE EncodeString(b)[1] \in Digit
  <2> DEFINE d == Decimal(Len(b))
             p == <<":">>
             Y == X \cup Letters
  <2>1. d \in Seq(Digit) /\ d # <<>>
    <3> DEFINE B == Len(b)
    <3>1. B \in Int /\ B >= 0
      OBVIOUS
    <3> HIDE DEF B
    <3>2. Decimal(B) \in Seq(Digit) /\ Decimal(B) # <<>>
      BY <3>1, SpellingReads
    <3> QED BY <3>2 DEF B
  <2> HIDE DEF d
  <2>2. d \in Seq(Y) /\ p \in Seq(Y) /\ b \in Seq(Y)
    BY <2>1 DEF Letters
  <2>3. 1 \in 1 .. Len(d) /\ d[1] \in Digit
    BY <2>1
  <2> HIDE DEF p, Y
  <2>4. (d \o p \o b)[1] = d[1]
    BY <2>2, <2>3, ThreeParts
  <2> QED BY <2>3, <2>4 DEF EncodeString, d, p
<1> QED BY <1>1, <1>2, <1>3

\* From any place in any input, an integer is read exactly when what is there
\* is what the encoder writes for it, and so is a string within the decoder's
\* limits: there is one spelling of each, and what the encoder writes is read
\* back (encode.go:52-57, 196-204; decoder.go:211-420, 687-762).
THEOREM ScalarsRoundTrip ==
  ASSUME NEW X, NEW s \in Seq(X), NEW i \in 1 .. Len(s),
         NEW k \in i + 1 .. Len(s) + 1
  PROVE  /\ \A n \in Int : Generic(s, i) = Ok(<<"int", n>>, k) <=>
                             SubSeq(s, i, k - 1) = EncodeInt(n)
         /\ \A b \in Seq(X) : Len(b) <= WordMax /\ Len(b) <= MaxStr =>
              (Generic(s, i) = Ok(<<"str", b>>, k) <=>
                 SubSeq(s, i, k - 1) = EncodeString(b))
<1>1. ASSUME NEW n \in Int
      PROVE  Generic(s, i) = Ok(<<"int", n>>, k) <=>
               SubSeq(s, i, k - 1) = EncodeInt(n)
  <2>1. CASE s[i] = "i"
    <3>1. Generic(s, i) = GenericInt(s, i + 1)
      BY <2>1, ScalarsAlone
    <3>2. GenericInt(s, i + 1) = Ok(<<"int", n>>, k) <=>
            SubSeq(s, i, k - 1) = EncodeInt(n)
      BY <2>1, IntSpelling
    <3> QED BY <3>1, <3>2
  <2>2. CASE s[i] # "i"
    BY <2>2, ScalarsAlone, FirstByte
  <2> QED BY <2>1, <2>2
<1>2. ASSUME NEW b \in Seq(X), Len(b) <= WordMax, Len(b) <= MaxStr
      PROVE  Generic(s, i) = Ok(<<"str", b>>, k) <=>
               SubSeq(s, i, k - 1) = EncodeString(b)
  <2>1. CASE s[i] \in Digit
    <3>1. Generic(s, i) = Text(s, i)
      BY <2>1, ScalarsAlone
    <3>2. StringAt(s, i, k, b)
      BY <1>2, <2>1, StringSpelling
    <3> QED BY <3>1, <3>2 DEF StringAt
  <2>2. CASE s[i] \notin Digit
    BY <2>2, ScalarsAlone, FirstByte
  <2> QED BY <2>1, <2>2
<1> QED BY <1>1, <1>2
=============================================================================
