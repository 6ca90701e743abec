----------------------------- MODULE Blocklist -----------------------------
(***************************************************************************)
(* The blocklist (internal/blocklist) and its segment tree (.../stree).    *)
(* Reload holds the lock while it reads, so it is one step; a failed one   *)
(* leaves the list in force.  An address has Width bits (32), an IPv6      *)
(* address is NotV4.  A line of a list is a rule <<address, bits>>,        *)
(* Invalid or, too long for the scanner, TooLong; blank lines and comments *)
(* are left out.                                                           *)
(***************************************************************************)
EXTENDS Integers, Sequences, FiniteSets, Functions

CONSTANTS Width, Invalid, TooLong, NotV4,
          MaxLines     \* bound: lines of a list

ASSUME BlocklistAssumption == Width \in Nat /\ MaxLines \in Nat

\* The number of addresses that agree in all but their last n bits.
Block[n \in 0 .. Width] == IF n = 0 THEN 1 ELSE 2 * Block[n - 1]

Addresses == 0 .. Block[Width] - 1
Rules == Addresses \X (0 .. Width)
Lists(n) == [1 .. n -> Rules \cup {<<Invalid>>, <<TooLong>>}]

ASSUME NotV4Assumption == NotV4 \notin Addresses

VARIABLES
    tree,      \* the segment tree, NoTree at first
    count      \* rules of the list in force

blocklistVars == <<tree, count>>

(* --- the segment tree -------------------------------------------------- *)

Segment(from, to) == [from |-> from, to |-> to]

SubsetOf(s, other) == other.from <= s.from /\ other.to >= s.to
Intersects(s, other) == other.from <= s.to /\ s.from <= other.to
Disjoint(s, from, to) == from > s.to \/ to < s.from

\* Mutant: the segments between two endpoints are left out.
PointsOnly(es) == [i \in 1 .. Len(es) |-> Segment(es[i], es[i])]

\* Each endpoint by itself, and what lies between it and the next.
ElementaryIntervals(es) ==
    [i \in 1 .. 2 * Len(es) - 1 |-> Segment(es[(i + 1) \div 2],
                                            es[i \div 2 + 1])]

\* Sorted, without duplicates.
Endpoints(base) ==
    LET ends == UNION {{base[id].from, base[id].to} : id \in DOMAIN base}
    IN  CHOOSE es \in [1 .. Cardinality(ends) -> ends] :
            \A i, j \in DOMAIN es : i < j => es[i] < es[j]

\* A node is named by the slice of the leaves that insertNodes makes it of, the
\* numbers of the first and the last.
Nodes(leaves) ==
    {n \in (1 .. Len(leaves)) \X (1 .. Len(leaves)) : n[1] <= n[2]}
Root(leaves) == <<1, Len(leaves)>>

\* The slice is halved, until one leaf is left.
Kids(n) ==
    LET center == n[1] + (n[2] - n[1] + 1) \div 2
    IN  IF n[1] = n[2] THEN {} ELSE {<<n[1], center - 1>>, <<center, n[2]>>}

SegmentOf(leaves, n) == Segment(leaves[n[1]].from, leaves[n[2]].to)

\* The nodes where an interval is noted: the highest ones that it covers.
InsertInterval(leaves, s) ==
    LET noted[n \in Nodes(leaves)] ==
            IF SubsetOf(SegmentOf(leaves, n), s) THEN {n}
            ELSE UNION {noted[k] : k \in {k \in Kids(n) :
                            Intersects(SegmentOf(leaves, k), s)}}
    IN  noted[Root(leaves)]

NoTree == <<>>

\* Each interval of the base is inserted with its id.
Build(base) ==
    LET leaves == ElementaryIntervals(Endpoints(base))
        noted == [id \in DOMAIN base |-> InsertInterval(leaves, base[id])]
    IN  IF DOMAIN base = {} THEN NoTree
        ELSE [leaves |-> leaves,
              overlap |-> [n \in Nodes(leaves) |->
                              {id \in DOMAIN base : n \in noted[id]}]]

QuerySingle(root, from, to) ==
    LET found[n \in Nodes(root.leaves)] ==
            IF Disjoint(SegmentOf(root.leaves, n), from, to) THEN {}
            ELSE root.overlap[n] \cup UNION {found[k] : k \in Kids(n)}
    IN  found[Root(root.leaves)]

TreeContains(root, value) ==
    root # NoTree /\ QuerySingle(root, value, value) # {}

(* --- the list ---------------------------------------------------------- *)

\* net.ParseCIDR clears the bits behind the prefix, and with the inverted mask
\* the last address of the range has them all set.
ParseCIDR(rule) ==
    LET size == Block[Width - rule[2]]
        first == rule[1] - (rule[1] % size)
    IN  Segment(first, first + size - 1)

\* The intervals of a list; the id of each is the number of its line.
Base(list) ==
    [i \in {i \in DOMAIN list : list[i] \in Rules} |-> ParseCIDR(list[i])]

\* The scanner fails, or there are lines and none is a rule.
LoadFails(list) ==
    \/ <<TooLong>> \in Range(list)
    \/ DOMAIN Base(list) = {} /\ list # <<>>

BlocklistInit == tree = NoTree /\ count = 0

Reload(list) ==
    IF LoadFails(list) THEN UNCHANGED blocklistVars
    ELSE /\ tree' = Build(Base(list))
         /\ count' = Cardinality(DOMAIN Base(list))

Blocked(ip) == ip # NotV4 /\ TreeContains(tree, ip)
=============================================================================
