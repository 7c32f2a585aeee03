---------------------------- MODULE CstWalk_proofs ----------------------------
(***************************************************************************)
(* Proofs about the walks over a parse tree, for trees of any size.        *)
(*                                                                         *)
(* The loop of find_node and get_errors sees the nodes in document order:  *)
(* when it visits a node it has seen just those before it, and when it     *)
(* climbs it has seen those up to the cursor and all that are below it.    *)
(* So the counter, which agrees with the tree all along, is 0 without a    *)
(* sibling only when every node has been seen.                             *)
(*                                                                         *)
(* A skeleton is a recursive function; its closed form, Shown, solves the  *)
(* recursion, and nothing else does: the levels to go are natural numbers, *)
(* of which there would be a least one where a solution differs.           *)
(***************************************************************************)
EXTENDS CstWalk, Recursion_proofs

\* The nodes up to v and those below it: where the cursor climbs from v, these
\* are behind it.
UpTo(d, v) == 1..v \cup Below(d, v)

\* The nodes the loop has seen.
Seen == CASE pc = "visit" -> 1..(cursor - 1)
          [] pc = "climb" -> UpTo(tree, cursor)
          [] OTHER -> NodesOf(tree)

\* What of the nodes seen is to be in the result.
Wanted == IF walk = "get_errors" THEN marked \cap Seen ELSE {}

Looping ==
    /\ pc \in {"visit", "climb"} =>
          /\ walk # "get_children"
          /\ cursor \in NodesOf(tree)
          /\ depth = tree[cursor]
          /\ walk = "find_node" => goal \notin Seen
          /\ Lists(result, Wanted)

Listing ==
    pc = "list" =>
        /\ walk = "get_children"
        /\ cursor \in Children(tree, goal)
        /\ Lists(result, Children(tree, goal) \cap marked \cap 1..(cursor - 1))

WalkInv ==
    /\ WalkTypeOK
    /\ walk \in {"find_node", "get_errors", "get_children"}
    /\ walk = "get_children" => goal \in NodesOf(tree)
    /\ Looping
    /\ Listing
    /\ FindsIfThere
    /\ ReportsEveryError
    /\ ListsChildren

-----------------------------------------------------------------------------
(* Trees. *)

\* The depths of a tree: the first node is the root, and the only one, and a
\* node is at most one level below the node before it.
LEMMA TreeShape ==
    ASSUME NEW d \in Trees
    PROVE  /\ d \in Seq(Nat) /\ Len(d) \in 0..MaxNodes
           /\ \A v \in NodesOf(d) : d[v] \in 0..(MaxNodes - 1)
           /\ \A v \in NodesOf(d) : d[v] = 0 <=> v = 1
           /\ \A v \in NodesOf(d) : v + 1 \in NodesOf(d) => d[v + 1] <= d[v] + 1
<1>1. CASE d = <<>>
  BY <1>1, WalkAssumption DEF NodesOf
<1>2. ASSUME NEW n \in 1..MaxNodes, d \in [1..n -> 0..(n - 1)], d[1] = 0,
             \A i \in 1..(n - 1) : d[i + 1] \in 1..(d[i] + 1)
      PROVE  /\ d \in Seq(Nat) /\ Len(d) \in 0..MaxNodes
             /\ \A v \in NodesOf(d) : d[v] \in 0..(MaxNodes - 1)
             /\ \A v \in NodesOf(d) : d[v] = 0 <=> v = 1
             /\ \A v \in NodesOf(d) : v + 1 \in NodesOf(d) => d[v + 1] <= d[v] + 1
  <2>1. n \in Nat /\ n > 0 /\ n <= MaxNodes
    BY WalkAssumption
  <2>2. d \in Seq(Nat) /\ Len(d) = n
    <3>1. d \in [1..n -> Nat]
      BY <1>2, <2>1
    <3> QED
      BY <2>1, <3>1
  <2>3. NodesOf(d) = 1..n
    BY <2>2 DEF NodesOf
  <2>4. \A v \in NodesOf(d) : d[v] \in 0..(MaxNodes - 1)
    BY <1>2, <2>1, <2>3, WalkAssumption
  <2>5. ASSUME NEW v \in NodesOf(d), v # 1
        PROVE  d[v] # 0
    <3>1. v - 1 \in 1..(n - 1) /\ (v - 1) + 1 = v
      BY <2>1, <2>3, <2>5
    <3>2. d[v] \in 1..(d[v - 1] + 1)
      BY <1>2, <3>1
    <3> QED
      BY <3>2
  <2>6. \A v \in NodesOf(d) : v + 1 \in NodesOf(d) => d[v + 1] <= d[v] + 1
    <3> SUFFICES ASSUME NEW v \in NodesOf(d), v + 1 \in NodesOf(d)
                 PROVE  d[v + 1] <= d[v] + 1
      OBVIOUS
    <3>1. v \in 1..(n - 1)
      BY <2>1, <2>3
    <3>2. d[v + 1] \in 1..(d[v] + 1) /\ d[v] \in Nat
      BY <1>2, <2>4, <3>1
    <3> QED
      BY <3>2
  <2> QED
    BY <1>2, <2>1, <2>2, <2>4, <2>5, <2>6
<1> QED
  BY <1>1, <1>2 DEF Trees

\* The next sibling, where there is one, is a sibling before all others.
LEMMA NextSiblingIsFirst ==
    ASSUME NEW d \in Trees, NEW v \in NodesOf(d), HasSibling(d, v)
    PROVE  /\ NextSibling(d, v) \in Siblings(d, v)
           /\ \A u \in Siblings(d, v) : NextSibling(d, v) <= u
<1>1. Siblings(d, v) \subseteq Nat /\ Siblings(d, v) # {}
  BY DEF Siblings, HasSibling, NodesOf
<1>2. \E u \in Siblings(d, v) : \A w \in Siblings(d, v) : u <= w
  BY <1>1, LeastExists, Zenon
<1> QED
  BY <1>2 DEF NextSibling

\* Every node but the root has a parent: the last node before it that is not
\* as deep.
LEMMA ParentIsAbove ==
    ASSUME NEW d \in Trees, NEW v \in NodesOf(d), d[v] # 0
    PROVE  /\ Parent(d, v) \in NodesOf(d)
           /\ v \in Below(d, Parent(d, v))
           /\ d[Parent(d, v)] + 1 = d[v]
<1> DEFINE S == {k \in Nat : v - k \in NodesOf(d) /\ k > 0 /\ d[v - k] < d[v]}
<1>1. /\ \A u \in NodesOf(d) : u \in Nat /\ u > 0 /\ d[u] \in Nat
      /\ \A u \in NodesOf(d) : d[u] = 0 <=> u = 1
      /\ \A u \in NodesOf(d) : u + 1 \in NodesOf(d) => d[u + 1] <= d[u] + 1
      /\ \A u \in NodesOf(d), w \in Nat : 0 < w /\ w <= u => w \in NodesOf(d)
  BY TreeShape DEF NodesOf
<1>2. v - 1 \in S
  BY <1>1
<1>3. PICK k \in S : \A j \in S : k <= j
  <2>1. S \subseteq Nat /\ S # {}
    BY <1>2
  <2> HIDE DEF S
  <2> QED
    BY <2>1, LeastExists, Zenon
<1> DEFINE u == v - k
<1>4. u \in NodesOf(d) /\ u < v /\ d[u] < d[v] /\ u \in Nat
  BY <1>1, <1>3
<1>5. ASSUME NEW w \in (u + 1)..v
      PROVE  d[w] >= d[v]
  <2>1. w \in NodesOf(d) /\ w \in Nat
    BY <1>1, <1>4
  <2>2. CASE w = v
    BY <1>1, <2>2
  <2>3. CASE w < v
    <3>1. v - w \in Nat /\ v - w > 0 /\ v - w < k /\ v - (v - w) = w
      BY <1>1, <1>4, <2>1, <2>3
    <3>2. v - w \notin S
      BY <1>3, <3>1
    <3> QED
      BY <1>1, <2>1, <3>1, <3>2
  <2> QED
    BY <1>1, <2>1, <2>2, <2>3
<1>6. v \in Below(d, u)
  BY <1>1, <1>4, <1>5 DEF Below
<1>7. d[u] + 1 = d[v]
  <2>1. u + 1 \in (u + 1)..v /\ u + 1 \in NodesOf(d)
    BY <1>1, <1>4
  <2>2. d[u + 1] >= d[v] /\ d[u + 1] <= d[u] + 1
    BY <1>1, <1>4, <1>5, <2>1
  <2> QED
    BY <1>1, <1>4, <2>1, <2>2
<1> HIDE DEF u
<1> QED
  BY <1>4, <1>6, <1>7 DEF Parent

\* What the lemmas below use of a tree.
LEMMA Depths ==
    ASSUME NEW d \in Trees
    PROVE  /\ \A u \in NodesOf(d) : u \in Nat /\ u > 0 /\ d[u] \in Nat
           /\ \A u \in NodesOf(d), w \in Nat : 0 < w /\ w <= u => w \in NodesOf(d)
           /\ Len(d) \in Nat
BY TreeShape DEF NodesOf

\* From a leaf the loop climbs having seen what it has visited.
LEMMA LeafSees ==
    ASSUME NEW d \in Trees, NEW v \in NodesOf(d), ~HasChild(d, v)
    PROVE  Below(d, v) = {} /\ UpTo(d, v) = 1..v
<1>1. ASSUME NEW u \in Below(d, v)
      PROVE  FALSE
  <2>1. u \in NodesOf(d) /\ u > v /\ \A w \in (v + 1)..u : d[w] > d[v]
    BY DEF Below
  <2>2. v + 1 \in (v + 1)..u /\ v < Len(d)
    BY <2>1, Depths DEF NodesOf
  <2> QED
    BY <2>1, <2>2 DEF HasChild
<1> QED
  BY <1>1 DEF UpTo

\* The next sibling follows all that is below its sibling, immediately.
LEMMA SidewaysSees ==
    ASSUME NEW d \in Trees, NEW v \in NodesOf(d), HasSibling(d, v)
    PROVE  LET s == NextSibling(d, v) IN
           /\ s \in NodesOf(d) /\ s > v /\ d[s] = d[v]
           /\ 1..(s - 1) = UpTo(d, v)
<1> DEFINE s == NextSibling(d, v)
<1>1. /\ s \in NodesOf(d) /\ s > v /\ d[s] = d[v]
      /\ \A w \in (v + 1)..s : d[w] >= d[v]
      /\ \A u \in Siblings(d, v) : s <= u
  BY NextSiblingIsFirst DEF Siblings
<1> HIDE DEF s
<1>2. s \in Nat /\ v \in Nat /\ v > 0 /\ d[v] \in Nat
  BY <1>1, Depths
<1>3. ASSUME NEW w \in (v + 1)..(s - 1)
      PROVE  d[w] > d[v]
  <2>1. w \in NodesOf(d) /\ w \in Nat /\ w > v /\ w < s /\ d[w] \in Nat
    BY <1>1, <1>2, Depths
  <2>2. w \notin Siblings(d, v)
    BY <1>1, <1>2, <2>1
  <2>3. \A x \in (v + 1)..w : d[x] >= d[v]
    BY <1>1, <1>2, <2>1
  <2>4. d[w] # d[v]
    BY <2>1, <2>2, <2>3 DEF Siblings
  <2>5. w \in (v + 1)..w
    BY <1>2, <2>1
  <2> QED
    BY <1>2, <2>1, <2>3, <2>4, <2>5
<1>4. ASSUME NEW u \in 1..(s - 1), u > v
      PROVE  u \in Below(d, v)
  <2>1. u \in NodesOf(d)
    BY <1>1, <1>2, Depths
  <2>2. \A w \in (v + 1)..u : d[w] > d[v]
    BY <1>2, <1>3
  <2> QED
    BY <1>4, <2>1, <2>2 DEF Below
<1>5. ASSUME NEW u \in Below(d, v)
      PROVE  u \in 1..(s - 1)
  <2>1. u \in Nat /\ u > v /\ \A w \in (v + 1)..u : d[w] > d[v]
    BY Depths DEF Below
  <2>2. s \notin (v + 1)..u
    BY <1>1, <1>2, <2>1
  <2> QED
    BY <1>1, <1>2, <2>1, <2>2
<1>6. 1..v \subseteq 1..(s - 1)
  BY <1>1, <1>2
<1>7. 1..(s - 1) = UpTo(d, v)
  BY <1>2, <1>4, <1>5, <1>6 DEF UpTo
<1> QED
  BY <1>1, <1>7 DEF s

\* The last of a row and its parent end together.
LEMMA UpSees ==
    ASSUME NEW d \in Trees, NEW v \in NodesOf(d), ~HasSibling(d, v), d[v] # 0
    PROVE  UpTo(d, Parent(d, v)) = UpTo(d, v)
<1> DEFINE p == Parent(d, v)
<1>1. /\ p \in NodesOf(d) /\ v \in Below(d, p) /\ d[p] + 1 = d[v]
      /\ p \in Nat /\ v \in Nat /\ d[p] \in Nat /\ d[v] \in Nat
  BY ParentIsAbove, Depths
<1> HIDE DEF p
<1>2. p < v /\ \A w \in (p + 1)..v : d[w] > d[p]
  BY <1>1 DEF Below
<1>3. ASSUME NEW u \in UpTo(d, v)
      PROVE  u \in UpTo(d, p)
  <2>1. CASE u \in 1..v
    <3>1. u \in NodesOf(d) /\ u \in Nat
      BY <2>1, <1>1, Depths
    <3>2. u > p => \A w \in (p + 1)..u : d[w] > d[p]
      BY <1>1, <1>2, <2>1, <3>1
    <3> QED
      BY <1>1, <2>1, <3>1, <3>2 DEF UpTo, Below
  <2>2. CASE u \in Below(d, v)
    <3>1. u \in NodesOf(d) /\ u \in Nat /\ u > v /\ \A w \in (v + 1)..u : d[w] > d[v]
      BY <2>2, Depths DEF Below
    <3>2. ASSUME NEW w \in (p + 1)..u
          PROVE  d[w] > d[p]
      <4>1. w \in NodesOf(d) /\ d[w] \in Nat
        BY <1>1, <3>1, Depths
      <4>2. w \in (p + 1)..v \/ w \in (v + 1)..u
        BY <1>1, <3>1
      <4> QED
        BY <1>1, <1>2, <3>1, <4>1, <4>2
    <3> QED
      BY <1>1, <1>2, <3>1, <3>2 DEF UpTo, Below
  <2> QED
    BY <2>1, <2>2 DEF UpTo
<1>4. ASSUME NEW u \in UpTo(d, p), u \notin 1..v
      PROVE  u \in Below(d, v)
  <2>1. u \in NodesOf(d) /\ u > v /\ \A w \in (p + 1)..u : d[w] > d[p]
    BY <1>1, <1>2, <1>4, Depths DEF UpTo, Below
  <2>2. u \in Nat
    BY <2>1, Depths
  <2>3. \A w \in (v + 1)..u : d[w] \in Nat /\ d[w] >= d[v]
    BY <1>1, <1>2, <2>1, <2>2, Depths
  <2>4. ASSUME NEW w \in (v + 1)..u
        PROVE  d[w] # d[v]
    <3>1. w \in NodesOf(d) /\ w > v /\ \A x \in (v + 1)..w : d[x] >= d[v]
      BY <1>1, <2>1, <2>2, <2>3, Depths
    <3>2. w \notin Siblings(d, v)
      BY DEF HasSibling
    <3> QED
      BY <3>1, <3>2 DEF Siblings
  <2> QED
    BY <1>1, <2>1, <2>3, <2>4 DEF Below
<1>5. UpTo(d, p) = UpTo(d, v)
  BY <1>3, <1>4 DEF UpTo
<1> QED
  BY <1>5 DEF p

\* All of the tree is the root and what is below it.
LEMMA RootSees ==
    ASSUME NEW d \in Trees, NEW v \in NodesOf(d), d[v] = 0
    PROVE  UpTo(d, v) = NodesOf(d)
<1>1. v = 1 /\ \A u \in NodesOf(d) : u # 1 => d[u] # 0
  BY TreeShape
<1>2. ASSUME NEW u \in NodesOf(d), u # 1
      PROVE  u \in Below(d, 1)
  <2>1. \A w \in (1 + 1)..u : w \in NodesOf(d) /\ w # 1
    BY Depths
  <2>2. \A w \in (1 + 1)..u : d[w] > d[1]
    BY <1>1, <2>1, Depths
  <2> QED
    BY <1>2, <2>2, Depths DEF Below
<1>3. 1 \in NodesOf(d) /\ 1..1 = {1} /\ Below(d, 1) \subseteq NodesOf(d)
  BY <1>1 DEF Below
<1> QED
  BY <1>1, <1>2, <1>3 DEF UpTo

\* get_children begins at the first child, and has nothing to do at a leaf.
LEMMA FirstChild ==
    ASSUME NEW d \in Trees, NEW g \in NodesOf(d), HasChild(d, g)
    PROVE  g + 1 \in Children(d, g) /\ Children(d, g) \cap 1..g = {}
<1>1. g + 1 \in NodesOf(d) /\ g \in Nat /\ d[g] \in Nat /\ d[g + 1] \in Nat
      /\ d[g + 1] > d[g] /\ d[g + 1] <= d[g] + 1
  BY TreeShape, Depths DEF HasChild, NodesOf
<1>2. \A w \in (g + 1)..(g + 1) : w = g + 1
  BY <1>1
<1>3. g + 1 \in Below(d, g) /\ d[g + 1] = d[g] + 1
  BY <1>1, <1>2 DEF Below
<1>4. \A u \in Below(d, g) : u \notin 1..g
  BY <1>1, Depths DEF Below
<1> QED
  BY <1>3, <1>4 DEF Children

\* The siblings of a child are the children after it, and no other child is in
\* between.
LEMMA ChildrenAreSiblings ==
    ASSUME NEW d \in Trees, NEW g \in NodesOf(d), NEW v \in Children(d, g)
    PROVE  \A u : u \in Children(d, g) /\ u \notin 1..v <=> u \in Siblings(d, v)
<1>1. /\ v \in NodesOf(d) /\ v > g /\ d[v] = d[g] + 1
      /\ \A w \in (g + 1)..v : d[w] > d[g]
      /\ g \in Nat /\ v \in Nat /\ d[g] \in Nat
  BY Depths DEF Children, Below
<1>2. ASSUME NEW u \in Children(d, g), u \notin 1..v
      PROVE  u \in Siblings(d, v)
  <2>1. /\ u \in NodesOf(d) /\ u > v /\ u \in Nat /\ d[u] = d[g] + 1
        /\ \A w \in (g + 1)..u : d[w] > d[g]
    BY <1>1, <1>2, Depths DEF Children, Below
  <2>2. ASSUME NEW w \in (v + 1)..u
        PROVE  d[w] >= d[v]
    <3>1. w \in (g + 1)..u /\ w \in NodesOf(d) /\ d[w] \in Nat
      BY <1>1, <2>1, Depths
    <3> QED
      BY <1>1, <2>1, <3>1
  <2> QED
    BY <1>1, <2>1, <2>2 DEF Siblings
<1>3. ASSUME NEW u \in Siblings(d, v)
      PROVE  u \in Children(d, g) /\ u \notin 1..v
  <2>1. /\ u \in NodesOf(d) /\ u > v /\ u \in Nat /\ d[u] = d[v]
        /\ \A w \in (v + 1)..u : d[w] >= d[v]
    BY Depths DEF Siblings
  <2>2. ASSUME NEW w \in (g + 1)..u
        PROVE  d[w] > d[g]
    <3>1. w \in NodesOf(d) /\ d[w] \in Nat
      BY <1>1, <2>1, Depths
    <3>2. w \in (g + 1)..v \/ w \in (v + 1)..u
      BY <1>1, <2>1
    <3> QED
      BY <1>1, <2>1, <3>1, <3>2
  <2> QED
    BY <1>1, <2>1, <2>2 DEF Children, Below
<1> QED
  BY <1>2, <1>3

-----------------------------------------------------------------------------
(* Lists. *)

\* What follows all of a list can be put at its end.
LEMMA ListsAppend ==
    ASSUME NEW nodes \in Seq(Nat), NEW set, Lists(nodes, set), NEW v \in Nat,
           \A u \in set : u < v
    PROVE  Lists(Append(nodes, v), set \cup {v})
<1> DEFINE more == Append(nodes, v)
<1>1. /\ Len(nodes) \in Nat /\ Len(more) = Len(nodes) + 1
      /\ \A i \in 1..Len(nodes) : more[i] = nodes[i] /\ nodes[i] \in Nat
      /\ more[Len(nodes) + 1] = v
  OBVIOUS
<1>2. \A i \in 1..Len(nodes) : nodes[i] < v
  BY DEF Lists
<1>3. \A i \in 1..Len(more) : i \in 1..Len(nodes) \/ i = Len(nodes) + 1
  BY <1>1
<1> HIDE DEF more
<1>4. Ascending(more)
  BY <1>1, <1>2, <1>3 DEF Ascending, Lists
<1>5. {more[i] : i \in 1..Len(more)} = set \cup {v}
  <2>1. \A i \in 1..Len(more) : more[i] \in set \cup {v}
    BY <1>1, <1>3 DEF Lists
  <2>2. \A u \in set : \E i \in 1..Len(more) : more[i] = u
    BY <1>1 DEF Lists
  <2>3. \E i \in 1..Len(more) : more[i] = v
    BY <1>1
  <2> QED
    BY <2>1, <2>2, <2>3
<1> QED
  BY <1>4, <1>5 DEF Lists, more

\* The empty list.
LEMMA ListsNothing == Lists(<<>>, {})
BY DEF Lists, Ascending

-----------------------------------------------------------------------------
(* The walks. *)

\* Every walk begins in the invariant.
LEMMA WalkInitially == WalkInit => WalkInv
<1> SUFFICES ASSUME WalkInit PROVE WalkInv
  OBVIOUS
<1> USE DEF WalkInit
<1>1. tree \in Seq(Nat) /\ Len(tree) \in 0..MaxNodes /\ tree \in Trees
  BY TreeShape
<1>2. tree # <<>> => 1 \in NodesOf(tree) /\ tree[1] = 0
  BY <1>1, TreeShape DEF NodesOf
<1>3. HasChild(tree, goal) /\ goal \in NodesOf(tree) => goal + 1 \in NodesOf(tree)
  BY <1>1, FirstChild DEF Children, Below
<1>4. WalkTypeOK
  BY <1>1, <1>2, <1>3, WalkAssumption DEF WalkTypeOK
<1>5. Looping
  <2>1. pc = "visit" => Seen = {}
    BY DEF Seen
  <2> QED
    BY <1>2, <2>1, ListsNothing DEF Looping, Wanted
<1>6. Listing
  <2> SUFFICES ASSUME pc = "list" PROVE Listing
    BY DEF Listing
  <2>1. walk = "get_children" /\ goal \in NodesOf(tree) /\ HasChild(tree, goal)
    BY <1>1
  <2>2. goal + 1 \in Children(tree, goal) /\ Children(tree, goal) \cap 1..goal = {}
    BY <1>1, <2>1, FirstChild
  <2>3. cursor = goal + 1 /\ cursor - 1 = goal /\ result = <<>>
    BY <1>1, <2>1, Depths
  <2>4. Children(tree, goal) \cap marked \cap 1..(cursor - 1) = {}
    BY <2>2, <2>3
  <2> QED
    BY <2>1, <2>2, <2>3, <2>4, ListsNothing DEF Listing
<1>7. FindsIfThere /\ ReportsEveryError
  <2>1. pc = "done" /\ walk # "get_children" => NodesOf(tree) = {}
    BY DEF NodesOf
  <2> QED
    BY <2>1, ListsNothing DEF FindsIfThere, ReportsEveryError
<1>8. ListsChildren
  <2>1. pc = "done" /\ walk = "get_children" /\ tree # <<>> => Children(tree, goal) = {}
    BY <1>1, LeafSees DEF Children
  <2> QED
    BY <2>1, ListsNothing DEF ListsChildren
<1> QED
  BY <1>4, <1>5, <1>6, <1>7, <1>8 DEF WalkInv

\* What holds while the loop is at a node.
LEMMA LoopState ==
    ASSUME WalkInv, pc \in {"visit", "climb"}
    PROVE  /\ tree \in Trees /\ cursor \in NodesOf(tree) /\ cursor \in Nat
           /\ depth = tree[cursor] /\ depth \in Nat
           /\ walk \in {"find_node", "get_errors"}
           /\ result \in Seq(Nat) /\ result \in Seq(NodesOf(tree))
           /\ walk = "find_node" => goal \notin Seen
           /\ Lists(result, Wanted)
BY TreeShape, Depths DEF WalkInv, WalkTypeOK, Looping, NodesOf

\* What Visit records makes the list one of what has been seen with the node
\* visited.
LEMMA VisitRecords ==
    ASSUME WalkInv, pc = "visit", Visit
    PROVE  /\ walk = "find_node" => goal \notin 1..cursor
           /\ Lists(result', IF walk = "get_errors" THEN marked \cap 1..cursor ELSE {})
           /\ result' \in Seq(NodesOf(tree))
<1>1. /\ tree \in Trees /\ cursor \in NodesOf(tree) /\ cursor \in Nat
      /\ walk \in {"find_node", "get_errors"}
      /\ result \in Seq(Nat) /\ result \in Seq(NodesOf(tree))
      /\ walk = "find_node" => goal \notin Seen
      /\ Lists(result, Wanted)
  BY LoopState
<1>2. Seen = 1..(cursor - 1)
  BY DEF Seen
<1>3. walk = "find_node" => goal \notin 1..cursor
  BY <1>1, <1>2 DEF Visit
<1>4. CASE walk = "get_errors" /\ cursor \in marked
  <2>1. result' = Append(result, cursor)
    BY <1>4 DEF Visit
  <2>2. \A u \in Wanted : u < cursor
    BY <1>1, <1>2 DEF Wanted
  <2>3. Lists(Append(result, cursor), Wanted \cup {cursor})
    BY <1>1, <2>2, ListsAppend
  <2>4. Wanted \cup {cursor} = marked \cap 1..cursor
    <3>1. 1..cursor = 1..(cursor - 1) \cup {cursor}
      BY <1>1, Depths
    <3> QED
      BY <1>2, <1>4, <3>1 DEF Wanted
  <2>5. Lists(result', marked \cap 1..cursor)
    BY <2>1, <2>3, <2>4, Zenon
  <2>6. result' \in Seq(NodesOf(tree))
    BY <1>1, <2>1
  <2> QED
    BY <1>3, <1>4, <2>5, <2>6
<1>5. CASE ~(walk = "get_errors" /\ cursor \in marked)
  <2>1. result' = result
    BY <1>5 DEF Visit
  <2>2. walk = "get_errors" => marked \cap 1..cursor = marked \cap 1..(cursor - 1)
    <3>1. 1..cursor = 1..(cursor - 1) \cup {cursor}
      BY <1>1, Depths
    <3> QED
      BY <1>5, <3>1
  <2> QED
    BY <1>1, <1>2, <1>3, <2>1, <2>2 DEF Wanted
<1> QED
  BY <1>4, <1>5

\* Every step of a walk keeps the invariant.
LEMMA WalkStepKeeps == ASSUME WalkInv, [WalkNext]_walkVars PROVE WalkInv'
<1>1. CASE UNCHANGED walkVars
  BY <1>1 DEF walkVars, WalkInv, WalkTypeOK, Looping, Listing, Wanted, Seen,
              FindsIfThere, ReportsEveryError, ListsChildren
<1>2. CASE Match
  <2>1. /\ tree \in Trees /\ cursor \in NodesOf(tree) /\ cursor \in Nat
        /\ walk = "find_node" /\ cursor = goal
    BY <1>2, LoopState DEF Match
  <2>2. Lists(<<cursor>>, {cursor})
    BY <2>1 DEF Lists, Ascending
  <2>3. Lists(<<cursor>>, {goal} \cap NodesOf(tree))
    <3>1. {goal} \cap NodesOf(tree) = {cursor}
      BY <2>1
    <3> QED
      BY <2>2, <3>1
  <2>4. WalkTypeOK'
    BY <1>2, <2>1 DEF WalkInv, WalkTypeOK, Match, Unmoved
  <2> QED
    BY <1>2, <2>1, <2>3, <2>4 DEF Match, Unmoved, WalkInv, Looping, Listing,
        FindsIfThere, ReportsEveryError, ListsChildren
<1>3. CASE Descend
  <2>1. /\ pc = "visit" /\ pc' = "visit" /\ Visit /\ HasChild(tree, cursor)
        /\ cursor' = cursor + 1 /\ depth' = depth + 1
        /\ tree' = tree /\ marked' = marked /\ goal' = goal /\ walk' = walk
    BY <1>3 DEF Descend, Visit, Unmoved
  <2>2. /\ tree \in Trees /\ cursor \in NodesOf(tree) /\ cursor \in Nat
        /\ depth = tree[cursor] /\ walk \in {"find_node", "get_errors"}
    BY <2>1, LoopState
  <2>3. cursor + 1 \in NodesOf(tree) /\ tree[cursor + 1] = depth + 1
    BY <2>1, <2>2, FirstChild DEF Children, Below
  <2>4. depth + 1 \in 0..MaxNodes
    BY <2>2, <2>3, TreeShape, WalkAssumption
  <2>5. Seen' = 1..cursor
    BY <2>1, <2>2 DEF Seen
  <2>6. /\ walk = "find_node" => goal \notin 1..cursor
        /\ Lists(result', IF walk = "get_errors" THEN marked \cap 1..cursor ELSE {})
        /\ result' \in Seq(NodesOf(tree))
    BY <2>1, VisitRecords
  <2>7. WalkTypeOK'
    BY <2>1, <2>2, <2>3, <2>4, <2>6 DEF WalkInv, WalkTypeOK
  <2>8. Looping'
    BY <2>1, <2>2, <2>3, <2>5, <2>6 DEF Looping, Wanted
  <2> QED
    BY <2>1, <2>2, <2>7, <2>8 DEF WalkInv, Listing, FindsIfThere, ReportsEveryError,
        ListsChildren
<1>4. CASE Leaf
  <2>1. /\ pc = "visit" /\ pc' = "climb" /\ Visit /\ ~HasChild(tree, cursor)
        /\ cursor' = cursor /\ depth' = depth
        /\ tree' = tree /\ marked' = marked /\ goal' = goal /\ walk' = walk
    BY <1>4 DEF Leaf, Visit, Unmoved
  <2>2. /\ tree \in Trees /\ cursor \in NodesOf(tree)
        /\ depth = tree[cursor] /\ walk \in {"find_node", "get_errors"}
    BY <2>1, LoopState
  <2>3. Seen' = 1..cursor
    BY <2>1, <2>2, LeafSees DEF Seen
  <2>4. /\ walk = "find_node" => goal \notin 1..cursor
        /\ Lists(result', IF walk = "get_errors" THEN marked \cap 1..cursor ELSE {})
        /\ result' \in Seq(NodesOf(tree))
    BY <2>1, VisitRecords
  <2>5. WalkTypeOK'
    BY <2>1, <2>2, <2>4 DEF WalkInv, WalkTypeOK
  <2>6. Looping'
    BY <2>1, <2>2, <2>3, <2>4 DEF Looping, Wanted
  <2> QED
    BY <2>1, <2>2, <2>5, <2>6 DEF WalkInv, Listing, FindsIfThere, ReportsEveryError,
        ListsChildren
<1>5. CASE Sideways
  <2>1. /\ pc = "climb" /\ pc' = "visit" /\ HasSibling(tree, cursor)
        /\ cursor' = NextSibling(tree, cursor) /\ depth' = depth /\ result' = result
        /\ tree' = tree /\ marked' = marked /\ goal' = goal /\ walk' = walk
    BY <1>5 DEF Sideways, Unmoved
  <2>2. /\ tree \in Trees /\ cursor \in NodesOf(tree)
        /\ depth = tree[cursor] /\ walk \in {"find_node", "get_errors"}
    BY <2>1, LoopState
  <2>3. /\ cursor' \in NodesOf(tree) /\ tree[cursor'] = depth
        /\ 1..(cursor' - 1) = UpTo(tree, cursor)
    BY <2>1, <2>2, SidewaysSees
  <2>4. Seen' = Seen /\ Wanted' = Wanted
    BY <2>1, <2>3 DEF Seen, Wanted
  <2>5. WalkTypeOK'
    BY <2>1, <2>2, <2>3 DEF WalkInv, WalkTypeOK
  <2>6. Looping'
    BY <2>1, <2>2, <2>3, <2>4 DEF WalkInv, Looping
  <2> QED
    BY <2>1, <2>2, <2>5, <2>6 DEF WalkInv, Listing, FindsIfThere, ReportsEveryError,
        ListsChildren
<1>6. CASE Up
  <2>1. /\ pc = "climb" /\ pc' = "climb" /\ ~HasSibling(tree, cursor) /\ depth # 0
        /\ cursor' = Parent(tree, cursor) /\ depth' = depth - 1 /\ result' = result
        /\ tree' = tree /\ marked' = marked /\ goal' = goal /\ walk' = walk
    BY <1>6 DEF Up, Unmoved
  <2>2. /\ tree \in Trees /\ cursor \in NodesOf(tree) /\ depth \in Nat
        /\ depth = tree[cursor] /\ walk \in {"find_node", "get_errors"}
    BY <2>1, LoopState
  <2>3. /\ cursor' \in NodesOf(tree) /\ tree[cursor'] + 1 = depth
        /\ UpTo(tree, cursor') = UpTo(tree, cursor)
    BY <2>1, <2>2, ParentIsAbove, UpSees
  <2>4. tree[cursor'] = depth - 1
    BY <2>2, <2>3, Depths
  <2>5. Seen' = Seen /\ Wanted' = Wanted
    BY <2>1, <2>3 DEF Seen, Wanted
  <2>6. WalkTypeOK'
    BY <2>1, <2>2, <2>3, WalkAssumption DEF WalkInv, WalkTypeOK
  <2>7. Looping'
    BY <2>1, <2>2, <2>3, <2>4, <2>5 DEF WalkInv, Looping
  <2> QED
    BY <2>1, <2>2, <2>6, <2>7 DEF WalkInv, Listing, FindsIfThere, ReportsEveryError,
        ListsChildren
<1>7. CASE Return
  <2>1. /\ pc = "climb" /\ pc' = "done" /\ depth = 0
        /\ cursor' = cursor /\ depth' = depth /\ result' = result
        /\ tree' = tree /\ marked' = marked /\ goal' = goal /\ walk' = walk
    BY <1>7 DEF Return, Unmoved
  <2>2. /\ tree \in Trees /\ cursor \in NodesOf(tree)
        /\ depth = tree[cursor] /\ walk \in {"find_node", "get_errors"}
        /\ walk = "find_node" => goal \notin Seen
        /\ Lists(result, Wanted)
    BY <2>1, LoopState
  <2>3. Seen = NodesOf(tree)
    BY <2>1, <2>2, RootSees DEF Seen
  <2>4. marked \cap NodesOf(tree) = marked
    BY DEF WalkInv, WalkTypeOK
  <2>5. FindsIfThere'
    <3>1. walk = "find_node" => {goal} \cap NodesOf(tree) = {} /\ Wanted = {}
      BY <2>2, <2>3 DEF Wanted
    <3> QED
      BY <2>1, <2>2, <3>1 DEF FindsIfThere
  <2>6. ReportsEveryError'
    BY <2>1, <2>2, <2>3, <2>4 DEF ReportsEveryError, Wanted
  <2>7. WalkTypeOK'
    BY <2>1 DEF WalkInv, WalkTypeOK
  <2> QED
    BY <2>1, <2>2, <2>5, <2>6, <2>7 DEF WalkInv, Looping, Listing, ListsChildren
<1>8. CASE List
  <2>1. /\ pc = "list" /\ depth' = depth
        /\ tree' = tree /\ marked' = marked /\ goal' = goal /\ walk' = walk
    BY <1>8 DEF List, Unmoved
  <2> DEFINE children == Children(tree, goal)
  <2>2. /\ tree \in Trees /\ goal \in NodesOf(tree) /\ cursor \in children
        /\ walk = "get_children"
        /\ Lists(result, children \cap marked \cap 1..(cursor - 1))
        /\ result \in Seq(Nat) /\ result \in Seq(NodesOf(tree))
    BY <2>1 DEF WalkInv, WalkTypeOK, Listing, NodesOf
  <2>3. cursor \in NodesOf(tree) /\ cursor \in Nat /\ cursor > 0
        /\ 1..cursor = 1..(cursor - 1) \cup {cursor}
    BY <2>2, Depths DEF Children, Below
  <2>4. Lists(result', children \cap marked \cap 1..cursor) /\ result' \in Seq(NodesOf(tree))
    <3>1. CASE cursor \in marked
      <4>1. \A u \in children \cap marked \cap 1..(cursor - 1) : u < cursor
        BY <2>3
      <4>2. Lists(Append(result, cursor), (children \cap marked \cap 1..(cursor - 1)) \cup {cursor})
        BY <2>2, <2>3, <4>1, ListsAppend
      <4>3. (children \cap marked \cap 1..(cursor - 1)) \cup {cursor}
              = children \cap marked \cap 1..cursor
        BY <2>2, <2>3, <3>1
      <4>4. result' = Append(result, cursor)
        BY <1>8, <3>1 DEF List
      <4>5. Lists(result', children \cap marked \cap 1..cursor)
        BY <4>2, <4>3, <4>4, Zenon
      <4>6. result' \in Seq(NodesOf(tree))
        BY <2>2, <2>3, <4>4
      <4> QED
        BY <4>5, <4>6
    <3>2. CASE cursor \notin marked
      <4>1. children \cap marked \cap 1..(cursor - 1) = children \cap marked \cap 1..cursor
        BY <2>3, <3>2
      <4> QED
        BY <1>8, <2>2, <3>2, <4>1 DEF List
    <3> QED
      BY <3>1, <3>2
  <2>5. \A u : u \in children /\ u \notin 1..cursor <=> u \in Siblings(tree, cursor)
    BY <2>2, ChildrenAreSiblings
  <2>6. CASE HasSibling(tree, cursor)
    <3>1. pc' = "list" /\ cursor' = NextSibling(tree, cursor)
      BY <1>8, <2>1, <2>6 DEF List
    <3>2. cursor' \in Siblings(tree, cursor) /\ \A u \in Siblings(tree, cursor) : cursor' <= u
      BY <2>2, <2>3, <2>6, <3>1, NextSiblingIsFirst
    <3>3. cursor' \in children /\ cursor' \in NodesOf(tree) /\ cursor' \in Nat /\ cursor' > cursor
      BY <2>2, <2>5, <3>2, Depths DEF Children, Below, Siblings
    <3>4. children \cap marked \cap 1..(cursor' - 1) = children \cap marked \cap 1..cursor
      BY <2>3, <2>5, <3>2, <3>3
    <3>5. WalkTypeOK'
      BY <2>1, <2>4, <3>1, <3>3 DEF WalkInv, WalkTypeOK
    <3>6. Listing'
      BY <2>1, <2>2, <2>4, <3>3, <3>4 DEF Listing
    <3> QED
      BY <2>1, <2>2, <3>1, <3>5, <3>6 DEF WalkInv, Looping, FindsIfThere,
          ReportsEveryError, ListsChildren
  <2>7. CASE ~HasSibling(tree, cursor)
    <3>1. pc' = "done" /\ cursor' = cursor
      BY <1>8, <2>7 DEF List
    <3>2. children \cap marked \cap 1..cursor = children \cap marked
      BY <2>5, <2>7 DEF HasSibling
    <3>3. WalkTypeOK'
      BY <2>1, <2>4, <3>1 DEF WalkInv, WalkTypeOK
    <3>4. ListsChildren'
      BY <2>1, <2>4, <3>2 DEF ListsChildren
    <3> QED
      BY <2>1, <2>2, <3>1, <3>3, <3>4 DEF WalkInv, Looping, Listing, FindsIfThere,
          ReportsEveryError
  <2> QED
    BY <2>6, <2>7
<1> QED
  BY <1>1, <1>2, <1>3, <1>4, <1>5, <1>6, <1>7, <1>8 DEF WalkNext, WalkStep, Returned

\* The invariant holds all along.
LEMMA WalkInvariant == WalkSpec => []WalkInv
<1>1. WalkInv /\ [WalkNext]_walkVars => WalkInv'
  BY WalkStepKeeps
<1> QED
  BY WalkInitially, <1>1, PTL DEF WalkSpec

\* The variables of a walk keep their types: at every step of the loop the
\* cursor is at a node of the tree and the counter within its height.
THEOREM WalkTypeCorrect == WalkSpec => []WalkTypeOK
<1>1. WalkInv => WalkTypeOK
  BY DEF WalkInv
<1> QED
  BY WalkInvariant, <1>1, PTL

\* The counter of find_node and get_errors agrees with the depth of the node
\* the cursor is at, although nothing in the loop looks that depth up.
THEOREM CounterIsDepth == WalkSpec => []CountsDepth
<1>1. WalkInv => CountsDepth
  BY DEF WalkInv, Looping, CountsDepth
<1> QED
  BY WalkInvariant, <1>1, PTL

\* find_node returns the node with the id asked for just when the tree has it.
THEOREM FindNodeFinds == WalkSpec => []FindsIfThere
<1>1. WalkInv => FindsIfThere
  BY DEF WalkInv
<1> QED
  BY WalkInvariant, <1>1, PTL

\* get_errors returns every error of the tree once, in document order.
THEOREM GetErrorsReports == WalkSpec => []ReportsEveryError
<1>1. WalkInv => ReportsEveryError
  BY DEF WalkInv
<1> QED
  BY WalkInvariant, <1>1, PTL

\* get_children returns the children of its node that it is asked for, in
\* order, and no node from elsewhere.
THEOREM GetChildrenLists == WalkSpec => []ListsChildren
<1>1. WalkInv => ListsChildren
  BY DEF WalkInv
<1> QED
  BY WalkInvariant, <1>1, PTL

-----------------------------------------------------------------------------
(* Skeletons. *)

\* What lies at most n levels below v and can be reached by named nodes.
Shown(d, named, v, n) ==
    {v} \cup {u \in Below(d, v) :
                /\ d[u] <= d[v] + n
                /\ u \in named
                /\ \A w \in Below(d, v) : u \in Below(d, w) => w \in named}

\* What is below a node below v is below v.
LEMMA BelowBelow ==
    ASSUME NEW d \in Trees, NEW v \in NodesOf(d),
           NEW c \in Below(d, v), NEW u \in Below(d, c)
    PROVE  u \in Below(d, v)
<1>1. /\ c \in NodesOf(d) /\ c > v /\ \A w \in (v + 1)..c : d[w] > d[v]
      /\ u \in NodesOf(d) /\ u > c /\ \A w \in (c + 1)..u : d[w] > d[c]
      /\ v \in Nat /\ c \in Nat /\ u \in Nat /\ d[v] \in Nat /\ d[c] \in Nat
  BY Depths DEF Below
<1>2. d[c] > d[v]
  BY <1>1
<1>3. ASSUME NEW w \in (v + 1)..u
      PROVE  d[w] > d[v]
  <2>1. d[w] \in Nat
    BY <1>1, Depths
  <2>2. w \in (v + 1)..c \/ w \in (c + 1)..u
    BY <1>1
  <2> QED
    BY <1>1, <1>2, <2>1, <2>2
<1> QED
  BY <1>1, <1>3 DEF Below

\* A node below v is a child of v or below one.
LEMMA ChildAbove ==
    ASSUME NEW d \in Trees, NEW v \in NodesOf(d), NEW u \in Below(d, v)
    PROVE  \E c \in Children(d, v) : u = c \/ u \in Below(d, c)
<1> DEFINE S == {k \in Nat : u - k \in NodesOf(d) /\ u - k > v /\ d[u - k] = d[v] + 1}
<1>1. /\ u \in NodesOf(d) /\ u > v /\ \A w \in (v + 1)..u : d[w] > d[v] /\ d[w] \in Nat
      /\ v \in Nat /\ u \in Nat /\ d[v] \in Nat
  BY Depths DEF Below
<1>2. u - (v + 1) \in S
  <2>1. v + 1 \in (v + 1)..u /\ v + 1 \in NodesOf(d) /\ u - (u - (v + 1)) = v + 1
    BY <1>1, Depths
  <2>2. d[v + 1] <= d[v] + 1 /\ d[v + 1] > d[v] /\ d[v + 1] \in Nat
    BY <1>1, <2>1, TreeShape
  <2> QED
    BY <1>1, <2>1, <2>2
<1>3. PICK k \in S : \A j \in S : k <= j
  <2>1. S \subseteq Nat /\ S # {}
    BY <1>2
  <2> HIDE DEF S
  <2> QED
    BY <2>1, LeastExists, Zenon
<1> DEFINE c == u - k
<1>4. c \in NodesOf(d) /\ c > v /\ c <= u /\ c \in Nat /\ d[c] = d[v] + 1
  BY <1>1, <1>3
<1>5. c \in Children(d, v)
  BY <1>1, <1>4 DEF Children, Below
<1>6. ASSUME NEW w \in (c + 1)..u
      PROVE  d[w] > d[c]
  <2>1. w \in (v + 1)..u /\ w \in NodesOf(d) /\ w \in Nat /\ w > v
    BY <1>1, <1>4, Depths
  <2>2. u - w \in Nat /\ u - w < k /\ u - (u - w) = w
    BY <1>1, <1>3, <1>4, <2>1
  <2>3. u - w \notin S
    BY <1>3, <2>2
  <2>4. d[w] # d[v] + 1
    BY <2>1, <2>2, <2>3
  <2> QED
    BY <1>1, <1>4, <2>1, <2>4
<1>7. u = c \/ u \in Below(d, c)
  BY <1>1, <1>4, <1>6 DEF Below
<1> QED
  BY <1>5, <1>7

\* Nothing lies between a node and its children.
LEMMA NothingBetween ==
    ASSUME NEW d \in Trees, NEW v \in NodesOf(d), NEW c \in Children(d, v),
           NEW w \in Below(d, v)
    PROVE  c \notin Below(d, w)
<1>1. /\ c \in NodesOf(d) /\ d[c] = d[v] + 1 /\ w \in NodesOf(d) /\ w > v
      /\ v \in Nat /\ w \in Nat /\ c \in Nat
      /\ d[v] \in Nat /\ d[w] \in Nat /\ d[w] > d[v]
  BY Depths DEF Children, Below
<1>2. c \in Below(d, w) => d[c] > d[w]
  BY <1>1 DEF Below
<1> QED
  BY <1>1, <1>2

\* A node above one that is below the child c of v is not above c: it is c or
\* below it.
LEMMA AboveInside ==
    ASSUME NEW d \in Trees, NEW v \in NodesOf(d), NEW c \in Children(d, v),
           NEW u \in Below(d, c), NEW w \in Below(d, v), u \in Below(d, w)
    PROVE  w = c \/ w \in Below(d, c)
<1>1. /\ u \in NodesOf(d) /\ u \in Nat /\ c \in NodesOf(d) /\ c \in Nat /\ u > c
      /\ w \in NodesOf(d) /\ w \in Nat /\ u > w
      /\ \A x \in (c + 1)..u : d[x] > d[c]
      /\ \A x \in (w + 1)..u : d[x] > d[w]
  BY Depths DEF Children, Below
<1>2. CASE w < c
  <2>1. c \in Below(d, w)
    BY <1>1, <1>2 DEF Below
  <2> QED
    BY <2>1, NothingBetween
<1>3. CASE w > c
  <2>1. \A x \in (c + 1)..w : d[x] > d[c]
    BY <1>1
  <2> QED
    BY <1>1, <1>3, <2>1 DEF Below
<1> QED
  BY <1>1, <1>2, <1>3

\* What v and its children show of n levels below each.
ShownByChildren(d, named, v, n) ==
    {v} \cup UNION {Shown(d, named, c, n) : c \in Children(d, v) \cap named}

\* What is shown one level further is what the children show.
LEMMA ShownByLevels ==
    ASSUME NEW d \in Trees, NEW named, NEW v \in NodesOf(d), NEW n \in Nat
    PROVE  /\ Shown(d, named, v, 0) = {v}
           /\ Shown(d, named, v, n + 1) = ShownByChildren(d, named, v, n)
<1>1. d[v] \in Nat /\ v \in Nat
  BY Depths
<1>2. \A u \in Below(d, v) : u \in NodesOf(d) /\ u \in Nat /\ d[u] \in Nat /\ d[u] > d[v]
  BY Depths DEF Below
<1>3. Shown(d, named, v, 0) = {v}
  BY <1>1, <1>2 DEF Shown
<1>4. ASSUME NEW c \in Children(d, v) \cap named, NEW u \in Shown(d, named, c, n)
      PROVE  u \in Shown(d, named, v, n + 1)
  <2>1. c \in Below(d, v) /\ d[c] = d[v] + 1
    BY DEF Children
  <2>2. CASE u = c
    <3>1. \A w \in Below(d, v) : c \notin Below(d, w)
      BY NothingBetween
    <3> QED
      BY <1>1, <2>1, <2>2, <3>1 DEF Shown
  <2>3. CASE u # c
    <3>1. /\ u \in Below(d, c) /\ d[u] <= d[c] + n /\ u \in named
          /\ \A w \in Below(d, c) : u \in Below(d, w) => w \in named
      BY <2>3 DEF Shown
    <3>2. u \in Below(d, v)
      BY <2>1, <3>1, BelowBelow
    <3>3. \A w \in Below(d, v) : u \in Below(d, w) => w \in named
      BY <3>1, AboveInside
    <3>4. d[u] <= d[v] + (n + 1)
      BY <1>1, <1>2, <2>1, <3>1, <3>2
    <3> QED
      BY <3>1, <3>2, <3>3, <3>4 DEF Shown
  <2> QED
    BY <2>2, <2>3
<1>5. ASSUME NEW u \in Shown(d, named, v, n + 1), u # v
      PROVE  \E c \in Children(d, v) \cap named : u \in Shown(d, named, c, n)
  <2>1. /\ u \in Below(d, v) /\ d[u] <= d[v] + (n + 1) /\ u \in named
        /\ \A w \in Below(d, v) : u \in Below(d, w) => w \in named
    BY <1>5 DEF Shown
  <2>2. PICK c \in Children(d, v) : u = c \/ u \in Below(d, c)
    BY <2>1, ChildAbove
  <2>3. c \in Below(d, v) /\ d[c] = d[v] + 1
    BY DEF Children
  <2>4. c \in named
    BY <2>1, <2>2, <2>3
  <2>5. d[u] <= d[c] + n
    BY <1>1, <1>2, <2>1, <2>3
  <2>6. \A w \in Below(d, c) : w \in Below(d, v)
    BY <2>3, BelowBelow
  <2>7. u \in Shown(d, named, c, n)
    BY <2>1, <2>2, <2>5, <2>6 DEF Shown
  <2> QED
    BY <2>4, <2>7
<1>6. v \in Shown(d, named, v, n + 1)
  BY DEF Shown
<1> QED
  BY <1>3, <1>4, <1>5, <1>6 DEF ShownByChildren

\* node_to_skeleton, which goes down level by level, shows what can be reached
\* within its levels by named nodes.
LEMMA SkeletonShows ==
    ASSUME NEW d \in Trees, NEW named, NEW root \in NodesOf(d), NEW levels \in Nat
    PROVE  Skeleton(d, named, root, levels) = Shown(d, named, root, levels)
<1> DEFINE Step(f, v, level) ==
               {v} \cup UNION {f[level + 1][c] :
                                 c \in SkeletonChildren(d, named, v, level, levels)}
           Walk(f) == f = [level \in 0..levels |-> [v \in NodesOf(d) |-> Step(f, v, level)]]
           shows == [level \in 0..levels |->
                       [v \in NodesOf(d) |-> Shown(d, named, v, levels - level)]]
<1>1. Walk(shows)
  <2>1. ASSUME NEW v \in NodesOf(d), NEW level \in 0..levels
        PROVE  Shown(d, named, v, levels - level) = Step(shows, v, level)
    <3>1. CASE level = levels
      <4>1. SkeletonChildren(d, named, v, level, levels) = {}
        BY <3>1 DEF SkeletonChildren
      <4> HIDE DEF shows
      <4>2. Step(shows, v, level) = {v}
        BY <4>1
      <4>3. levels - level = 0
        BY <3>1
      <4> QED
        BY <4>2, <4>3, ShownByLevels
    <3>2. CASE level # levels
      <4> DEFINE n == levels - (level + 1)
      <4>1. level < levels /\ level + 1 \in 0..levels /\ n \in Nat /\ levels - level = n + 1
        BY <3>2
      <4>2. SkeletonChildren(d, named, v, level, levels) = Children(d, v) \cap named
        BY <4>1 DEF SkeletonChildren
      <4>3. \A c \in Children(d, v) : shows[level + 1][c] = Shown(d, named, c, n)
        BY <4>1 DEF Children, Below
      <4> HIDE DEF n, shows
      <4>4. {shows[level + 1][c] : c \in Children(d, v) \cap named} =
              {Shown(d, named, c, n) : c \in Children(d, v) \cap named}
        BY <4>3
      <4>5. Step(shows, v, level) = ShownByChildren(d, named, v, n)
        BY <4>2, <4>4 DEF ShownByChildren
      <4>6. Shown(d, named, v, n + 1) = ShownByChildren(d, named, v, n)
        BY <4>1, ShownByLevels
      <4> HIDE DEF Step
      <4> QED
        BY <4>1, <4>5, <4>6, Zenon
    <3> QED
      BY <3>1, <3>2
  <2> QED
    BY <2>1
<1>2. ASSUME NEW f, Walk(f)
      PROVE  \A k \in 0..levels, v \in NodesOf(d) :
                f[levels - k][v] = Shown(d, named, v, k)
  <2>1. \A v \in NodesOf(d), level \in 0..levels : f[level][v] = Step(f, v, level)
    <3> HIDE DEF Step
    <3>1. Walk(f)
      BY <1>2
    <3>2. \A level \in 0..levels : f[level] = [v \in NodesOf(d) |-> Step(f, v, level)]
      BY <3>1, Zenon
    <3> QED
      BY <3>2, Zenon
  <2> DEFINE Bad == {k \in 0..levels :
                       \E v \in NodesOf(d) : f[levels - k][v] # Shown(d, named, v, k)}
  <2>2. SUFFICES ASSUME Bad # {} PROVE FALSE
    OBVIOUS
  <2>3. PICK k \in Bad : \A j \in Bad : k <= j
    <3>1. Bad \subseteq Nat
      OBVIOUS
    <3> HIDE DEF Bad
    <3> QED
      BY <2>2, <3>1, LeastExists, Zenon
  <2>4. PICK v \in NodesOf(d) : f[levels - k][v] # Shown(d, named, v, k)
    BY <2>3
  <2>5. k \in 0..levels /\ levels - k \in 0..levels
    BY <2>3
  <2>6. f[levels - k][v] = Step(f, v, levels - k)
    BY <2>1, <2>5
  <2>7. CASE k = 0
    <3>1. SkeletonChildren(d, named, v, levels - k, levels) = {}
      BY <2>7 DEF SkeletonChildren
    <3>2. f[levels - k][v] = {v}
      BY <2>6, <3>1
    <3> QED
      BY <2>4, <2>7, <3>2, ShownByLevels
  <2>8. CASE k # 0
    <3> DEFINE n == k - 1
    <3>1. n \in Nat /\ n + 1 = k /\ n \in 0..levels /\ (levels - k) + 1 = levels - n
      BY <2>5, <2>8
    <3>2. n \notin Bad
      BY <2>3, <3>1
    <3>3. \A c \in NodesOf(d) : f[levels - n][c] = Shown(d, named, c, n)
      BY <3>1, <3>2
    <3>4. SkeletonChildren(d, named, v, levels - k, levels) = Children(d, v) \cap named
      BY <2>5, <2>8 DEF SkeletonChildren
    <3>5. \A c \in Children(d, v) : f[(levels - k) + 1][c] = Shown(d, named, c, n)
      BY <3>1, <3>3 DEF Children, Below
    <3> HIDE DEF n, Bad
    <3>6. f[levels - k][v] = ShownByChildren(d, named, v, n)
      BY <2>6, <3>4, <3>5 DEF ShownByChildren
    <3>7. Shown(d, named, v, n + 1) = ShownByChildren(d, named, v, n)
      BY <3>1, ShownByLevels
    <3> QED
      BY <2>4, <3>1, <3>6, <3>7, Zenon
  <2> QED
    BY <2>7, <2>8
<1>3. Skeleton(d, named, root, levels) = (CHOOSE f : Walk(f))[0][root]
  BY DEF Skeleton
<1>4. Walk(CHOOSE f : Walk(f))
  <2> HIDE DEF Walk, shows
  <2> QED
    BY <1>1, Zenon
<1>5. levels \in 0..levels /\ levels - levels = 0
  OBVIOUS
<1> HIDE DEF Walk
<1> QED
  BY <1>2, <1>3, <1>4, <1>5

\* A skeleton shows, of the nodes within its levels, just those all of whose
\* ancestors below its root are named too.
THEOREM SkeletonsReach == WalkSpec => []SkeletonReaches
<1>1. WalkInv => SkeletonReaches
  <2> SUFFICES ASSUME WalkInv, walk = "get_children", NEW levels \in 0..MaxLevels
               PROVE  Skeleton(tree, marked, goal, levels) =
                        {goal} \cup
                        {v \in Below(tree, goal) :
                            /\ tree[v] <= tree[goal] + levels
                            /\ v \in marked
                            /\ \A u \in Below(tree, goal) : v \in Below(tree, u) => u \in marked}
    BY DEF SkeletonReaches
  <2>1. tree \in Trees /\ goal \in NodesOf(tree) /\ levels \in Nat
    BY WalkAssumption DEF WalkInv, WalkTypeOK
  <2> QED
    BY <2>1, SkeletonShows DEF Shown
<1> QED
  BY WalkInvariant, <1>1, PTL

=============================================================================
