------------------------------- MODULE CstWalk -------------------------------
(***************************************************************************)
(* The walks over a parse tree (src/cst.rs).  find_node and get_errors are *)
(* one loop around a tree-sitter cursor: down while there is a child, then *)
(* sideways, and up until a sibling is found; a counter of the depth tells *)
(* when the cursor is back at the root.  get_children goes along one row;  *)
(* node_to_skeleton descends a given number of levels.                     *)
(*                                                                         *)
(* A tree is the sequence of its nodes' depths in document order, so that  *)
(* a node is its place in that order, which stands for its id: d[1] = 0    *)
(* and each node is at most one level below the one before.  The empty     *)
(* sequence is a file that has no tree.                                    *)
(***************************************************************************)
EXTENDS Integers, Sequences

CONSTANTS
    MaxNodes,    \* bound: the nodes of a tree
    MaxLevels    \* bound: what a client passes for max_depth

ASSUME WalkAssumption == MaxNodes \in Nat /\ MaxLevels \in Nat

VARIABLES
    tree,     \* the depths of the nodes in document order
    marked,   \* the nodes that are ERROR or MISSING, or those that are named
    goal,     \* the id looked for; that of no node if it is stale
    walk,     \* the function that walks
    pc,       \* where it is: "visit", "climb", "list" or "done"
    cursor,   \* the node the cursor is at
    depth,    \* its counter
    result    \* the nodes it returns, in order

walkVars == <<tree, marked, goal, walk, pc, cursor, depth, result>>

Trees ==
    {<<>>} \cup
    UNION {{d \in [1..n -> 0..(n - 1)] :
              /\ d[1] = 0
              /\ \A i \in 1..(n - 1) : d[i + 1] \in 1..(d[i] + 1)}
           : n \in 1..MaxNodes}

-----------------------------------------------------------------------------
(* The tree and the cursor of tree-sitter. *)

NodesOf(d) == 1..Len(d)

HasChild(d, v) == v < Len(d) /\ d[v + 1] > d[v]

\* The nodes below v, all of which follow it, as far as the next one that is
\* not deeper.
Below(d, v) == {u \in NodesOf(d) : u > v /\ \A w \in (v + 1)..u : d[w] > d[v]}

Siblings(d, v) ==
    {u \in NodesOf(d) :
        /\ u > v /\ d[u] = d[v]
        /\ \A w \in (v + 1)..u : d[w] >= d[v]}

HasSibling(d, v) == Siblings(d, v) # {}

NextSibling(d, v) == CHOOSE u \in Siblings(d, v) : \A w \in Siblings(d, v) : u <= w

\* goto_parent leaves a cursor that is at the root where it is.
Parent(d, v) ==
    IF d[v] = 0 THEN v
    ELSE CHOOSE u \in NodesOf(d) : v \in Below(d, u) /\ d[u] + 1 = d[v]

Children(d, v) == {u \in Below(d, v) : d[u] = d[v] + 1}

-----------------------------------------------------------------------------
WalkInit ==
    /\ tree \in Trees
    /\ walk \in {"find_node", "get_errors", "get_children"}
    /\ marked \in SUBSET NodesOf(tree)
    /\ walk = "find_node" => marked = {}
    /\ goal \in IF walk = "get_children" THEN NodesOf(tree) ELSE 1..(MaxNodes + 1)
    /\ walk = "get_errors" => goal = MaxNodes + 1
    /\ pc = IF tree = <<>> THEN "done"
            ELSE IF walk = "get_children"
                 THEN IF HasChild(tree, goal) THEN "list" ELSE "done"
                 ELSE "visit"
    /\ cursor = IF walk = "get_children" THEN goal + 1 ELSE 1
    /\ depth = 0
    /\ result = <<>>

Unmoved == UNCHANGED <<tree, marked, goal, walk>>

\* find_node returns the node it is at.
Match ==
    /\ pc = "visit" /\ walk = "find_node" /\ cursor = goal
    /\ result' = <<cursor>>
    /\ pc' = "done"
    /\ UNCHANGED <<cursor, depth>> /\ Unmoved

\* Mutant of Visit: an error that has children is passed over.
VisitLeaves ==
    /\ pc = "visit"
    /\ walk = "find_node" => cursor # goal
    /\ result' = IF walk = "get_errors" /\ cursor \in marked /\ ~HasChild(tree, cursor)
                 THEN Append(result, cursor) ELSE result
    /\ Unmoved

\* get_errors records the node it is at if it is an error.
Visit ==
    /\ pc = "visit"
    /\ walk = "find_node" => cursor # goal
    /\ result' = IF walk = "get_errors" /\ cursor \in marked
                 THEN Append(result, cursor) ELSE result
    /\ Unmoved

Descend ==
    /\ Visit
    /\ HasChild(tree, cursor)
    /\ cursor' = cursor + 1
    /\ depth' = depth + 1
    /\ UNCHANGED pc

Leaf ==
    /\ Visit
    /\ ~HasChild(tree, cursor)
    /\ pc' = "climb"
    /\ UNCHANGED <<cursor, depth>>

Sideways ==
    /\ pc = "climb"
    /\ HasSibling(tree, cursor)
    /\ cursor' = NextSibling(tree, cursor)
    /\ pc' = "visit"
    /\ UNCHANGED <<depth, result>> /\ Unmoved

\* Mutant of Up: the counter is not taken back.
UpUncounted ==
    /\ pc = "climb"
    /\ ~HasSibling(tree, cursor)
    /\ depth # 0
    /\ cursor' = Parent(tree, cursor)
    /\ UNCHANGED <<pc, depth, result>> /\ Unmoved

\* Mutant of Up: the counter is taken back twice.
UpTwice ==
    /\ pc = "climb"
    /\ ~HasSibling(tree, cursor)
    /\ depth # 0
    /\ cursor' = Parent(tree, cursor)
    /\ depth' = depth - 2
    /\ UNCHANGED <<pc, result>> /\ Unmoved

Up ==
    /\ pc = "climb"
    /\ ~HasSibling(tree, cursor)
    /\ depth # 0
    /\ cursor' = Parent(tree, cursor)
    /\ depth' = depth - 1
    /\ UNCHANGED <<pc, result>> /\ Unmoved

\* Mutant of Return: the end of any row is taken for the end of the walk.
ReturnAtRowEnd ==
    /\ pc = "climb"
    /\ ~HasSibling(tree, cursor)
    /\ pc' = "done"
    /\ UNCHANGED <<cursor, depth, result>> /\ Unmoved

Return ==
    /\ pc = "climb"
    /\ ~HasSibling(tree, cursor)
    /\ depth = 0
    /\ pc' = "done"
    /\ UNCHANGED <<cursor, depth, result>> /\ Unmoved

\* Mutant of List: the last child is left before it is listed.
ListShort ==
    /\ pc = "list"
    /\ IF HasSibling(tree, cursor)
       THEN /\ result' = IF cursor \in marked THEN Append(result, cursor) ELSE result
            /\ cursor' = NextSibling(tree, cursor) /\ UNCHANGED pc
       ELSE pc' = "done" /\ UNCHANGED <<cursor, result>>
    /\ UNCHANGED depth /\ Unmoved

\* get_children with named_only, where marked are the named nodes; without,
\* marked are all.
List ==
    /\ pc = "list"
    /\ result' = IF cursor \in marked THEN Append(result, cursor) ELSE result
    /\ IF HasSibling(tree, cursor)
       THEN cursor' = NextSibling(tree, cursor) /\ UNCHANGED pc
       ELSE pc' = "done" /\ UNCHANGED cursor
    /\ UNCHANGED depth /\ Unmoved

Returned == pc = "done" /\ UNCHANGED walkVars

WalkStep == Match \/ Descend \/ Leaf \/ Sideways \/ Up \/ Return \/ List

WalkNext == WalkStep \/ Returned

WalkSpec == WalkInit /\ [][WalkNext]_walkVars

\* The loops run without waiting for anything.
FairWalkSpec == WalkSpec /\ WF_walkVars(WalkStep)

-----------------------------------------------------------------------------
(* node_to_skeleton *)

\* Mutant of SkeletonChildren: the level asked for last is left out.
SkeletonShallow(d, named, v, level, levels) ==
    IF level + 1 < levels THEN Children(d, v) \cap named ELSE {}

\* Children are listed above the last level only, and filtered before the
\* recursion: what is below a child that is left out is left out with it.
SkeletonChildren(d, named, v, level, levels) ==
    IF level < levels THEN Children(d, v) \cap named ELSE {}

\* The nodes in the skeleton of the subtree at root.
Skeleton(d, named, root, levels) ==
    LET shown[level \in 0..levels] ==
          [v \in NodesOf(d) |->
             {v} \cup UNION {shown[level + 1][c] :
                               c \in SkeletonChildren(d, named, v, level, levels)}]
    IN shown[0][root]

-----------------------------------------------------------------------------
(* Properties *)

WalkTypeOK ==
    /\ tree \in Trees
    /\ marked \subseteq NodesOf(tree)
    /\ pc \in {"visit", "climb", "list", "done"}
    /\ pc # "done" => cursor \in NodesOf(tree)
    /\ depth \in 0..MaxNodes
    /\ result \in Seq(NodesOf(tree))

Ascending(nodes) == \A i, j \in 1..Len(nodes) : i < j => nodes[i] < nodes[j]

Lists(nodes, set) ==
    /\ Ascending(nodes)
    /\ {nodes[i] : i \in 1..Len(nodes)} = set

\* find_node returns the node with the id if the tree has it, and nothing if
\* the id is stale: the loop neither ends before it has been everywhere nor
\* comes by a node twice.
FindsIfThere ==
    pc = "done" /\ walk = "find_node" => Lists(result, {goal} \cap NodesOf(tree))

\* get_errors reports every error of the file once, in the file's order.
ReportsEveryError ==
    pc = "done" /\ walk = "get_errors" => Lists(result, marked)

\* get_children lists the children of the node, all or those that are named,
\* in order, and stays inside the node.
ListsChildren ==
    pc = "done" /\ walk = "get_children" /\ tree # <<>> =>
        Lists(result, Children(tree, goal) \cap marked)

\* The cursor is at the depth that was counted: what the code takes for the
\* root when it counts 0 is the root, in the middle of the walk and at its end.
CountsDepth ==
    pc \in {"visit", "climb"} => depth = tree[cursor]

\* A skeleton is what can be reached from its root by listing children level by
\* level: the nodes at most max_depth below it whose ancestors up to the root
\* are all shown.
SkeletonReaches ==
    pc = "done" /\ walk = "get_children" =>
        \A levels \in 0..MaxLevels :
            Skeleton(tree, marked, goal, levels) =
                {goal} \cup
                {v \in Below(tree, goal) :
                    /\ tree[v] <= tree[goal] + levels
                    /\ v \in marked
                    /\ \A u \in Below(tree, goal) : v \in Below(tree, u) => u \in marked}

\* Every walk ends.
WalkEnds == <>(pc = "done")
==============================================================================
