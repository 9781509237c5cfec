------------------------------ MODULE TreeMap ------------------------------
(***************************************************************************)
(* The red-black tree of src/treemap.c, with its nodes and pointers, and   *)
(* the iterator that walks along it while entries are deleted.             *)
(*                                                                         *)
(* The code treats left and right by mirrored branches; here a side is a   *)
(* parameter.  A tree is a record of its root, the pointers and the colour *)
(* of every node; the value of an entry never moves and is left out.       *)
(***************************************************************************)
EXTENDS Integers, FiniteSets

CONSTANTS NKeys                \* the keys are 1 .. NKeys

ASSUME TreeMapAssumption == NKeys \in Nat \ {0}

Key == 1 .. NKeys
NULL == 0

\* A node is allocated for each new entry.  Nobody can tell which object it is, so it is
\* always the same one for a key (it is free when the key is not in the tree).
Node == Key
Pointer == Node \cup {NULL}
Side == {"left", "right"}
Other(side) == IF side = "left" THEN "right" ELSE "left"
Tree == [root : Pointer, key : [Node -> Key], parent : [Node -> Pointer],
         kid : [Side -> [Node -> Pointer]], color : [Node -> {"RED", "BLACK"}]]

VARIABLES tree, num_entries,
          iter,        \* the iterator: its fields c, n and p, and whether there is one
          result,      \* the entries the last operation returned
          live         \* history: the entry of each key that was entered and not deleted since
vars == <<tree, num_entries, iter, result, live>>

-----------------------------------------------------------------------------
(* Nodes.                                                                  *)

BLACKP(T, n) == n = NULL \/ T.color[n] = "BLACK"
REDP(T, n) == n # NULL /\ T.color[n] = "RED"
Paint(T, n, c) == [T EXCEPT !.color[n] = c]

\* LEFTP, RIGHTP, SIBLING2 and their like: the side of its parent a node hangs on.
SideOf(T, p, n) == IF T.kid["left"][p] = n THEN "left" ELSE "right"
SetParent(T, n, p) == IF n = NULL THEN T ELSE [T EXCEPT !.parent[n] = p]

\* A loop of the code, whose body does nothing once the loop is over.  Each round goes one
\* level down or up a tree, which has at most NKeys of them.
Iterate(body, start) ==
    LET after[k \in 0 .. NKeys] == IF k = 0 THEN start ELSE body[after[k - 1]]
    IN  after[NKeys]

\* leftmost and rightmost: the last node on one side.
Most(T, side, n) ==
    Iterate([m \in Node |-> IF T.kid[side][m] = NULL THEN m ELSE T.kid[side][m]], n)

\* next_node and prev_node: the neighbour of a node on one side.
Climb(T, side, n) ==
    LET top == Iterate([m \in Node |-> IF T.parent[m] # NULL /\ SideOf(T, T.parent[m], m) = side
                                         THEN T.parent[m] ELSE m], n)
    IN  T.parent[top]
Neighbour(T, side, n) ==
    IF T.kid[side][n] # NULL THEN Most(T, Other(side), T.kid[side][n]) ELSE Climb(T, side, n)
next_node(T, n) == Neighbour(T, "right", n)
prev_node(T, n) == Neighbour(T, "left", n)

new_node(T, n, p, k) ==
    [T EXCEPT !.key[n] = k, !.color[n] = "RED", !.parent[n] = p, !.kid["left"][n] = NULL, !.kid["right"][n] = NULL]
\* (The colour of a node that is not in the tree is never read; it is RED here.)
clear_node(T, n) ==
    [T EXCEPT !.color[n] = "RED", !.parent[n] = NULL, !.kid["left"][n] = NULL, !.kid["right"][n] = NULL]
node_cleared_p(T, n) ==
    n # NULL /\ T.parent[n] = NULL /\ \A side \in Side : T.kid[side][n] = NULL

\* Hang m, which may be NULL, where n is.
replace_node(T, n, m) ==
    LET p == T.parent[n]
        up == IF p = NULL THEN [T EXCEPT !.root = m]
              ELSE [T EXCEPT !.kid[SideOf(T, p, n)][p] = m]
    IN  SetParent(up, m, p)

\* A mutant: the grandchild keeps its old parent.
rotate_halfway(T, side, n) ==
    LET r == T.kid[Other(side)][n]
    IN  [replace_node(T, n, r) EXCEPT !.kid[side][r] = n, !.parent[n] = r,
                                      !.kid[Other(side)][n] = T.kid[side][r]]

\* rotate_left is rotate to the left: n goes down on that side, its other child comes up.
rotate(T, side, n) ==
    LET r == T.kid[Other(side)][n]
        g == T.kid[side][r]
        up == replace_node(T, n, r)
    IN  SetParent([up EXCEPT !.kid[side][r] = n, !.parent[n] = r, !.kid[Other(side)][n] = g], g, n)

-----------------------------------------------------------------------------
(* Insertion and deletion.                                                 *)

\* Case 3 of balance_tree: n, its parent and the sibling of that are red.
Uncle(T, n) == LET g == T.parent[T.parent[n]] IN T.kid[Other(SideOf(T, g, T.parent[n]))][g]
RedUncle(T, n) == T.parent[n] # NULL /\ REDP(T, T.parent[n]) /\ REDP(T, Uncle(T, n))
Recolour(T, n) ==
    LET p == T.parent[n]
        g == T.parent[p]
    IN  <<Paint(Paint(Paint(T, p, "BLACK"), Uncle(T, n), "BLACK"), g, "RED"), g>>

\* Cases 4 and 5: n and its parent are red.
Straighten(T, n) ==
    LET p == T.parent[n]
        g == T.parent[p]
        side == SideOf(T, g, p)
        inner == n = T.kid[Other(side)][p]
        straight == IF inner THEN rotate(T, side, p) ELSE T
        top == IF inner THEN n ELSE p
    IN  rotate(Paint(Paint(straight, top, "BLACK"), g, "RED"), Other(side), g)

balance_tree(T0, n0) ==
    LET s == Iterate([x \in Tree \X Node |-> IF RedUncle(x[1], x[2]) THEN Recolour(x[1], x[2]) ELSE x],
                     <<T0, n0>>)
        T == s[1]
        n == s[2]
    IN  IF T.parent[n] = NULL THEN Paint(T, n, "BLACK")                \* case 1
        ELSE IF BLACKP(T, T.parent[n]) THEN T                          \* case 2
        ELSE Straighten(T, n)

\* delete_node1 from its label recur: the paths through child have lost a black node.
Sibling(T, parent, child) == T.kid[Other(SideOf(T, parent, child))][parent]

\* Case 5: no red node is near.  What is missing is then missing above the parent.
AllBlack(T, parent, child) ==
    /\ parent # NULL /\ BLACKP(T, parent)
    /\ LET sib == Sibling(T, parent, child)
       IN  BLACKP(T, sib) /\ \A side \in Side : BLACKP(T, T.kid[side][sib])
PassUp(T, parent, child) ==
    <<Paint(T, Sibling(T, parent, child), "RED"), T.parent[parent], parent>>

\* Cases 4a and 4b: a red sibling changes places with the parent.
RedSibling(T, side, parent) ==
    LET sib == T.kid[Other(side)][parent]
    IN  IF REDP(T, sib) THEN rotate(Paint(Paint(T, parent, "RED"), sib, "BLACK"), side, parent) ELSE T

\* Cases 7a and 7b, and 8a and 8b: the sibling of the side has a red child.
NearNephew(T, side, parent) ==
    LET sib == T.kid[Other(side)][parent]
        near == T.kid[side][sib]
    IN  IF REDP(T, near) /\ BLACKP(T, T.kid[Other(side)][sib])
          THEN rotate(Paint(Paint(T, sib, "RED"), near, "BLACK"), Other(side), sib) ELSE T
FarNephew(T, side, parent) ==
    LET sib == T.kid[Other(side)][parent]
        T1 == Paint(Paint(T, sib, T.color[parent]), parent, "BLACK")
    IN  rotate(Paint(T1, T.kid[Other(side)][sib], "BLACK"), side, parent)

\* (Behind case 4 the parent is red, and case 5 is not possible any more.)
Refill(T0, parent, child) ==
    LET side == SideOf(T0, parent, child)
        T == RedSibling(T0, side, parent)
        sib == T.kid[Other(side)][parent]
    IN  IF parent = NULL THEN T0                                       \* case 3
        ELSE IF \A x \in Side : BLACKP(T, T.kid[x][sib])
               THEN Paint(Paint(T, parent, "BLACK"), sib, "RED")       \* case 6
               ELSE FarNephew(NearNephew(T, side, parent), side, parent)

Recur(T0, parent0, child0) ==
    LET s == Iterate([x \in Tree \X Pointer \X Pointer |->
                        IF AllBlack(x[1], x[2], x[3]) THEN PassUp(x[1], x[2], x[3]) ELSE x],
                     <<T0, parent0, child0>>)
    IN  Refill(s[1], s[2], s[3])

\* A mutant: a red child that takes the place of a black node stays red.
delete_node1_red(T, todie, child) ==
    LET T1 == replace_node(T, todie, child) IN
    IF REDP(T, todie) \/ REDP(T1, child) THEN T1 ELSE Recur(T1, T.parent[todie], child)

\* Delete a node with at most one child.
delete_node1(T, todie, child) ==
    LET T1 == replace_node(T, todie, child) IN
    IF REDP(T, todie) THEN T1
    ELSE IF REDP(T1, child) THEN Paint(T1, child, "BLACK")
    ELSE Recur(T1, T.parent[todie], child)

Swap(f, x, y) == [f EXCEPT ![x] = f[y], ![y] = f[x]]

\* Exchange the places and colours of two nodes, one pointer after the other: y may be a child of x.
SwapDown(T, a, b) ==
    IF T.parent[a] = NULL THEN T ELSE [T EXCEPT !.kid[SideOf(T, T.parent[a], a)][T.parent[a]] = b]
SwapKids(T, side, x, y) ==
    LET U == SetParent(SetParent(T, T.kid[side][x], y), T.kid[side][y], x)
    IN  [U EXCEPT !.kid[side] = Swap(@, x, y)]
SwapColors(T, x, y) ==
    LET U == [T EXCEPT !.color = Swap(@, x, y)]
    IN  IF T.root = x THEN [U EXCEPT !.root = y] ELSE IF T.root = y THEN [U EXCEPT !.root = x] ELSE U

swap_node(T, x, y) ==
    LET T1 == SwapDown(SwapDown(T, x, y), y, x)
        T2 == [T1 EXCEPT !.parent = Swap(@, x, y)]
    IN  SwapColors(SwapKids(SwapKids(T2, "left", x, y), "right", x, y), x, y)

\* A node with two children changes places with the one before it, which has no right
\* child, so that the loop of the code ends after one turn.
delete_node(T, n) ==
    LET T1 == IF \A side \in Side : T.kid[side][n] # NULL
                THEN swap_node(T, n, prev_node(T, n)) ELSE T
        child == IF T1.kid["left"][n] # NULL THEN T1.kid["left"][n] ELSE T1.kid["right"][n]
    IN  clear_node(delete_node1(T1, n, child), n)

-----------------------------------------------------------------------------
(* core_ref and the operations built on it.                                *)

\* The node with the key, or the one it would be a child of; NULL in an empty tree.
TowardsKey(T, n, k) == IF T.key[n] < k THEN "right" ELSE "left"
Descend(T, n, k) ==
    Iterate([m \in Node |-> LET down == T.kid[TowardsKey(T, m, k)][m]
                            IN  IF T.key[m] = k \/ down = NULL THEN m ELSE down], n)
Reach(k) == IF tree.root = NULL THEN NULL ELSE Descend(tree, tree.root, k)
Found(k) == Reach(k) # NULL /\ tree.key[Reach(k)] = k
Get(k) == IF Found(k) THEN Reach(k) ELSE NULL

NoIter == [on |-> FALSE, c |-> NULL, n |-> NULL, p |-> NULL]

EmptyTree ==
    [root |-> NULL, key |-> [n \in Node |-> n], parent |-> [n \in Node |-> NULL],
     kid |-> [side \in Side |-> [n \in Node |-> NULL]], color |-> [n \in Node |-> "RED"]]

Init == tree = EmptyTree /\ num_entries = 0 /\ iter = NoIter /\ result = <<>> /\ live = [k \in {} |-> NULL]

\* An iteration survives the deletion of its current entry only; with another change
\* of the tree the program gives it up.
Create(k) ==
    \/ Found(k) /\ result' = <<Get(k)>> /\ UNCHANGED <<tree, num_entries, iter, live>>
    \/ /\ ~ Found(k)
       /\ LET e == Reach(k)
              T == new_node(tree, k, e, k)
          IN  tree' = IF e = NULL THEN Paint([T EXCEPT !.root = k], k, "BLACK")
                      ELSE balance_tree([T EXCEPT !.kid[TowardsKey(tree, e, k)][e] = k], k)
       /\ result' = <<k>> /\ num_entries' = num_entries + 1 /\ iter' = NoIter
       /\ live' = [j \in DOMAIN live \cup {k} |-> IF j = k THEN k ELSE live[j]]

\* The tree without n, and what becomes of an iterator and of the history.
Remove(n) ==
    /\ tree' = delete_node(tree, n) /\ num_entries' = num_entries - 1
    /\ iter' = IF iter.on /\ iter.c # n THEN NoIter ELSE iter
    /\ live' = [j \in {i \in DOMAIN live : live[i] # n} |-> live[j]]

Delete(k) ==
    /\ result' = <<Get(k)>>
    /\ IF Found(k) THEN Remove(Get(k)) ELSE UNCHANGED <<tree, num_entries, iter, live>>

\* core_bound, to look and to pop.
Bound(side) == IF tree.root = NULL THEN NULL ELSE Most(tree, side, tree.root)
GetBound(side) == result' = <<Bound(side)>> /\ UNCHANGED <<tree, num_entries, iter, live>>
PopBound(side) ==
    /\ result' = <<Bound(side)>>
    /\ IF tree.root = NULL THEN UNCHANGED <<tree, num_entries, iter, live>> ELSE Remove(Bound(side))

\* TREE_NEAR: the entry with the key and the ones on both sides of it.
Near(k) ==
    LET e == Reach(k)
        On(side) == IF e = NULL THEN NULL
                    ELSE IF ~ Found(k) /\ TowardsKey(tree, e, k) = Other(side) THEN e
                    ELSE Neighbour(tree, side, e)
    IN  /\ result' = <<Get(k), On("left"), On("right")>>
        /\ UNCHANGED <<tree, num_entries, iter, live>>

\* The nodes of the old tree are garbage.
Clear ==
    /\ tree' = EmptyTree /\ num_entries' = 0
    /\ iter' = NoIter /\ result' = <<>> /\ live' = [k \in {} |-> NULL]

-----------------------------------------------------------------------------
(* The iterator.                                                           *)

Beyond(side, e) == IF e = NULL THEN NULL ELSE Neighbour(tree, side, e)

IterInit(start) ==
    /\ start # NULL => Get(tree.key[start]) = start
    /\ iter' = [on |-> TRUE, c |-> start,
                n |-> IF start # NULL THEN next_node(tree, start) ELSE Bound("left"),
                p |-> IF start # NULL THEN prev_node(tree, start) ELSE Bound("right")]
    /\ result' = <<start>>
    /\ UNCHANGED <<tree, num_entries, live>>

\* A mutant: the current node is taken for live.
TreeIterNextLive ==
    /\ iter.on
    /\ iter' = [on |-> TRUE, c |-> iter.n, n |-> Beyond("right", iter.n), p |-> iter.c]
    /\ result' = <<iter.n>>
    /\ UNCHANGED <<tree, num_entries, live>>

TreeIterNext ==
    /\ iter.on
    /\ iter' = [on |-> TRUE, c |-> iter.n, n |-> Beyond("right", iter.n),
                p |-> IF node_cleared_p(tree, iter.c) THEN Beyond("left", iter.n) ELSE iter.c]
    /\ result' = <<iter.n>>
    /\ UNCHANGED <<tree, num_entries, live>>

TreeIterPrev ==
    /\ iter.on
    /\ iter' = [on |-> TRUE, c |-> iter.p, p |-> Beyond("left", iter.p),
                n |-> IF node_cleared_p(tree, iter.c) THEN Beyond("right", iter.p) ELSE iter.c]
    /\ result' = <<iter.p>>
    /\ UNCHANGED <<tree, num_entries, live>>

-----------------------------------------------------------------------------
(* The specification.                                                      *)

Next ==
    \/ \E k \in Key : Create(k) \/ Delete(k) \/ Near(k)
    \/ \E side \in Side : GetBound(side) \/ PopBound(side)
    \/ Clear
    \/ \E start \in Node \cup {NULL} : IterInit(start)
    \/ TreeIterNext \/ TreeIterPrev

Spec == Init /\ [][Next]_vars

-----------------------------------------------------------------------------
(* Properties.                                                             *)

InTree ==
    Iterate([R \in SUBSET Node |-> R \cup ({tree.kid[side][n] : side \in Side, n \in R} \ {NULL})],
            {tree.root} \ {NULL})

\* The type invariant of the tree, the count, the iterator and the results.
TypeOK ==
    /\ tree \in Tree
    /\ num_entries \in 0 .. NKeys
    /\ iter \in [on : BOOLEAN, c : Pointer, n : Pointer, p : Pointer]
    /\ DOMAIN live \subseteq Key
    /\ result \in {<<>>} \cup {<<n>> : n \in Pointer} \cup Pointer \X Pointer \X Pointer

\* The numbers of black nodes on the paths from the root down.
BlackHeight ==
    LET Higher(H) ==
          [n \in Pointer |->
             IF n = NULL THEN {0}
             ELSE {h + (IF BLACKP(tree, n) THEN 1 ELSE 0) :
                     h \in H[tree.kid["left"][n]] \cup H[tree.kid["right"][n]]}]
    IN  Iterate([H \in [Pointer -> SUBSET Nat] |-> Higher(H)], [n \in Pointer |-> {0}])[tree.root]

\* What check_traverse checks: a black root, no two red nodes in a row, and as many black
\* nodes on every path; and the count of the entries.
RedBlack ==
    /\ BLACKP(tree, tree.root)
    /\ \A n \in InTree : REDP(tree, n) => \A side \in Side : BLACKP(tree, tree.kid[side][n])
    /\ Cardinality(BlackHeight) = 1
    /\ Cardinality(InTree) = num_entries

\* Parents and children agree, nothing in the tree points to a deleted node, the nodes
\* that are not in the tree look cleared to the iterator, and the tree holds the entries
\* that were entered and not deleted, each still with its key.
LinksExact ==
    /\ tree.root # NULL => tree.parent[tree.root] = NULL
    /\ \A n \in InTree : \A side \in Side :
         tree.kid[side][n] # NULL => tree.parent[tree.kid[side][n]] = n
    /\ \A n \in InTree : tree.parent[n] \in InTree \cup {NULL}
    /\ \A n \in Node \ InTree : node_cleared_p(tree, n)
    /\ InTree = {live[k] : k \in DOMAIN live} /\ \A k \in DOMAIN live : tree.key[live[k]] = k

\* The ordered map that the tree stands for, and where the iteration is in it.
Position ==
    IF ~ iter.on THEN -1
    ELSE IF iter.c # NULL THEN tree.key[iter.c]
    ELSE IF iter.n = NULL THEN (IF iter.p = NULL THEN -5 ELSE -4)
    ELSE IF iter.p = NULL THEN -3 ELSE -2

Ordered == INSTANCE OrderedMap WITH Entry <- Node, map <- live, pos <- Position

\* The tree is an ordered map: every operation, and every step of an iteration that
\* deletes the entries it comes to, returns what it should, and entries stay the same
\* objects (the comment in delete_node says why they must).
ImplementsOrderedMap == Ordered!MapSpec
=============================================================================
