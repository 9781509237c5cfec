-------------------------- MODULE TreeMap_proofs ---------------------------
(***************************************************************************)
(* Proofs about the red-black tree: after any sequence of operations the   *)
(* colours, the links and the count are right, and the tree behaves like   *)
(* an ordered map, also under an iteration.                                *)
(*                                                                         *)
(* A tree is described by the set D[n] of the nodes below and including    *)
(* each node n, and by the number h[n] of black nodes on the way down from *)
(* it.  An operation gives new such functions, and loops are counted by    *)
(* the sizes of the sets.                                                  *)
(***************************************************************************)
EXTENDS TreeMap, FiniteSetTheorems, WellFoundedInduction, TLAPS

-----------------------------------------------------------------------------
(* Numbers, sizes and loops.                                               *)

\* Every set of numbers has a least one.
LEMMA LeastOf ==
    ASSUME NEW S, S \subseteq Nat, S # {}
    PROVE  \E x \in S : \A y \in S : x <= y
<1>1. PICK x \in S : \A y \in S : ~ (<<y, x>> \in OpToRel(<, Nat))
  BY NatLessThanWellFounded, WFMin
<1>2. ASSUME NEW y \in S, y < x PROVE FALSE
  <2>1. <<y, x>> \in Nat \X Nat
    OBVIOUS
  <2>2. <<y, x>> \in OpToRel(<, Nat)
    BY <1>2, <2>1, Zenon DEF OpToRel
  <2> QED
    BY <1>1, <2>2
<1>3. \A y \in S : x <= y
  BY <1>2
<1> QED
  BY <1>3

\* The values of a loop, one after the other.
Runs(f, body, start, n) == f = [k \in 0..n |-> IF k = 0 THEN start ELSE body[f[k - 1]]]

\* There are such values.
LEMMA LoopRuns ==
    ASSUME NEW body, NEW start, NEW n \in Nat
    PROVE  \E f : Runs(f, body, start, n)
<1> DEFINE Bad == {m \in Nat : ~ \E f : Runs(f, body, start, m)}
<1>1. SUFFICES ASSUME Bad # {} PROVE FALSE
  OBVIOUS
<1>2. PICK m \in Bad : \A k \in Bad : m <= k
  <2>1. Bad \subseteq Nat
    OBVIOUS
  <2> HIDE DEF Bad
  <2> QED
    BY <1>1, <2>1, LeastOf
<1>3. m \in Nat /\ ~ \E f : Runs(f, body, start, m)
  BY <1>2
<1>4. m # 0
  <2>1. SUFFICES ASSUME m = 0 PROVE FALSE
    OBVIOUS
  <2> DEFINE f == [k \in 0..0 |-> start]
  <2>2. f = [k \in 0..0 |-> IF k = 0 THEN start ELSE body[f[k - 1]]]
    <3>1. \A k \in 0..0 : k = 0
      OBVIOUS
    <3> QED
      BY <3>1
  <2> HIDE DEF f
  <2>3. Runs(f, body, start, 0)
    BY <2>2 DEF Runs
  <2> QED
    BY <1>3, <2>1, <2>3
<1>5. m - 1 \in Nat /\ m - 1 \notin Bad
  <2>1. m - 1 \in Nat /\ ~(m <= m - 1)
    BY <1>3, <1>4
  <2> HIDE DEF Bad
  <2> QED
    BY <1>2, <2>1
<1>6. PICK g : Runs(g, body, start, m - 1)
  BY <1>5
<1> DEFINE f == [k \in 0..m |-> IF k = m THEN body[g[m - 1]] ELSE g[k]]
<1>7. ASSUME NEW k \in 0..m PROVE f[k] = IF k = 0 THEN start ELSE body[f[k - 1]]
  <2>1. \A i \in 0..(m - 1) : g[i] = IF i = 0 THEN start ELSE body[g[i - 1]]
    BY <1>6 DEF Runs
  <2>2. CASE k = m
    <3>1. m - 1 \in 0..m /\ m - 1 # m
      BY <1>3, <1>5
    <3> QED
      BY <1>4, <2>2, <3>1
  <2>3. CASE k # m
    <3>1. k \in 0..(m - 1)
      BY <1>3, <1>7, <2>3
    <3>2. k # 0 => k - 1 \in 0..m /\ k - 1 # m
      BY <1>3, <1>7, <2>3
    <3> QED
      BY <2>1, <2>3, <3>1, <3>2
  <2> QED
    BY <2>2, <2>3
<1>8. f = [k \in 0..m |-> IF k = 0 THEN start ELSE body[f[k - 1]]]
  <2>1. f = [k \in 0..m |-> f[k]]
    OBVIOUS
  <2> HIDE DEF f
  <2> QED
    BY <1>7, <2>1
<1> HIDE DEF f
<1>9. Runs(f, body, start, m)
  BY <1>8 DEF Runs
<1> QED
  BY <1>3, <1>9

\* What is true of the start, and is handed on from round to round, is true at the end.
LEMMA LoopReaches ==
    ASSUME NEW body, NEW start, NEW G, start \in G[0],
           \A k \in 0..NKeys : \A v \in G[k] : k < NKeys => body[v] \in G[k + 1]
    PROVE  Iterate(body, start) \in G[NKeys]
<1> DEFINE Goes(f) == f = [k \in 0..NKeys |-> IF k = 0 THEN start ELSE body[f[k - 1]]]
           after == CHOOSE f : Goes(f)
<1>1. NKeys \in Nat
  BY TreeMapAssumption
<1>2. \E f : Goes(f)
  <2>1. PICK f : Runs(f, body, start, NKeys)
    BY <1>1, LoopRuns
  <2>2. Goes(f)
    BY <2>1 DEF Runs
  <2> HIDE DEF Goes
  <2> QED
    BY <2>2
<1>3. Goes(after)
  <2> HIDE DEF Goes
  <2> QED
    BY <1>2
<1>4. \A k \in 0..NKeys : after[k] = IF k = 0 THEN start ELSE body[after[k - 1]]
  <2> HIDE DEF after
  <2> QED
    BY <1>3
<1>5. Iterate(body, start) = after[NKeys]
  BY DEF Iterate
<1> HIDE DEF after, Goes
<1> DEFINE Bad == {k \in 0..NKeys : after[k] \notin G[k]}
<1>6. Bad = {}
  <2>1. SUFFICES ASSUME Bad # {} PROVE FALSE
    OBVIOUS
  <2>2. PICK m \in Bad : \A k \in Bad : m <= k
    <3>1. Bad \subseteq Nat
      BY <1>1
    <3> HIDE DEF Bad
    <3> QED
      BY <2>1, <3>1, LeastOf
  <2>3. m \in 0..NKeys /\ after[m] \notin G[m]
    BY <2>2
  <2>4. m # 0
    BY <1>4, <2>3
  <2>5. m - 1 \in 0..NKeys /\ m - 1 < NKeys /\ (m - 1) + 1 = m /\ ~(m <= m - 1)
    BY <1>1, <2>3, <2>4
  <2>6. after[m - 1] \in G[m - 1]
    <3>1. m - 1 \notin Bad
      <4> HIDE DEF Bad
      <4> QED
        BY <2>2, <2>5
    <3> QED
      BY <2>5, <3>1
  <2>7. body[after[m - 1]] \in G[m]
    BY <2>5, <2>6
  <2> QED
    BY <1>4, <2>3, <2>4, <2>7
<1>7. NKeys \in 0..NKeys
  BY <1>1
<1> QED
  BY <1>5, <1>6, <1>7

-----------------------------------------------------------------------------
(* What a tree is.                                                             *)

\* m is on one side of n, in the order of the keys.
Sided(side, n, m) == IF side = "left" THEN m < n ELSE n < m

\* The pointers of the nodes M of a tree lead to one another, up and down.
Linked(T, M) ==
    /\ T \in Tree /\ M \in SUBSET Node
    /\ T.root # NULL => T.root \in M /\ T.parent[T.root] = NULL
    /\ \A n \in M : \A x \in Side :
         T.kid[x][n] # NULL =>
           /\ T.kid[x][n] \in M /\ T.parent[T.kid[x][n]] = n
           /\ T.kid[Other(x)][n] # T.kid[x][n]
    /\ \A n \in M : n # T.root => T.parent[n] \in M /\ \E x \in Side : T.kid[x][T.parent[n]] = n

\* D[n] has the nodes from n down; the branches of a node are apart.
Branching(T, M, D) ==
    /\ D \in [Pointer -> SUBSET M]
    /\ D[NULL] = {} /\ D[T.root] = M
    /\ \A n \in M : D[n] = {n} \cup D[T.kid["left"][n]] \cup D[T.kid["right"][n]]
    /\ \A n \in M : \A x \in Side : n \notin D[T.kid[x][n]]
    /\ \A n \in M : D[T.kid["left"][n]] \cap D[T.kid["right"][n]] = {}

Hung(T, M, D) == Linked(T, M) /\ Branching(T, M, D)

\* Smaller keys are on the left and larger ones on the right.
Sorted(T, M, D) ==
    \A n \in M : \A x \in Side : \A m \in D[T.kid[x][n]] : Sided(x, n, m)

\* The other nodes look cleared, but for the one that is being deleted.
Cleared(T, M, dying) == \A n \in Node \ M : n = dying \/ node_cleared_p(T, n)

\* A node is the one of its key.
Keyed(T) == T.key = [n \in Node |-> n]

SearchTree(T, M, D, dying) == Hung(T, M, D) /\ Sorted(T, M, D) /\ Cleared(T, M, dying) /\ Keyed(T)

\* h[n] is the number of black nodes on every way down from n, with one black node missing
\* below one side of the node lack.
Level(T, M, h, lack, side) ==
    /\ h \in [Pointer -> Nat] /\ h[NULL] = 0
    /\ \A n \in M : \A x \in Side :
         h[n] = h[T.kid[x][n]] + (IF T.color[n] = "BLACK" THEN 1 ELSE 0)
                               + (IF n = lack /\ x = side THEN 1 ELSE 0)

\* The same when nothing is missing.
Even(T, M, h) ==
    /\ h \in [Pointer -> Nat] /\ h[NULL] = 0
    /\ \A n \in M : \A x \in Side : h[n] = h[T.kid[x][n]] + (IF T.color[n] = "BLACK" THEN 1 ELSE 0)

\* The root is black and no red node has a red child, unless that is odd.
NoRedRed(T, M, odd) ==
    /\ T.root = odd \/ BLACKP(T, T.root)
    /\ \A n \in M : \A x \in Side :
         T.color[n] = "RED" /\ REDP(T, T.kid[x][n]) => T.kid[x][n] = odd

-----------------------------------------------------------------------------
(* Nodes and what is below them.                                               *)

\* The parts of a tree record.
LEMMA TreeParts ==
    ASSUME NEW T \in Tree
    PROVE  /\ T.root \in Pointer /\ T.key \in [Node -> Key] /\ T.parent \in [Node -> Pointer]
           /\ T.kid \in [Side -> [Node -> Pointer]] /\ T.color \in [Node -> {"RED", "BLACK"}]
           /\ \A x \in Side : T.kid[x] \in [Node -> Pointer]
           /\ \A x \in Side : \A n \in Node : T.kid[x][n] \in Pointer
           /\ \A n \in Node : T.parent[n] \in Pointer
<1>1. T.kid \in [Side -> [Node -> Pointer]] /\ T.parent \in [Node -> Pointer]
  BY DEF Tree
<1>2. \A x \in Side : T.kid[x] \in [Node -> Pointer]
  BY <1>1
<1>3. \A x \in Side : \A n \in Node : T.kid[x][n] \in Pointer
  BY <1>2
<1>4. \A n \in Node : T.parent[n] \in Pointer
  BY <1>1
<1> QED
  BY <1>1, <1>2, <1>3, <1>4 DEF Tree

\* The two sides, and that the nodes are positive numbers.
LEMMA Sides ==
    /\ \A x \in Side : Other(x) \in Side /\ Other(Other(x)) = x /\ Other(x) # x
    /\ \A x, y \in Side : y = x \/ y = Other(x)
    /\ "left" \in Side /\ "right" \in Side /\ Other("left") = "right" /\ Other("right") = "left"
  BY DEF Side, Other

\* NULL is no node, and the keys are the nodes.
LEMMA Nodes ==
    /\ NULL \notin Node /\ Node \subseteq Nat /\ Node \subseteq Pointer /\ NULL \in Pointer
    /\ Node = 1..NKeys /\ NKeys \in Nat /\ NKeys > 0 /\ Key = Node
  BY TreeMapAssumption DEF NULL, Node, Key, Pointer

\* What is below a node is below it on one side, whichever side one looks at first.
LEMMA Branches ==
    ASSUME NEW T, NEW M, NEW D, Hung(T, M, D), NEW n \in M, NEW x \in Side
    PROVE  /\ D[n] = {n} \cup D[T.kid[x][n]] \cup D[T.kid[Other(x)][n]]
           /\ D[T.kid[x][n]] \cap D[T.kid[Other(x)][n]] = {}
           /\ n \notin D[T.kid[x][n]] /\ n \notin D[T.kid[Other(x)][n]]
           /\ n \in D[n] /\ D[n] \subseteq M
           /\ T.kid[x][n] \in M \cup {NULL} /\ D[T.kid[x][n]] \subseteq D[n]
           /\ n \in Node /\ n \in Pointer /\ n # NULL
<1>1. /\ D[n] = {n} \cup D[T.kid["left"][n]] \cup D[T.kid["right"][n]]
      /\ D[T.kid["left"][n]] \cap D[T.kid["right"][n]] = {}
      /\ \A y \in Side : n \notin D[T.kid[y][n]]
      /\ D \in [Pointer -> SUBSET M] /\ M \in SUBSET Node
      /\ T.kid[x][n] \in M \cup {NULL}
  <2>1. Branching(T, M, D) /\ Linked(T, M)
    BY DEF Hung
  <2>2. T.kid[x][n] \in M \cup {NULL} /\ M \in SUBSET Node
    BY <2>1 DEF Linked
  <2> QED
    BY <2>1, <2>2 DEF Branching
<1>2. n \in Node /\ n \in Pointer /\ n # NULL
  BY <1>1, Nodes
<1>3. D[n] \subseteq M
  BY <1>1, <1>2
<1>4. CASE x = "left"
  BY <1>1, <1>2, <1>3, <1>4, Sides
<1>5. CASE x = "right"
  <2>1. Other(x) = "left" /\ "left" \in Side
    BY <1>5, Sides
  <2>2. D[T.kid[Other(x)][n]] = D[T.kid["left"][n]] /\ D[T.kid[x][n]] = D[T.kid["right"][n]]
    BY <1>5, <2>1
  <2> QED
    BY <1>1, <1>2, <1>3, <2>1, <2>2
<1> QED
  BY <1>4, <1>5 DEF Side

\* Children and parents.
LEMMA KidFacts ==
    ASSUME NEW T, NEW M, NEW D, Hung(T, M, D), NEW n \in M, NEW x \in Side, T.kid[x][n] # NULL
    PROVE  /\ T.kid[x][n] \in M /\ T.parent[T.kid[x][n]] = n /\ T.kid[Other(x)][n] # T.kid[x][n]
           /\ T.kid[x][n] # T.root /\ T.kid[x][n] # n
           /\ T.kid[x][n] \in D[T.kid[x][n]] /\ T.kid[x][n] \in D[n]
<1>1. /\ T.kid[x][n] \in M /\ T.parent[T.kid[x][n]] = n /\ T.kid[Other(x)][n] # T.kid[x][n]
      /\ (T.root # NULL => T.parent[T.root] = NULL) /\ n # NULL
  <2>1. Linked(T, M) /\ n # NULL
    BY Branches DEF Hung
  <2> QED
    BY <2>1 DEF Linked
<1>2. T.kid[x][n] \in D[T.kid[x][n]]
  BY <1>1, Branches
<1>3. D[T.kid[x][n]] \subseteq D[n] /\ n \notin D[T.kid[x][n]]
  BY Branches
<1> QED
  BY <1>1, <1>2, <1>3

\* A node below the root hangs on one side of its parent, and the parent is not below it.
LEMMA ParentFacts ==
    ASSUME NEW T, NEW M, NEW D, Hung(T, M, D), NEW n \in M
    PROVE  /\ T.parent[n] = NULL <=> n = T.root
           /\ T.parent[n] # NULL =>
                /\ T.parent[n] \in M /\ SideOf(T, T.parent[n], n) \in Side
                /\ T.kid[SideOf(T, T.parent[n], n)][T.parent[n]] = n
                /\ T.kid[Other(SideOf(T, T.parent[n], n))][T.parent[n]] # n
                /\ D[n] \subseteq D[T.parent[n]] /\ T.parent[n] \notin D[n] /\ T.parent[n] # n
<1>1. /\ T.root # NULL => T.parent[T.root] = NULL
      /\ n # T.root => T.parent[n] \in M /\ \E x \in Side : T.kid[x][T.parent[n]] = n
      /\ n \in Node /\ n # NULL /\ M \in SUBSET Node
  <2>1. Linked(T, M) /\ n \in Node /\ n # NULL
    BY Branches, Sides DEF Hung
  <2> QED
    BY <2>1 DEF Linked
<1>2. T.parent[n] = NULL <=> n = T.root
  BY <1>1, Nodes
<1>3. ASSUME T.parent[n] # NULL
      PROVE  /\ T.parent[n] \in M /\ SideOf(T, T.parent[n], n) \in Side
             /\ T.kid[SideOf(T, T.parent[n], n)][T.parent[n]] = n
  <2>1. PICK x \in Side : T.parent[n] \in M /\ T.kid[x][T.parent[n]] = n
    BY <1>1, <1>2, <1>3
  <2> QED
    BY <2>1 DEF SideOf, Side
<1>4. ASSUME T.parent[n] # NULL
      PROVE  /\ T.kid[Other(SideOf(T, T.parent[n], n))][T.parent[n]] # n
             /\ D[n] \subseteq D[T.parent[n]] /\ T.parent[n] \notin D[n] /\ T.parent[n] # n
  <2> DEFINE p == T.parent[n]
             x == SideOf(T, p, n)
  <2>1. p \in M /\ x \in Side /\ T.kid[x][p] = n
    BY <1>3, <1>4
  <2> HIDE DEF p, x
  <2>2. T.kid[Other(x)][p] # n /\ n # p
    BY <1>1, <2>1, KidFacts
  <2>3. D[n] \subseteq D[p] /\ p \notin D[n]
    BY <2>1, Branches
  <2> QED
    BY <2>2, <2>3 DEF p, x
<1> QED
  BY <1>2, <1>3, <1>4

\* Two children are the same only on the same side of the same parent.
LEMMA OneParent ==
    ASSUME NEW T, NEW M, NEW D, Hung(T, M, D), NEW a \in M, NEW b \in M, NEW x \in Side, NEW y \in Side,
           T.kid[x][a] = T.kid[y][b], T.kid[x][a] # NULL
    PROVE  a = b /\ x = y
<1>1. T.parent[T.kid[x][a]] = a /\ T.parent[T.kid[y][b]] = b /\ T.kid[Other(x)][a] # T.kid[x][a]
  BY KidFacts
<1> QED
  BY <1>1, Sides

-----------------------------------------------------------------------------
(* Sizes, and induction along a tree.                                          *)

Size(D, n) == Cardinality(D[n])

\* Branches are smaller than what they hang on.
LEMMA Sizes ==
    ASSUME NEW T, NEW M, NEW D, Hung(T, M, D)
    PROVE  /\ \A n \in Pointer : Size(D, n) \in 0..NKeys /\ IsFiniteSet(D[n])
           /\ \A n \in M : Size(D, n) > 0
           /\ \A n \in M : \A x \in Side : Size(D, T.kid[x][n]) < Size(D, n)
           /\ \A n \in M : T.parent[n] # NULL => Size(D, n) < Size(D, T.parent[n])
           /\ IsFiniteSet(M)
<1>1. IsFiniteSet(Node) /\ Cardinality(Node) = NKeys
  <2>1. 1 \in Int /\ NKeys \in Int /\ Node = 1..NKeys /\ NKeys > 0
    BY Nodes
  <2> QED
    BY <2>1, FS_Interval
<1>2. M \in SUBSET Node /\ D \in [Pointer -> SUBSET M]
  BY DEF Hung, Linked, Branching
<1>3. ASSUME NEW n \in Pointer PROVE Size(D, n) \in 0..NKeys /\ IsFiniteSet(D[n])
  <2>1. D[n] \subseteq Node
    BY <1>2
  <2>2. IsFiniteSet(D[n]) /\ Cardinality(D[n]) <= NKeys
    BY <1>1, <2>1, FS_Subset
  <2>3. Cardinality(D[n]) \in Nat
    BY <2>2, FS_CardinalityType
  <2> QED
    BY <2>2, <2>3, Nodes DEF Size
<1>4. ASSUME NEW A, NEW n \in Pointer, A \subseteq D[n], NEW m \in D[n], m \notin A
      PROVE  Cardinality(A) < Size(D, n) /\ Cardinality(A) \in Nat
  <2>1. IsFiniteSet(D[n])
    BY <1>3
  <2>2. IsFiniteSet(A) /\ Cardinality(A) <= Cardinality(D[n]) /\ (Cardinality(A) = Cardinality(D[n]) => A = D[n])
    BY <1>4, <2>1, FS_Subset
  <2>3. Cardinality(A) \in Nat /\ Cardinality(D[n]) \in Nat
    BY <2>1, <2>2, FS_CardinalityType
  <2> QED
    BY <1>4, <2>2, <2>3 DEF Size
<1>5. ASSUME NEW n \in M, NEW x \in Side PROVE Size(D, T.kid[x][n]) < Size(D, n) /\ Size(D, n) > 0
  <2>1. D[T.kid[x][n]] \subseteq D[n] /\ n \notin D[T.kid[x][n]] /\ n \in D[n] /\ n \in Pointer
    BY Branches
  <2>2. Cardinality(D[T.kid[x][n]]) < Size(D, n) /\ Cardinality(D[T.kid[x][n]]) \in Nat
    BY <1>4, <2>1
  <2>3. Size(D, n) \in 0..NKeys
    BY <1>3, <2>1
  <2> QED
    BY <2>2, <2>3, Nodes DEF Size
<1>6. ASSUME NEW n \in M, T.parent[n] # NULL PROVE Size(D, n) < Size(D, T.parent[n])
  <2>1. /\ T.parent[n] \in M /\ SideOf(T, T.parent[n], n) \in Side
        /\ T.kid[SideOf(T, T.parent[n], n)][T.parent[n]] = n
    BY <1>6, ParentFacts
  <2> QED
    BY <1>5, <2>1
<1>7. IsFiniteSet(M)
  BY <1>1, <1>2, FS_Subset
<1> QED
  BY <1>3, <1>5, <1>6, <1>7, Sides

\* What passes from the children to their parent holds of every node.
LEMMA BottomUp ==
    ASSUME NEW T, NEW M, NEW D, Hung(T, M, D), NEW S,
           \A n \in M : (\A x \in Side : T.kid[x][n] # NULL => T.kid[x][n] \in S) => n \in S
    PROVE  M \subseteq S
<1> DEFINE Bad == {Size(D, n) : n \in M \ S}
<1>1. SUFFICES ASSUME NEW b \in M \ S PROVE FALSE
  OBVIOUS
<1>2. M \subseteq Pointer
  BY Nodes DEF Hung, Linked
<1>3. PICK c \in Bad : \A k \in Bad : c <= k
  <2>1. Bad \subseteq Nat /\ Bad # {}
    BY <1>1, <1>2, Sizes, Nodes
  <2> HIDE DEF Bad
  <2> QED
    BY <2>1, LeastOf
<1>4. PICK n \in M \ S : c = Size(D, n)
  OBVIOUS
<1>5. ASSUME NEW x \in Side, T.kid[x][n] # NULL PROVE T.kid[x][n] \in S
  <2>1. T.kid[x][n] \in M /\ Size(D, T.kid[x][n]) < Size(D, n)
    BY <1>4, <1>5, KidFacts, Sizes
  <2>2. Size(D, T.kid[x][n]) \in Nat /\ Size(D, n) \in Nat
    BY <1>2, <1>4, <2>1, Sizes
  <2>3. T.kid[x][n] \notin S => Size(D, T.kid[x][n]) \in Bad
    BY <2>1
  <2> HIDE DEF Bad
  <2> QED
    BY <1>3, <1>4, <2>1, <2>2, <2>3
<1> QED
  BY <1>4, <1>5

\* What holds of the root and passes from a parent to its children holds of every node.
LEMMA TopDown ==
    ASSUME NEW T, NEW M, NEW D, Hung(T, M, D), NEW S, T.root # NULL => T.root \in S,
           \A n \in M \cap S : \A x \in Side : T.kid[x][n] # NULL => T.kid[x][n] \in S
    PROVE  M \subseteq S
<1> DEFINE Bad == {NKeys - Size(D, n) : n \in M \ S}
<1>1. SUFFICES ASSUME NEW b \in M \ S PROVE FALSE
  OBVIOUS
<1>2. M \subseteq Pointer
  BY Nodes DEF Hung, Linked
<1>3. PICK c \in Bad : \A k \in Bad : c <= k
  <2>1. Bad \subseteq Nat /\ Bad # {}
    BY <1>1, <1>2, Sizes, Nodes
  <2> HIDE DEF Bad
  <2> QED
    BY <2>1, LeastOf
<1>4. PICK n \in M \ S : c = NKeys - Size(D, n)
  OBVIOUS
<1>5. T.parent[n] # NULL
  <2>1. n # NULL /\ (T.parent[n] = NULL <=> n = T.root)
    BY <1>4, ParentFacts, Branches, Sides
  <2> QED
    BY <1>4, <2>1
<1> DEFINE p == T.parent[n]
<1>6. p \in M /\ Size(D, n) < Size(D, p) /\ \E x \in Side : T.kid[x][p] = n
  BY <1>4, <1>5, ParentFacts, Sizes
<1>7. Size(D, p) \in 0..NKeys /\ Size(D, n) \in 0..NKeys
  BY <1>2, <1>4, <1>6, Sizes
<1>8. p \in S
  <2>1. p \notin S => NKeys - Size(D, p) \in Bad
    BY <1>6
  <2>2. NKeys - Size(D, p) < c
    BY <1>4, <1>6, <1>7, Nodes
  <2>3. NKeys - Size(D, p) \in Nat /\ c \in Nat
    BY <1>4, <1>7, Nodes
  <2> HIDE DEF Bad, p
  <2> QED
    BY <1>3, <2>1, <2>2, <2>3
<1>9. n # NULL
  BY <1>4, Branches, Sides
<1> QED
  BY <1>4, <1>6, <1>8, <1>9

\* What is below a node has below it only what is below that node.
LEMMA Nested ==
    ASSUME NEW T, NEW M, NEW D, Hung(T, M, D), NEW a \in M, NEW b \in D[a]
    PROVE  b \in M /\ D[b] \subseteq D[a]
<1> DEFINE S == {n \in M : \A m \in D[n] : D[m] \subseteq D[n]}
<1>1. ASSUME NEW n \in M, \A x \in Side : T.kid[x][n] # NULL => T.kid[x][n] \in S
      PROVE  n \in S
  <2>1. /\ D[n] = {n} \cup D[T.kid["left"][n]] \cup D[T.kid["right"][n]]
        /\ \A x \in Side : D[T.kid[x][n]] \subseteq D[n]
        /\ D[NULL] = {}
    BY Branches, Sides DEF Hung, Branching
  <2>2. ASSUME NEW x \in Side, NEW m \in D[T.kid[x][n]] PROVE D[m] \subseteq D[n]
    BY <1>1, <2>1, <2>2
  <2> QED
    BY <2>1, <2>2, Sides
<1>2. M \subseteq S
  <2> HIDE DEF S
  <2> QED
    BY <1>1, BottomUp
<1>3. D[a] \subseteq M
  BY Branches, Sides
<1> QED
  BY <1>2, <1>3

\* The parent of what is below a node is below it, too.
LEMMA UpBelow ==
    ASSUME NEW T, NEW M, NEW D, Hung(T, M, D), NEW a \in M, NEW b \in D[a], b # a
    PROVE  T.parent[b] \in D[a] /\ T.parent[b] # NULL
<1> DEFINE S == {n \in M : \A m \in D[n] : m # n => T.parent[m] \in D[n]}
<1>1. ASSUME NEW n \in M, \A x \in Side : T.kid[x][n] # NULL => T.kid[x][n] \in S
      PROVE  n \in S
  <2>1. /\ D[n] = {n} \cup D[T.kid["left"][n]] \cup D[T.kid["right"][n]]
        /\ \A x \in Side : D[T.kid[x][n]] \subseteq D[n]
        /\ D[NULL] = {} /\ n \in D[n]
    BY Branches, Sides DEF Hung, Branching
  <2>2. ASSUME NEW x \in Side, NEW m \in D[T.kid[x][n]] PROVE T.parent[m] \in D[n]
    <3>1. T.kid[x][n] # NULL
      BY <2>1, <2>2
    <3>2. T.kid[x][n] \in S /\ T.parent[T.kid[x][n]] = n
      BY <1>1, <3>1, KidFacts
    <3>3. CASE m = T.kid[x][n]
      BY <2>1, <3>2, <3>3
    <3>4. CASE m # T.kid[x][n]
      BY <2>1, <2>2, <3>2, <3>4
    <3> QED
      BY <3>3, <3>4
  <2> QED
    BY <2>1, <2>2, Sides
<1>2. M \subseteq S
  <2> HIDE DEF S
  <2> QED
    BY <1>1, BottomUp
<1>3. D[a] \subseteq M
  BY Branches, Sides
<1>4. T.parent[b] \in D[a]
  BY <1>2
<1> QED
  BY <1>3, <1>4, Branches, Sides

-----------------------------------------------------------------------------
(* Single assignments.  Each has a predicate that says what it does to a tree. *)

\* Trees that differ in colours only.
SameShape(T, U) ==
    U \in Tree /\ U.root = T.root /\ U.kid = T.kid /\ U.parent = T.parent /\ U.key = T.key

\* Links and search order do not depend on colours.
LEMMA ShapeKept ==
    ASSUME NEW T, NEW U, SameShape(T, U), NEW M, NEW D
    PROVE  /\ Hung(T, M, D) => Hung(U, M, D)
           /\ \A x : SearchTree(T, M, D, x) => SearchTree(U, M, D, x)
<1>1. U \in Tree /\ U.root = T.root /\ U.kid = T.kid /\ U.parent = T.parent /\ U.key = T.key
  BY DEF SameShape
<1>2. Linked(T, M) => Linked(U, M)
  BY <1>1 DEF Linked
<1>3. Branching(T, M, D) => Branching(U, M, D)
  BY <1>1 DEF Branching
<1>4. Sorted(T, M, D) => Sorted(U, M, D)
  BY <1>1 DEF Sorted
<1>5. ASSUME NEW x PROVE Cleared(T, M, x) => Cleared(U, M, x)
  BY <1>1 DEF Cleared, node_cleared_p
<1>6. Keyed(T) => Keyed(U)
  BY <1>1 DEF Keyed
<1> QED
  BY <1>2, <1>3, <1>4, <1>5, <1>6 DEF SearchTree, Hung

Painted(T, n, c, U) == SameShape(T, U) /\ U.color = [T.color EXCEPT ![n] = c]

\* Paint assigns one colour.
LEMMA PaintParts ==
    ASSUME NEW T \in Tree, NEW n \in Node, NEW c \in {"RED", "BLACK"}
    PROVE  Painted(T, n, c, Paint(T, n, c))
<1>1. T.color \in [Node -> {"RED", "BLACK"}]
  BY TreeParts
<1>2. Paint(T, n, c).color = [T.color EXCEPT ![n] = c]
  BY DEF Paint, Tree
<1>3. SameShape(T, Paint(T, n, c))
  BY DEF Paint, Tree, SameShape
<1> QED
  BY <1>2, <1>3 DEF Painted

\* To hang b, or nothing, on one side of a.
SetKid(T, x, a, b) == [T EXCEPT !.kid[x][a] = b]
KidSet(T, x, a, b, U) ==
    /\ U \in Tree /\ U.color = T.color /\ U.key = T.key /\ U.root = T.root /\ U.parent = T.parent
    /\ \A y \in Side : \A m \in Node : U.kid[y][m] = IF y = x /\ m = a THEN b ELSE T.kid[y][m]

\* An assignment to left or right.
LEMMA KidParts ==
    ASSUME NEW T \in Tree, NEW x \in Side, NEW a \in Node, NEW b \in Pointer
    PROVE  KidSet(T, x, a, b, SetKid(T, x, a, b))
<1> DEFINE U == SetKid(T, x, a, b)
           K == [T.kid EXCEPT ![x][a] = b]
<1>1. T.kid \in [Side -> [Node -> Pointer]]
  BY TreeParts
<1>2. U = [T EXCEPT !.kid = K]
  BY DEF SetKid
<1>3. K \in [Side -> [Node -> Pointer]]
  BY <1>1
<1>4. \A y \in Side : \A m \in Node : K[y][m] = IF y = x /\ m = a THEN b ELSE T.kid[y][m]
  BY <1>1
<1> HIDE DEF K, U
<1>5. U \in Tree /\ U.color = T.color /\ U.key = T.key /\ U.root = T.root /\ U.parent = T.parent /\ U.kid = K
  BY <1>2, <1>3 DEF Tree
<1>6. KidSet(T, x, a, b, U)
  BY <1>4, <1>5 DEF KidSet
<1> QED
  BY <1>6 DEF U

\* To set the parent of a, which may be no node.
ParentSet(T, a, b, U) ==
    /\ U \in Tree /\ U.color = T.color /\ U.key = T.key /\ U.root = T.root /\ U.kid = T.kid
    /\ \A m \in Node : U.parent[m] = IF m = a THEN b ELSE T.parent[m]

\* An assignment to parent.
LEMMA SetParentParts ==
    ASSUME NEW T \in Tree, NEW a \in Pointer, NEW b \in Pointer
    PROVE  ParentSet(T, a, b, SetParent(T, a, b))
<1>1. T.parent \in [Node -> Pointer]
  BY TreeParts
<1>2. CASE a = NULL
  <2>1. \A m \in Node : m # a
    BY <1>2, Nodes
  <2> QED
    BY <1>2, <2>1 DEF SetParent, ParentSet
<1>3. CASE a # NULL
  <2> DEFINE P == [T.parent EXCEPT ![a] = b]
             U == SetParent(T, a, b)
  <2>1. U = [T EXCEPT !.parent = P] /\ a \in Node
    BY <1>3 DEF SetParent, Pointer
  <2>2. P \in [Node -> Pointer] /\ \A m \in Node : P[m] = IF m = a THEN b ELSE T.parent[m]
    BY <1>1, <2>1
  <2> HIDE DEF P, U
  <2>3. U \in Tree /\ U.color = T.color /\ U.key = T.key /\ U.root = T.root /\ U.kid = T.kid /\ U.parent = P
    BY <2>1, <2>2 DEF Tree
  <2>4. ParentSet(T, a, b, U)
    BY <2>2, <2>3 DEF ParentSet
  <2> QED
    BY <2>4 DEF U
<1> QED
  BY <1>2, <1>3

\* SET_ROOT.
LEMMA RootParts ==
    ASSUME NEW T \in Tree, NEW m \in Pointer, NEW U, U = [T EXCEPT !.root = m]
    PROVE  /\ U \in Tree /\ U.color = T.color /\ U.key = T.key /\ U.root = m
           /\ U.parent = T.parent /\ U.kid = T.kid
  BY DEF Tree

\* SideOf is a side.
LEMMA SideOfSide ==
    ASSUME NEW T, NEW p, NEW n
    PROVE  SideOf(T, p, n) \in Side
  BY DEF SideOf, Side

\* To put m, which may be no node, in the place of n.
Replaced(T, n, m, U) ==
    /\ U \in Tree /\ U.color = T.color /\ U.key = T.key
    /\ U.root = IF T.parent[n] = NULL THEN m ELSE T.root
    /\ \A a \in Node : U.parent[a] = IF a = m THEN T.parent[n] ELSE T.parent[a]
    /\ \A x \in Side : \A a \in Node :
         U.kid[x][a] = IF a = T.parent[n] /\ x = SideOf(T, T.parent[n], n) THEN m ELSE T.kid[x][a]

\* replace_node does that.
LEMMA ReplaceParts ==
    ASSUME NEW T \in Tree, NEW n \in Node, NEW m \in Pointer
    PROVE  Replaced(T, n, m, replace_node(T, n, m))
<1> DEFINE p == T.parent[n]
           side == SideOf(T, p, n)
           U == replace_node(T, n, m)
<1>1. p \in Pointer /\ side \in Side
  BY TreeParts, SideOfSide
<1>2. ASSUME NEW V, V \in Tree, V.color = T.color, V.key = T.key, U = SetParent(V, m, p),
             V.root = (IF p = NULL THEN m ELSE T.root), V.parent = T.parent,
             \A x \in Side : \A a \in Node : V.kid[x][a] = IF a = p /\ x = side THEN m ELSE T.kid[x][a]
      PROVE  Replaced(T, n, m, U)
  <2> HIDE DEF p, side, U
  <2>1. ParentSet(V, m, p, U)
    BY <1>1, <1>2, SetParentParts
  <2>2. /\ U \in Tree /\ U.color = V.color /\ U.key = V.key /\ U.root = V.root /\ U.kid = V.kid
        /\ \A a \in Node : U.parent[a] = IF a = m THEN p ELSE V.parent[a]
    BY <2>1 DEF ParentSet
  <2> QED
    BY <1>2, <2>2 DEF Replaced, p, side
<1>3. CASE p = NULL
  <2> DEFINE V == [T EXCEPT !.root = m]
  <2>1. /\ V \in Tree /\ V.color = T.color /\ V.key = T.key /\ V.root = m
        /\ V.parent = T.parent /\ V.kid = T.kid
    BY RootParts
  <2>2. U = SetParent(V, m, p)
    BY <1>3 DEF replace_node
  <2>3. \A a \in Node : a # p
    BY <1>3, Nodes
  <2> HIDE DEF V, p, side, U
  <2> QED
    BY <1>2, <1>3, <2>1, <2>2, <2>3 DEF U
<1>4. CASE p # NULL
  <2> DEFINE V == SetKid(T, side, p, m)
  <2>1. U = SetParent(V, m, p)
    BY <1>4 DEF replace_node, SetKid
  <2>2. p \in Node
    BY <1>1, <1>4 DEF Pointer
  <2> HIDE DEF p, side, U
  <2>3. KidSet(T, side, p, m, V)
    BY <1>1, <2>2, KidParts
  <2> HIDE DEF V
  <2>4. /\ V \in Tree /\ V.color = T.color /\ V.key = T.key /\ V.root = T.root /\ V.parent = T.parent
        /\ \A x \in Side : \A a \in Node : V.kid[x][a] = IF x = side /\ a = p THEN m ELSE T.kid[x][a]
    BY <2>3 DEF KidSet
  <2> QED
    BY <1>2, <1>4, <2>1, <2>4 DEF U
<1> QED
  BY <1>3, <1>4

-----------------------------------------------------------------------------
(* Rotation.                                                                   *)

\* What rotate assigns.
Rotated(T, side, n, U) ==
    LET r == T.kid[Other(side)][n]
        g == T.kid[side][r]
    IN  /\ U \in Tree /\ U.color = T.color /\ U.key = T.key
        /\ U.root = IF T.parent[n] = NULL THEN r ELSE T.root
        /\ \A a \in Node : U.parent[a] = IF a = g THEN n ELSE IF a = n THEN r
                                          ELSE IF a = r THEN T.parent[n] ELSE T.parent[a]
        /\ \A x \in Side : \A a \in Node :
             U.kid[x][a] = IF a = n /\ x = Other(side) THEN g ELSE IF a = r /\ x = side THEN n
                           ELSE IF a = T.parent[n] /\ x = SideOf(T, T.parent[n], n) THEN r
                           ELSE T.kid[x][a]

\* rotate does that.
LEMMA RotateParts ==
    ASSUME NEW T \in Tree, NEW n \in Node, NEW side \in Side, T.kid[Other(side)][n] # NULL
    PROVE  Rotated(T, side, n, rotate(T, side, n))
<1> DEFINE r == T.kid[Other(side)][n]
           g == T.kid[side][r]
           U == rotate(T, side, n)
           A == replace_node(T, n, r)
           B == SetKid(A, side, r, n)
           C == SetParent(B, n, r)
           E == SetKid(C, Other(side), n, g)
<1>1. U = SetParent(E, g, n)
  <2>1. n # NULL
    BY Nodes
  <2> QED
    BY <2>1 DEF rotate, SetKid, SetParent
<1>2. Other(side) \in Side /\ r \in Node /\ r \in Pointer /\ g \in Pointer /\ n \in Pointer
  <2>1. Other(side) \in Side
    BY Sides
  <2>2. r \in Node
    BY <2>1, TreeParts DEF Pointer
  <2> QED
    BY <2>1, <2>2, TreeParts, Nodes
<1> HIDE DEF r, g, U
<1>3. Replaced(T, n, r, A)
  BY <1>2, ReplaceParts
<1> HIDE DEF A
<1>4. /\ A \in Tree /\ A.color = T.color /\ A.key = T.key
      /\ A.root = IF T.parent[n] = NULL THEN r ELSE T.root
      /\ \A a \in Node : A.parent[a] = IF a = r THEN T.parent[n] ELSE T.parent[a]
      /\ \A x \in Side : \A a \in Node :
           A.kid[x][a] = IF a = T.parent[n] /\ x = SideOf(T, T.parent[n], n) THEN r ELSE T.kid[x][a]
  BY <1>3 DEF Replaced
<1>5. KidSet(A, side, r, n, B)
  BY <1>2, <1>4, KidParts
<1> HIDE DEF B
<1>6. /\ B \in Tree /\ B.color = A.color /\ B.key = A.key /\ B.root = A.root /\ B.parent = A.parent
      /\ \A x \in Side : \A a \in Node : B.kid[x][a] = IF x = side /\ a = r THEN n ELSE A.kid[x][a]
  BY <1>5 DEF KidSet
<1>7. ParentSet(B, n, r, C)
  BY <1>2, <1>6, SetParentParts
<1> HIDE DEF C
<1>8. /\ C \in Tree /\ C.color = B.color /\ C.key = B.key /\ C.root = B.root /\ C.kid = B.kid
      /\ \A a \in Node : C.parent[a] = IF a = n THEN r ELSE B.parent[a]
  BY <1>7 DEF ParentSet
<1>9. KidSet(C, Other(side), n, g, E)
  BY <1>2, <1>8, KidParts
<1> HIDE DEF E
<1>10. /\ E \in Tree /\ E.color = C.color /\ E.key = C.key /\ E.root = C.root /\ E.parent = C.parent
       /\ \A x \in Side : \A a \in Node : E.kid[x][a] = IF x = Other(side) /\ a = n THEN g ELSE C.kid[x][a]
  BY <1>9 DEF KidSet
<1>11. ParentSet(E, g, n, U)
  BY <1>1, <1>2, <1>10, SetParentParts
<1>12. /\ U \in Tree /\ U.color = E.color /\ U.key = E.key /\ U.root = E.root /\ U.kid = E.kid
       /\ \A a \in Node : U.parent[a] = IF a = g THEN n ELSE E.parent[a]
  BY <1>11 DEF ParentSet
<1>13. U \in Tree /\ U.color = T.color /\ U.key = T.key /\ U.root = IF T.parent[n] = NULL THEN r ELSE T.root
  BY <1>4, <1>6, <1>8, <1>10, <1>12
<1>14. ASSUME NEW a \in Node
       PROVE  U.parent[a] = IF a = g THEN n ELSE IF a = n THEN r
                            ELSE IF a = r THEN T.parent[n] ELSE T.parent[a]
  BY <1>4, <1>6, <1>8, <1>10, <1>12
<1>15. ASSUME NEW x \in Side, NEW a \in Node
       PROVE  U.kid[x][a] = IF a = n /\ x = Other(side) THEN g ELSE IF a = r /\ x = side THEN n
                            ELSE IF a = T.parent[n] /\ x = SideOf(T, T.parent[n], n) THEN r
                            ELSE T.kid[x][a]
  BY <1>4, <1>6, <1>8, <1>10, <1>12
<1>16. Rotated(T, side, n, U)
  BY <1>13, <1>14, <1>15 DEF Rotated, r, g
<1> QED
  BY <1>16 DEF U

\* The same for the nodes of a tree: n goes down on the side, its other child r comes up.
Turned(T, M, side, n, U) ==
    LET r == T.kid[Other(side)][n]
        g == T.kid[side][r]
    IN  /\ U \in Tree /\ U.color = T.color /\ U.key = T.key
        /\ U.root = IF T.root = n THEN r ELSE T.root
        /\ U.kid[side][n] = T.kid[side][n] /\ U.kid[Other(side)][n] = g
        /\ U.kid[side][r] = n /\ U.kid[Other(side)][r] = T.kid[Other(side)][r]
        /\ \A a \in M \ {n, r} : \A x \in Side : U.kid[x][a] = IF T.kid[x][a] = n THEN r ELSE T.kid[x][a]
        /\ U.parent[r] = T.parent[n] /\ U.parent[n] = r
        /\ g # NULL => U.parent[g] = n
        /\ \A a \in M \ {n, r, g} : U.parent[a] = T.parent[a]
        /\ \A a \in Node \ M : U.parent[a] = T.parent[a] /\ \A x \in Side : U.kid[x][a] = T.kid[x][a]

\* The nodes that take part in a rotation are different ones.
Apart(T, M, side, n) ==
    LET r == T.kid[Other(side)][n]
        g == T.kid[side][r]
        p == T.parent[n]
    IN  /\ r \in M /\ r # n /\ T.parent[r] = n /\ r # T.root /\ T.kid[side][n] # r
        /\ g # NULL => g \in M /\ T.parent[g] = r /\ T.kid[Other(side)][r] # g
        /\ g # NULL => g # r /\ g # T.root
        /\ p # NULL => p \in M /\ SideOf(T, p, n) \in Side /\ T.kid[SideOf(T, p, n)][p] = n
        /\ p # n /\ p # r /\ (p = NULL <=> n = T.root)
        /\ T.kid[Other(side)][r] # n /\ T.kid[side][n] # n /\ g # n

\* In a tree they are.
LEMMA RotationApart ==
    ASSUME NEW T, NEW M, NEW D, Hung(T, M, D), NEW n \in M, NEW side \in Side, T.kid[Other(side)][n] # NULL
    PROVE  Apart(T, M, side, n)
<1> DEFINE o == Other(side)
           r == T.kid[o][n]
           g == T.kid[side][r]
           p == T.parent[n]
<1>1. o \in Side /\ Other(o) = side
  BY Sides
<1> HIDE DEF o
<1>2. r \in M /\ r # n /\ T.parent[r] = n /\ r # T.root /\ T.kid[side][n] # r /\ r \in D[r] /\ r \in D[n]
  <2>1. T.kid[o][n] # NULL
    BY DEF o
  <2> QED
    BY <1>1, <2>1, KidFacts
<1> HIDE DEF r
<1>3. n \notin D[r]
  BY <1>1, Branches DEF r
<1>4. n # NULL /\ r # NULL
  BY <1>2, Branches, Sides
<1>5. g # NULL => /\ g \in M /\ T.parent[g] = r /\ T.kid[o][r] # g /\ g # r /\ g # T.root /\ g \in D[r]
  BY <1>2, KidFacts DEF o
<1>6. T.kid[o][r] # n
  <2>1. T.kid[o][r] # NULL => T.parent[T.kid[o][r]] = r /\ T.kid[o][r] \in D[r]
    BY <1>1, <1>2, KidFacts
  <2> QED
    BY <1>3, <1>4, <2>1
<1>7. T.kid[side][n] # n
  BY <1>4, KidFacts
<1>8. /\ p # NULL => p \in M /\ SideOf(T, p, n) \in Side /\ T.kid[SideOf(T, p, n)][p] = n
      /\ p = NULL <=> n = T.root
      /\ p # NULL => p \notin D[n] /\ p # n
  BY ParentFacts
<1>9. p # n /\ p # r
  BY <1>2, <1>4, <1>8
<1> QED
  BY <1>2, <1>3, <1>4, <1>5, <1>6, <1>7, <1>8, <1>9 DEF Apart, o, r

\* So rotate turns the tree at n.
LEMMA RotateTurns ==
    ASSUME NEW T, NEW M, NEW D, Hung(T, M, D), NEW n \in M, NEW side \in Side, T.kid[Other(side)][n] # NULL
    PROVE  Turned(T, M, side, n, rotate(T, side, n))
<1> DEFINE o == Other(side)
           r == T.kid[o][n]
           g == T.kid[side][r]
           p == T.parent[n]
           U == rotate(T, side, n)
<1>1. o \in Side /\ o # side /\ M \subseteq Node /\ T \in Tree
  BY Sides DEF Hung, Linked
<1>2. /\ r \in M /\ r # n /\ T.parent[r] = n /\ r # T.root /\ T.kid[side][n] # r
      /\ g # NULL => g \in M /\ T.parent[g] = r /\ T.kid[o][r] # g /\ g # r /\ g # T.root
      /\ p # NULL => p \in M /\ SideOf(T, p, n) \in Side /\ T.kid[SideOf(T, p, n)][p] = n
      /\ p # n /\ p # r /\ (p = NULL <=> n = T.root) /\ g # n
  <2>1. Apart(T, M, side, n)
    BY RotationApart
  <2> QED
    BY <2>1 DEF Apart
<1>3. Rotated(T, side, n, U)
  BY <1>1, RotateParts
<1> HIDE DEF U
<1>4. /\ U \in Tree /\ U.color = T.color /\ U.key = T.key
      /\ U.root = IF T.parent[n] = NULL THEN r ELSE T.root
      /\ \A a \in Node : U.parent[a] = IF a = g THEN n ELSE IF a = n THEN r
                                        ELSE IF a = r THEN T.parent[n] ELSE T.parent[a]
      /\ \A x \in Side : \A a \in Node :
           U.kid[x][a] = IF a = n /\ x = o THEN g ELSE IF a = r /\ x = side THEN n
                         ELSE IF a = p /\ x = SideOf(T, p, n) THEN r ELSE T.kid[x][a]
  BY <1>3 DEF Rotated
<1>5. n \in Node /\ r \in Node /\ NULL \notin M /\ (g # NULL => g \in Node)
  BY <1>1, <1>2, Nodes
<1>6. ASSUME NEW a \in M, NEW x \in Side PROVE T.kid[x][a] = n <=> a = p /\ x = SideOf(T, p, n)
  <2>1. T.kid[x][a] = n => T.parent[n] = a
    BY <1>5, KidFacts
  <2>2. T.kid[x][a] = n => a = p /\ x = SideOf(T, p, n)
    <3>1. SUFFICES ASSUME T.kid[x][a] = n PROVE x = SideOf(T, p, n)
      BY <2>1
    <3>2. p # NULL /\ p = a
      BY <1>5, <2>1, <3>1
    <3>3. SideOf(T, p, n) \in Side /\ T.kid[SideOf(T, p, n)][p] = n /\ n # NULL
      BY <1>2, <1>5, <3>2
    <3> QED
      BY <3>1, <3>2, <3>3, OneParent
  <2>3. a = p /\ x = SideOf(T, p, n) => T.kid[x][a] = n
    BY <1>2, <1>5
  <2> QED
    BY <2>2, <2>3
<1> HIDE DEF o, r, g, p
<1>7. /\ U.kid[side][n] = T.kid[side][n] /\ U.kid[o][n] = g
      /\ U.kid[side][r] = n /\ U.kid[o][r] = T.kid[o][r]
  BY <1>1, <1>2, <1>4, <1>5
<1>8. ASSUME NEW a \in M \ {n, r}, NEW x \in Side
      PROVE  U.kid[x][a] = IF T.kid[x][a] = n THEN r ELSE T.kid[x][a]
  <2>1. a \in Node /\ a # n /\ a # r
    BY <1>1
  <2>2. U.kid[x][a] = IF a = p /\ x = SideOf(T, p, n) THEN r ELSE T.kid[x][a]
    BY <1>4, <2>1
  <2> QED
    BY <1>6, <2>2
<1>9. U.parent[r] = p /\ U.parent[n] = r /\ (g # NULL => U.parent[g] = n)
  <2>1. r # g /\ n # g
    BY <1>2, <1>5
  <2>2. U.parent[r] = IF r = g THEN n ELSE IF r = n THEN r ELSE p
    BY <1>4, <1>5 DEF p
  <2>3. U.parent[n] = IF n = g THEN n ELSE r
    BY <1>4, <1>5
  <2> QED
    BY <1>2, <1>4, <1>5, <2>1, <2>2, <2>3
<1>10. \A a \in M \ {n, r, g} : U.parent[a] = T.parent[a]
  BY <1>1, <1>4
<1>11. ASSUME NEW a \in Node \ M
       PROVE  U.parent[a] = T.parent[a] /\ \A x \in Side : U.kid[x][a] = T.kid[x][a]
  <2>1. a # n /\ a # r /\ a # g /\ a # p
    BY <1>2, <1>11, Nodes
  <2> QED
    BY <1>4, <2>1
<1>12. U.root = IF T.root = n THEN r ELSE T.root
  BY <1>2, <1>4 DEF p
<1>13. Turned(T, M, side, n, U)
  BY <1>4, <1>7, <1>8, <1>9, <1>10, <1>11, <1>12 DEF Turned, o, r, g, p
<1> QED
  BY <1>13 DEF U

\* The links of a turned tree agree.
LEMMA TurnedLinked ==
    ASSUME NEW T, NEW M, NEW D, Hung(T, M, D), NEW n \in M, NEW side \in Side, T.kid[Other(side)][n] # NULL,
           NEW U, Turned(T, M, side, n, U)
    PROVE  Linked(U, M)
<1> DEFINE o == Other(side)
           r == T.kid[o][n]
           g == T.kid[side][r]
           p == T.parent[n]
<1>1. o \in Side /\ o # side /\ M \in SUBSET Node /\ NULL \notin M /\ Other(o) = side
  BY Sides, Nodes DEF Hung, Linked
<1>2. /\ r \in M /\ r # n /\ T.parent[r] = n /\ r # T.root /\ T.kid[side][n] # r
      /\ g # NULL => g \in M /\ T.parent[g] = r /\ T.kid[o][r] # g /\ g # r /\ g # T.root
      /\ p # NULL => p \in M /\ SideOf(T, p, n) \in Side /\ T.kid[SideOf(T, p, n)][p] = n
      /\ p # n /\ p # r /\ (p = NULL <=> n = T.root)
      /\ T.kid[o][r] # n /\ T.kid[side][n] # n /\ g # n
  <2>1. Apart(T, M, side, n)
    BY RotationApart
  <2> QED
    BY <2>1 DEF Apart
<1>3. /\ U \in Tree /\ U.root = IF T.root = n THEN r ELSE T.root
      /\ U.kid[side][n] = T.kid[side][n] /\ U.kid[o][n] = g
      /\ U.kid[side][r] = n /\ U.kid[o][r] = T.kid[o][r]
      /\ \A a \in M \ {n, r} : \A x \in Side : U.kid[x][a] = IF T.kid[x][a] = n THEN r ELSE T.kid[x][a]
      /\ U.parent[r] = p /\ U.parent[n] = r
      /\ g # NULL => U.parent[g] = n
      /\ \A a \in M \ {n, r, g} : U.parent[a] = T.parent[a]
  BY DEF Turned
<1>4. /\ T.root # NULL => T.root \in M /\ T.parent[T.root] = NULL
      /\ \A a \in M : \A x \in Side :
           T.kid[x][a] # NULL => /\ T.kid[x][a] \in M /\ T.parent[T.kid[x][a]] = a
                                 /\ T.kid[Other(x)][a] # T.kid[x][a]
      /\ \A a \in M : a # T.root => T.parent[a] \in M /\ \E x \in Side : T.kid[x][T.parent[a]] = a
  BY DEF Hung, Linked
<1>5. \A x \in Side : x = side \/ x = o
  BY Sides
<1> HIDE DEF o, r, g, p
<1>6. U.root # NULL => U.root \in M /\ U.parent[U.root] = NULL
  <2>1. CASE T.root = n
    BY <1>2, <1>3, <2>1
  <2>2. CASE T.root # n
    BY <1>2, <1>3, <1>4, <2>2
  <2> QED
    BY <2>1, <2>2
<1>7. ASSUME NEW a \in M, NEW x \in Side, U.kid[x][a] # NULL
      PROVE  U.kid[x][a] \in M /\ U.parent[U.kid[x][a]] = a /\ U.kid[Other(x)][a] # U.kid[x][a]
  <2>1. CASE a = n /\ x = side
    <3>1. U.kid[x][a] = T.kid[side][n] /\ U.kid[Other(x)][a] = g
      BY <1>3, <2>1 DEF o
    <3>2. T.kid[side][n] \in M /\ T.parent[T.kid[side][n]] = n
      BY <1>4, <1>7, <3>1
    <3>3. T.kid[side][n] # r /\ T.kid[side][n] # n /\ T.kid[side][n] # g
      BY <1>2, <1>7, <3>1, <3>2
    <3> QED
      BY <1>3, <2>1, <3>1, <3>2, <3>3
  <2>2. CASE a = n /\ x = o
    <3>1. U.kid[x][a] = g /\ U.kid[Other(x)][a] = T.kid[side][n] /\ g # NULL
      BY <1>1, <1>3, <1>7, <2>2
    <3>2. T.kid[side][n] = NULL \/ T.parent[T.kid[side][n]] = n
      BY <1>4
    <3> QED
      BY <1>2, <1>3, <2>2, <3>1, <3>2
  <2>3. CASE a = r /\ x = side
    <3>1. U.kid[x][a] = n /\ U.kid[Other(x)][a] = T.kid[o][r]
      BY <1>3, <2>3 DEF o
    <3> QED
      BY <1>2, <1>3, <2>3, <3>1
  <2>4. CASE a = r /\ x = o
    <3>1. U.kid[x][a] = T.kid[o][r] /\ U.kid[Other(x)][a] = n
      BY <1>1, <1>3, <2>4
    <3>2. T.kid[o][r] \in M /\ T.parent[T.kid[o][r]] = r /\ T.kid[o][r] # n
      BY <1>1, <1>2, <1>4, <1>7, <3>1
    <3>3. T.kid[o][r] # r /\ T.kid[o][r] # g
      BY <1>2, <1>7, <3>1, <3>2
    <3> QED
      BY <1>3, <2>4, <3>1, <3>2, <3>3
  <2>5. CASE a # n /\ a # r
    <3>1. /\ U.kid[x][a] = IF T.kid[x][a] = n THEN r ELSE T.kid[x][a]
          /\ U.kid[Other(x)][a] = IF T.kid[Other(x)][a] = n THEN r ELSE T.kid[Other(x)][a]
      BY <1>3, <2>5, Sides
    <3>2. /\ T.kid[x][a] # NULL
          /\ T.kid[x][a] \in M /\ T.parent[T.kid[x][a]] = a /\ T.kid[Other(x)][a] # T.kid[x][a]
      BY <1>1, <1>4, <1>7, <3>1
    <3>3. T.kid[Other(x)][a] = NULL \/ T.parent[T.kid[Other(x)][a]] = a
      BY <1>4, Sides
    <3>4. T.kid[x][a] # r /\ T.kid[Other(x)][a] # r
      BY <1>1, <1>2, <2>5, <3>2, <3>3
    <3>5. CASE T.kid[x][a] = n
      <4>1. U.kid[x][a] = r /\ p = a
        BY <3>1, <3>2, <3>5 DEF p
      <4> QED
        BY <1>2, <1>3, <3>1, <3>2, <3>4, <3>5, <4>1
    <3>6. CASE T.kid[x][a] # n
      <4>1. T.kid[x][a] # g
        BY <1>2, <2>5, <3>2
      <4>2. U.kid[x][a] = T.kid[x][a] /\ U.parent[T.kid[x][a]] = a
        BY <1>3, <3>1, <3>2, <3>4, <3>6, <4>1
      <4> QED
        BY <3>1, <3>2, <3>4, <4>2
    <3> QED
      BY <3>5, <3>6
  <2> QED
    BY <1>5, <2>1, <2>2, <2>3, <2>4, <2>5
<1>8. ASSUME NEW a \in M, a # U.root
      PROVE  U.parent[a] \in M /\ \E x \in Side : U.kid[x][U.parent[a]] = a
  <2>1. CASE a = g
    BY <1>1, <1>2, <1>3, <2>1
  <2>2. CASE a = n
    BY <1>1, <1>2, <1>3, <2>2
  <2>3. CASE a = r
    <3>1. p # NULL /\ U.parent[a] = p
      BY <1>2, <1>3, <1>8, <2>3
    <3>2. p \in M /\ SideOf(T, p, n) \in Side /\ T.kid[SideOf(T, p, n)][p] = n /\ p # n /\ p # r
      BY <1>2, <3>1
    <3>3. U.kid[SideOf(T, p, n)][p] = r
      BY <1>3, <3>2
    <3> QED
      BY <2>3, <3>1, <3>2, <3>3
  <2>4. CASE a # g /\ a # n /\ a # r
    <3>1. a # T.root /\ U.parent[a] = T.parent[a]
      BY <1>3, <1>8, <2>4
    <3>2. PICK x \in Side : T.parent[a] \in M /\ T.kid[x][T.parent[a]] = a
      BY <1>4, <3>1
    <3>3. CASE T.parent[a] = n
      <4>1. x = side
        BY <1>5, <2>4, <3>2, <3>3 DEF r
      <4> QED
        BY <1>3, <3>1, <3>2, <3>3, <4>1
    <3>4. CASE T.parent[a] = r
      <4>1. x = o
        BY <1>5, <2>4, <3>2, <3>4 DEF g
      <4> QED
        BY <1>3, <3>1, <3>2, <3>4, <4>1
    <3>5. CASE T.parent[a] # n /\ T.parent[a] # r
      <4>1. U.kid[x][T.parent[a]] = a
        BY <1>3, <2>4, <3>2, <3>5
      <4> QED
        BY <3>1, <3>2, <4>1
    <3> QED
      BY <3>3, <3>4, <3>5
  <2> QED
    BY <2>1, <2>2, <2>3, <2>4
<1> QED
  BY <1>1, <1>3, <1>6, <1>7, <1>8 DEF Linked

\* The sets of nodes that are below others after a rotation.
BelowTurned(T, D, side, n) ==
    LET r == T.kid[Other(side)][n]
    IN  [D EXCEPT ![r] = D[n], ![n] = {n} \cup D[T.kid[side][n]] \cup D[T.kid[side][r]]]

\* They are right, and the order of the keys stays.
LEMMA TurnedBelow ==
    ASSUME NEW T, NEW M, NEW D, Hung(T, M, D), NEW n \in M, NEW side \in Side, T.kid[Other(side)][n] # NULL,
           NEW U, Turned(T, M, side, n, U)
    PROVE  /\ Branching(U, M, BelowTurned(T, D, side, n))
           /\ Sorted(T, M, D) => Sorted(U, M, BelowTurned(T, D, side, n))
<1> DEFINE o == Other(side)
           r == T.kid[o][n]
           g == T.kid[side][r]
           k == T.kid[side][n]
           q == T.kid[o][r]
           E == BelowTurned(T, D, side, n)
<1>1. o \in Side /\ o # side /\ Other(o) = side /\ \A x \in Side : x = side \/ x = o
  BY Sides
<1>2. M \in SUBSET Node /\ NULL \notin M /\ \A a \in M : a \in Pointer /\ a \in Node
  BY Nodes DEF Hung, Linked
<1>3. r \in M /\ r # n /\ g # n /\ g # r /\ k # n /\ k # r /\ q # n /\ q # r
  <2>1. Apart(T, M, side, n)
    BY RotationApart
  <2>2. r \in M /\ r # n /\ g # n /\ k # n /\ k # r /\ q # n
    BY <2>1 DEF Apart
  <2> HIDE DEF r
  <2>3. g # r /\ q # r
    BY <1>1, <1>2, <2>2, KidFacts
  <2> QED
    BY <2>2, <2>3
<1>4. /\ U.root = IF T.root = n THEN r ELSE T.root
      /\ U.kid[side][n] = k /\ U.kid[o][n] = g /\ U.kid[side][r] = n /\ U.kid[o][r] = q
      /\ \A a \in M \ {n, r} : \A x \in Side : U.kid[x][a] = IF T.kid[x][a] = n THEN r ELSE T.kid[x][a]
  BY DEF Turned
<1>5. D \in [Pointer -> SUBSET M] /\ D[NULL] = {} /\ D[T.root] = M
  BY DEF Hung, Branching
<1>6. /\ D[n] = {n} \cup D[k] \cup D[r] /\ D[k] \cap D[r] = {} /\ n \notin D[k] /\ n \notin D[r]
      /\ D[r] = {r} \cup D[g] \cup D[q] /\ D[g] \cap D[q] = {} /\ r \notin D[g] /\ r \notin D[q]
      /\ n \in D[n] /\ r \in D[r] /\ D[n] \subseteq M
  <2>1. D[n] = {n} \cup D[k] \cup D[r] /\ D[k] \cap D[r] = {} /\ n \notin D[k] /\ n \notin D[r]
    BY Branches
  <2>2. D[r] = {r} \cup D[g] \cup D[q] /\ D[g] \cap D[q] = {} /\ r \notin D[g] /\ r \notin D[q]
    <3> HIDE DEF r
    <3> QED
      BY <1>3, Branches
  <2>3. n \in D[n] /\ r \in D[r] /\ D[n] \subseteq M
    <3> HIDE DEF r
    <3> QED
      BY <1>3, Branches
  <2> QED
    BY <2>1, <2>2, <2>3
<1>7. E = [D EXCEPT ![r] = D[n], ![n] = {n} \cup D[k] \cup D[g]]
  BY DEF BelowTurned
<1> HIDE DEF o, r, g, k, q, E
<1>8. /\ E \in [Pointer -> SUBSET M] /\ E[r] = D[n] /\ E[n] = {n} \cup D[k] \cup D[g]
      /\ \A a \in Pointer \ {n, r} : E[a] = D[a]
  <2>1. {n} \cup D[k] \cup D[g] \in SUBSET M /\ D[n] \in SUBSET M
    BY <1>5, <1>6
  <2>2. n \in Pointer /\ r \in Pointer
    BY <1>2, <1>3
  <2> DEFINE X == D[n]
             Y == {n} \cup D[k] \cup D[g]
  <2>3. X \in SUBSET M /\ Y \in SUBSET M /\ E = [D EXCEPT ![r] = X, ![n] = Y]
    BY <1>7, <2>1
  <2> HIDE DEF X, Y
  <2>4. /\ E \in [Pointer -> SUBSET M] /\ E[r] = X /\ E[n] = Y
        /\ \A a \in Pointer \ {n, r} : E[a] = D[a]
    BY <1>3, <1>5, <2>2, <2>3
  <2> QED
    BY <2>4 DEF X, Y
<1>9. /\ k \in Pointer \ {n, r} /\ g \in Pointer \ {n, r} /\ q \in Pointer \ {n, r}
      /\ NULL \in Pointer \ {n, r} /\ T.root \in Pointer
      /\ \A a \in M : \A x \in Side : T.kid[x][a] \in Pointer
  <2>1. T \in Tree
    BY DEF Hung, Linked
  <2>2. \A a \in M : \A x \in Side : T.kid[x][a] \in Pointer
    BY <1>2, <2>1, TreeParts
  <2>3. T.root \in Pointer
    BY <2>1, TreeParts
  <2>4. NULL \in Pointer \ {n, r}
    BY <1>2, <1>3, Nodes
  <2>5. k \in Pointer /\ g \in Pointer /\ q \in Pointer
    BY <1>1, <1>3, <2>2 DEF k, g, q
  <2> QED
    BY <1>3, <2>2, <2>3, <2>4, <2>5
<1>10. ASSUME NEW a \in M \ {n, r}, NEW x \in Side PROVE E[U.kid[x][a]] = D[T.kid[x][a]]
  <2>1. U.kid[x][a] = IF T.kid[x][a] = n THEN r ELSE T.kid[x][a]
    BY <1>4
  <2>2. T.kid[x][a] # r
    <3>1. T.kid[x][a] # NULL => T.parent[T.kid[x][a]] = a
      BY KidFacts
    <3>2. T.parent[r] = n /\ r # NULL
      <4>1. Apart(T, M, side, n)
        BY RotationApart
      <4> QED
        BY <1>2, <1>3, <4>1 DEF Apart, r, o
    <3> QED
      BY <3>1, <3>2
  <2>3. CASE T.kid[x][a] = n
    BY <1>8, <2>1, <2>3
  <2>4. CASE T.kid[x][a] # n
    BY <1>8, <1>9, <2>1, <2>2, <2>4
  <2> QED
    BY <2>3, <2>4
<1>11. E[U.kid[side][n]] = D[k] /\ E[U.kid[o][n]] = D[g] /\ E[U.kid[side][r]] = E[n] /\ E[U.kid[o][r]] = D[q]
  BY <1>4, <1>8, <1>9
<1>12. E[NULL] = {} /\ E[U.root] = M
  <2>1. E[NULL] = {}
    BY <1>5, <1>8, <1>9
  <2>2. E[U.root] = M
    <3>1. T.root # r
      <4>1. Apart(T, M, side, n)
        BY RotationApart
      <4> QED
        BY <4>1 DEF Apart, r, o
    <3> QED
      BY <1>4, <1>5, <1>8, <1>9, <3>1
  <2> QED
    BY <2>1, <2>2
<1>13. ASSUME NEW a \in M
       PROVE  /\ E[a] = {a} \cup E[U.kid[side][a]] \cup E[U.kid[o][a]]
              /\ a \notin E[U.kid[side][a]] /\ a \notin E[U.kid[o][a]]
              /\ E[U.kid[side][a]] \cap E[U.kid[o][a]] = {}
  <2>1. CASE a = n
    <3>1. E[U.kid[side][a]] = D[k] /\ E[U.kid[o][a]] = D[g] /\ E[a] = {n} \cup D[k] \cup D[g]
      BY <1>8, <1>11, <2>1
    <3>2. D[g] \subseteq D[r]
      BY <1>6
    <3> QED
      BY <1>6, <2>1, <3>1, <3>2
  <2>2. CASE a = r
    <3>1. E[U.kid[side][a]] = {n} \cup D[k] \cup D[g] /\ E[U.kid[o][a]] = D[q] /\ E[a] = D[n]
      BY <1>8, <1>11, <2>2
    <3>2. D[g] \subseteq D[r] /\ D[q] \subseteq D[r]
      BY <1>6
    <3>3. D[n] = {n} \cup D[k] \cup {r} \cup D[g] \cup D[q]
      BY <1>6
    <3>4. r \notin D[k] /\ r # n
      BY <1>3, <1>6
    <3>5. n \notin D[q] /\ D[k] \cap D[q] = {}
      BY <1>6, <3>2
    <3> QED
      BY <1>6, <2>2, <3>1, <3>3, <3>4, <3>5
  <2>3. CASE a # n /\ a # r
    <3>1. E[U.kid[side][a]] = D[T.kid[side][a]] /\ E[U.kid[o][a]] = D[T.kid[o][a]]
      BY <1>1, <1>10, <2>3
    <3>2. E[a] = D[a]
      BY <1>2, <1>8, <2>3
    <3>3. /\ D[a] = {a} \cup D[T.kid[side][a]] \cup D[T.kid[o][a]]
          /\ D[T.kid[side][a]] \cap D[T.kid[o][a]] = {}
          /\ a \notin D[T.kid[side][a]] /\ a \notin D[T.kid[o][a]]
      BY Branches DEF o
    <3> QED
      BY <3>1, <3>2, <3>3
  <2> QED
    BY <2>1, <2>2, <2>3
<1>14. Branching(U, M, E)
  <2>1. (side = "left" /\ o = "right") \/ (side = "right" /\ o = "left")
    <3>1. side = "left" \/ side = "right"
      BY DEF Side
    <3>2. o = Other(side)
      BY DEF o
    <3> QED
      BY <3>1, <3>2, Sides
  <2>2. \A a \in M : E[a] = {a} \cup E[U.kid["left"][a]] \cup E[U.kid["right"][a]]
    BY <1>13, <2>1
  <2>3. \A a \in M : \A x \in Side : a \notin E[U.kid[x][a]]
    BY <1>1, <1>13
  <2>4. \A a \in M : E[U.kid["left"][a]] \cap E[U.kid["right"][a]] = {}
    BY <1>13, <2>1
  <2> QED
    BY <1>8, <1>12, <2>2, <2>3, <2>4 DEF Branching
<1>15. ASSUME Sorted(T, M, D), NEW a \in M, NEW x \in Side, NEW m \in E[U.kid[x][a]]
       PROVE  Sided(x, a, m)
  <2>1. \A c \in M : \A y \in Side : \A b \in D[T.kid[y][c]] : Sided(y, c, b)
    BY <1>15 DEF Sorted
  <2>2. \A b \in D[k] : Sided(side, n, b)
    BY <2>1 DEF k
  <2>3. \A b \in D[r] : Sided(o, n, b)
    BY <1>1, <2>1 DEF r
  <2>4. (\A b \in D[g] : Sided(side, r, b)) /\ (\A b \in D[q] : Sided(o, r, b))
    BY <1>1, <1>3, <2>1 DEF g, q
  <2>5. Sided(side, r, n)
    <3>1. Sided(o, n, r)
      BY <1>6, <2>3
    <3> QED
      BY <3>1 DEF Sided, Side, o, Other
  <2>6. ASSUME NEW b \in D[k] PROVE Sided(side, r, b)
    <3>1. b \in Int /\ n \in Int /\ r \in Int
      BY <1>2, <1>3, <1>5, <1>9, Nodes
    <3>2. Sided(side, n, b)
      BY <2>2
    <3> QED
      BY <2>5, <3>1, <3>2 DEF Sided
  <2>7. CASE a = n
    <3>1. x = side => m \in D[k]
      BY <1>11, <1>15, <2>7
    <3>2. x = o => m \in D[r]
      BY <1>6, <1>11, <1>15, <2>7
    <3> QED
      BY <1>1, <2>2, <2>3, <2>7, <3>1, <3>2
  <2>8. CASE a = r
    <3>1. x = side => m = n \/ m \in D[k] \/ m \in D[g]
      BY <1>8, <1>11, <1>15, <2>8
    <3>2. x = o => m \in D[q]
      BY <1>11, <1>15, <2>8
    <3> QED
      BY <1>1, <2>4, <2>5, <2>6, <2>8, <3>1, <3>2
  <2>9. CASE a # n /\ a # r
    <3>1. m \in D[T.kid[x][a]]
      BY <1>10, <1>15, <2>9
    <3> QED
      BY <2>1, <3>1
  <2> QED
    BY <2>7, <2>8, <2>9
<1>16. Sorted(T, M, D) => Sorted(U, M, E)
  BY <1>15 DEF Sorted
<1> QED
  BY <1>14, <1>16 DEF E

\* A rotation makes a search tree of a search tree.
LEMMA RotateTree ==
    ASSUME NEW T, NEW M, NEW D, NEW z, SearchTree(T, M, D, z), NEW n \in M, NEW side \in Side,
           T.kid[Other(side)][n] # NULL
    PROVE  /\ Turned(T, M, side, n, rotate(T, side, n))
           /\ SearchTree(rotate(T, side, n), M, BelowTurned(T, D, side, n), z)
<1> DEFINE U == rotate(T, side, n)
<1>1. Hung(T, M, D)
  BY DEF SearchTree
<1>2. Turned(T, M, side, n, U)
  BY <1>1, RotateTurns
<1> HIDE DEF U
<1>3. Linked(U, M)
  BY <1>1, <1>2, TurnedLinked
<1>4. Branching(U, M, BelowTurned(T, D, side, n)) /\ Sorted(U, M, BelowTurned(T, D, side, n))
  BY <1>1, <1>2, TurnedBelow DEF SearchTree
<1>5. Cleared(U, M, z)
  <2>1. \A a \in Node \ M : U.parent[a] = T.parent[a] /\ \A x \in Side : U.kid[x][a] = T.kid[x][a]
    BY <1>2 DEF Turned
  <2>2. \A a \in Node \ M : a = z \/ node_cleared_p(T, a)
    BY DEF SearchTree, Cleared
  <2> QED
    BY <2>1, <2>2 DEF Cleared, node_cleared_p
<1>6. Keyed(U)
  BY <1>2 DEF SearchTree, Keyed, Turned
<1>7. SearchTree(U, M, BelowTurned(T, D, side, n), z)
  BY <1>3, <1>4, <1>5, <1>6 DEF SearchTree, Hung
<1> QED
  BY <1>2, <1>7 DEF U

-----------------------------------------------------------------------------
(* Insertion.                                                                  *)

\* A red-black tree.
Balanced(T, M) ==
    \E D, h : SearchTree(T, M, D, NULL) /\ Even(T, M, h) /\ NoRedRed(T, M, NULL)

\* A tree on the way to that, where the red node n may have a red parent.
Rising(T, M, D, h, n) ==
    /\ SearchTree(T, M, D, NULL) /\ Even(T, M, h) /\ NoRedRed(T, M, n)
    /\ n \in M /\ T.color[n] = "RED"

\* A red parent has a black parent.
LEMMA GrandParent ==
    ASSUME NEW T, NEW M, NEW D, NEW h, NEW n, Rising(T, M, D, h, n),
           T.parent[n] # NULL, T.color[T.parent[n]] = "RED"
    PROVE  LET p == T.parent[n]
               g == T.parent[p]
               side == SideOf(T, g, p)
           IN  /\ p \in M /\ p # n /\ g \in M /\ g # p /\ g # n /\ T.color[g] = "BLACK"
               /\ side \in Side /\ T.kid[side][g] = p /\ T.kid[Other(side)][g] # p
               /\ \E x \in Side : T.kid[x][p] = n
               /\ T.root # n /\ T.root # p /\ T.color[T.root] = "BLACK"
               /\ Size(D, n) < Size(D, g)
<1> DEFINE p == T.parent[n]
           g == T.parent[p]
           side == SideOf(T, g, p)
<1>1. Hung(T, M, D) /\ n \in M /\ NoRedRed(T, M, n) /\ T.color[n] = "RED" /\ T \in Tree
  BY DEF Rising, SearchTree, Hung, Linked
<1>2. /\ p \in M /\ p # n /\ n # T.root /\ SideOf(T, p, n) \in Side /\ T.kid[SideOf(T, p, n)][p] = n
      /\ D[n] \subseteq D[p]
  BY <1>1, ParentFacts
<1>3. T.color[p] = "RED"
  OBVIOUS
<1> HIDE DEF p
<1>4. T.color[T.root] = "BLACK" /\ p # T.root
  <2>1. T.root # NULL
    <3>1. Branching(T, M, D)
      BY <1>1 DEF Hung
    <3> QED
      BY <1>1, <3>1 DEF Branching
  <2>2. BLACKP(T, T.root)
    BY <1>1, <1>2 DEF NoRedRed
  <2> QED
    BY <1>3, <2>1, <2>2 DEF BLACKP
<1>5. /\ g \in M /\ side \in Side /\ T.kid[side][g] = p /\ T.kid[Other(side)][g] # p
      /\ g \notin D[p] /\ g # p
  BY <1>1, <1>2, <1>4, ParentFacts
<1>6. g # n
  <2>1. n \in D[n]
    BY <1>1, Branches, Sides
  <2> QED
    BY <1>2, <1>5, <2>1
<1>7. T.color[g] = "BLACK"
  <2>1. g \in Node /\ p # NULL
    <3>1. M \in SUBSET Node
      BY <1>1 DEF Hung, Linked
    <3> QED
      BY <1>2, <1>5, <3>1, Nodes
  <2>2. T.color[g] # "RED"
    <3>1. REDP(T, T.kid[side][g])
      BY <1>3, <1>5, <2>1 DEF REDP
    <3>2. T.color[g] = "RED" /\ REDP(T, T.kid[side][g]) => T.kid[side][g] = n
      BY <1>1, <1>5 DEF NoRedRed
    <3> QED
      BY <1>2, <1>5, <3>1, <3>2
  <2>3. T.color[g] \in {"RED", "BLACK"}
    BY <1>1, <2>1, TreeParts
  <2> QED
    BY <2>2, <2>3
<1>8. Size(D, n) < Size(D, g)
  <2>1. Size(D, n) < Size(D, p)
    BY <1>1, <1>2, Sizes DEF p
  <2>2. Size(D, p) < Size(D, g)
    BY <1>1, <1>2, <1>5, Sizes
  <2>3. n \in Pointer /\ p \in Pointer /\ g \in Pointer
    BY <1>1, <1>2, <1>5, Nodes DEF Hung, Linked
  <2>4. Size(D, n) \in Nat /\ Size(D, p) \in Nat /\ Size(D, g) \in Nat
    BY <1>1, <2>3, Sizes
  <2> QED
    BY <2>1, <2>2, <2>4
<1> QED
  BY <1>1, <1>2, <1>4, <1>5, <1>6, <1>7, <1>8 DEF p

\* Case 3.
LEMMA RecolourRises ==
    ASSUME NEW T, NEW M, NEW D, NEW h, NEW n, Rising(T, M, D, h, n), RedUncle(T, n)
    PROVE  /\ \E i : Rising(Recolour(T, n)[1], M, D, i, Recolour(T, n)[2])
           /\ Size(D, n) < Size(D, Recolour(T, n)[2])
           /\ Recolour(T, n) \in Tree \X Node
<1> DEFINE p == T.parent[n]
           g == T.parent[p]
           u == Uncle(T, n)
           side == SideOf(T, g, p)
           A == Paint(T, p, "BLACK")
           B == Paint(A, u, "BLACK")
           V == Paint(B, g, "RED")
           i == [h EXCEPT ![p] = h[p] + 1, ![u] = h[u] + 1]
<1>1. T.parent[n] # NULL /\ T.color[T.parent[n]] = "RED" /\ u # NULL /\ T.color[u] = "RED"
  BY DEF RedUncle, REDP
<1>2. /\ p \in M /\ p # n /\ g \in M /\ g # p /\ g # n /\ T.color[g] = "BLACK"
      /\ side \in Side /\ T.kid[side][g] = p /\ T.kid[Other(side)][g] # p
      /\ T.root # n /\ T.root # p /\ T.color[T.root] = "BLACK"
      /\ Size(D, n) < Size(D, g)
  BY <1>1, GrandParent
<1>3. Hung(T, M, D) /\ n \in M /\ T \in Tree /\ M \in SUBSET Node /\ T.root # NULL
  <2>1. Hung(T, M, D) /\ n \in M /\ Linked(T, M) /\ Branching(T, M, D)
    BY DEF Rising, SearchTree, Hung
  <2> QED
    BY <2>1 DEF Linked, Branching
<1>4. u = T.kid[Other(side)][g] /\ Other(side) \in Side
  BY <1>2, Sides DEF Uncle
<1>5. u \in M /\ T.parent[u] = g /\ u # p /\ u # g /\ u # T.root
  <2> HIDE DEF p, g, side, u
  <2> QED
    BY <1>1, <1>2, <1>3, <1>4, KidFacts
<1>6. T.parent[p] = g
  OBVIOUS
<1>7. Recolour(T, n) = <<V, g>>
  BY DEF Recolour
<1>8. p \in Node /\ g \in Node /\ u \in Node /\ NULL \notin M
  BY <1>2, <1>3, <1>5, Nodes
<1> HIDE DEF p, g, u, side
<1>9. Painted(T, p, "BLACK", A)
  BY <1>3, <1>8, PaintParts
<1> HIDE DEF A
<1>10. SameShape(T, A) /\ A \in Tree /\ A.color = [T.color EXCEPT ![p] = "BLACK"]
  BY <1>9 DEF Painted, SameShape
<1>11. Painted(A, u, "BLACK", B)
  BY <1>8, <1>10, PaintParts
<1> HIDE DEF B
<1>12. SameShape(A, B) /\ B \in Tree /\ B.color = [A.color EXCEPT ![u] = "BLACK"]
  BY <1>11 DEF Painted, SameShape
<1>13. Painted(B, g, "RED", V)
  BY <1>8, <1>12, PaintParts
<1> HIDE DEF V
<1>14. SameShape(B, V) /\ V \in Tree /\ V.color = [B.color EXCEPT ![g] = "RED"]
  BY <1>13 DEF Painted, SameShape
<1>15. SameShape(T, V)
  BY <1>10, <1>12, <1>14 DEF SameShape
<1>16. SearchTree(V, M, D, NULL)
  BY <1>15, ShapeKept DEF Rising
<1>17. V.kid = T.kid /\ V.root = T.root
  BY <1>15 DEF SameShape
<1>18. \A a \in M : V.color[a] = IF a = g THEN "RED" ELSE IF a \in {p, u} THEN "BLACK" ELSE T.color[a]
  <2>1. T.color \in [Node -> {"RED", "BLACK"}]
    BY <1>3, TreeParts
  <2> QED
    BY <1>3, <1>10, <1>12, <1>14, <2>1
<1>19. \A a \in M : \A x \in Side : T.kid[x][a] # NULL => T.kid[x][a] \in M /\ T.parent[T.kid[x][a]] = a
  BY <1>3, KidFacts
<1>20. NoRedRed(V, M, g)
  <2>1. ASSUME NEW a \in M, NEW x \in Side, V.color[a] = "RED", REDP(V, T.kid[x][a]), T.kid[x][a] # g
        PROVE  FALSE
    <3> DEFINE k == T.kid[x][a]
    <3>1. k # NULL /\ k \in M /\ T.parent[k] = a /\ V.color[k] = "RED"
      BY <1>19, <2>1 DEF REDP
    <3>2. k # p /\ k # u /\ T.color[k] = "RED"
      BY <1>18, <2>1, <3>1
    <3>3. a # p /\ a # u
      BY <1>2, <1>5, <1>18, <2>1
    <3>4. a # g
      <4>1. SUFFICES ASSUME a = g PROVE FALSE
        OBVIOUS
      <4>2. x = side \/ x = Other(side)
        BY <1>2, Sides
      <4> QED
        BY <1>2, <1>4, <3>2, <4>1, <4>2
    <3>5. T.color[a] = "RED"
      BY <1>18, <2>1, <3>3, <3>4
    <3>6. k = n
      BY <3>1, <3>2, <3>5 DEF Rising, NoRedRed, REDP
    <3> QED
      BY <3>1, <3>3, <3>6 DEF p
  <2>2. V.root = g \/ BLACKP(V, V.root)
    <3>1. T.root \in M
      BY <1>3 DEF Hung, Linked
    <3> QED
      BY <1>2, <1>17, <1>18, <3>1 DEF BLACKP
  <2> QED
    BY <1>17, <2>1, <2>2 DEF NoRedRed
<1>21. /\ h \in [Pointer -> Nat] /\ h[NULL] = 0
       /\ \A a \in M : \A x \in Side : h[a] = h[T.kid[x][a]] + (IF T.color[a] = "BLACK" THEN 1 ELSE 0)
  BY DEF Rising, Even
<1>22. i \in [Pointer -> Nat] /\ \A a \in Pointer : i[a] = IF a \in {p, u} THEN h[a] + 1 ELSE h[a]
  <2>1. p \in Pointer /\ u \in Pointer /\ p # u
    BY <1>5, <1>8, Nodes
  <2> QED
    BY <1>21, <2>1
<1> HIDE DEF i
<1>23. Even(V, M, i)
  <2>1. ASSUME NEW a \in M, NEW x \in Side
        PROVE  i[a] = i[V.kid[x][a]] + (IF V.color[a] = "BLACK" THEN 1 ELSE 0)
    <3> DEFINE k == T.kid[x][a]
    <3>1. k \in Pointer /\ a \in Pointer /\ h[k] \in Nat /\ h[a] \in Nat
      BY <1>3, <1>21, TreeParts, Nodes
    <3>2. k \in {p, u} <=> a = g
      <4>1. k \in {p, u} => a = g
        BY <1>2, <1>5, <1>6, <1>8, <1>19
      <4>2. a = g => k \in {p, u}
        BY <1>2, <1>4, Sides
      <4> QED
        BY <4>1, <4>2
    <3>3. h[a] = h[k] + (IF T.color[a] = "BLACK" THEN 1 ELSE 0)
      BY <1>21
    <3>4. V.color[a] = IF a = g THEN "RED" ELSE IF a \in {p, u} THEN "BLACK" ELSE T.color[a]
      BY <1>18
    <3>5. i[a] = (IF a \in {p, u} THEN h[a] + 1 ELSE h[a]) /\ i[k] = (IF k \in {p, u} THEN h[k] + 1 ELSE h[k])
      BY <1>22, <3>1
    <3>6. T.color[p] = "RED" /\ T.color[u] = "RED" /\ T.color[g] = "BLACK"
      BY <1>1, <1>2 DEF p
    <3>7. V.kid[x][a] = k
      BY <1>17
    <3> HIDE DEF k
    <3>8. i[a] = i[k] + (IF V.color[a] = "BLACK" THEN 1 ELSE 0)
      BY <1>2, <1>5, <3>1, <3>2, <3>3, <3>4, <3>5, <3>6
    <3> QED
      BY <3>7, <3>8
  <2>2. i[NULL] = 0
    BY <1>8, <1>21, <1>22, Nodes
  <2> QED
    BY <1>22, <2>1, <2>2 DEF Even
<1>24. Rising(V, M, D, i, g)
  BY <1>2, <1>16, <1>18, <1>20, <1>23 DEF Rising
<1>25. Recolour(T, n)[1] = V /\ Recolour(T, n)[2] = g
  BY <1>7
<1>26. <<V, g>> \in Tree \X Node
  BY <1>8, <1>14
<1> QED
  BY <1>2, <1>7, <1>24, <1>25, <1>26

\* Case 5: a red node top between a black one and a red one, in a row.
LEMMA TopUp ==
    ASSUME NEW T, NEW M, NEW D, NEW h, SearchTree(T, M, D, NULL), Even(T, M, h),
           NEW low \in M, NEW top \in M, NEW g \in M, NEW side \in Side, NoRedRed(T, M, low),
           T.color[low] = "RED", T.color[top] = "RED", T.color[g] = "BLACK",
           T.kid[side][g] = top, T.kid[side][top] = low, T.root # low,
           BLACKP(T, T.kid[Other(side)][g])
    PROVE  Balanced(rotate(Paint(Paint(T, top, "BLACK"), g, "RED"), Other(side), g), M)
<1> DEFINE o == Other(side)
           A == Paint(T, top, "BLACK")
           B == Paint(A, g, "RED")
           V == rotate(B, o, g)
           i == [h EXCEPT ![g] = h[top], ![top] = h[g]]
           E == BelowTurned(B, D, o, g)
<1>1. Hung(T, M, D) /\ T \in Tree /\ M \in SUBSET Node /\ NULL \notin M
  BY Nodes DEF SearchTree, Hung, Linked
<1>2. o \in Side /\ Other(o) = side /\ o # side /\ \A x \in Side : x = side \/ x = o
  BY Sides
<1>3. top \in Node /\ g \in Node /\ low \in Node
  BY <1>1
<1> HIDE DEF o
<1>4. Painted(T, top, "BLACK", A)
  BY <1>1, <1>3, PaintParts
<1> HIDE DEF A
<1>5. SameShape(T, A) /\ A \in Tree /\ A.color = [T.color EXCEPT ![top] = "BLACK"]
  BY <1>4 DEF Painted, SameShape
<1>6. Painted(A, g, "RED", B)
  BY <1>3, <1>5, PaintParts
<1> HIDE DEF B
<1>7. SameShape(A, B) /\ B \in Tree /\ B.color = [A.color EXCEPT ![g] = "RED"]
  BY <1>6 DEF Painted, SameShape
<1>8. SameShape(T, B)
  BY <1>5, <1>7 DEF SameShape
<1>9. SearchTree(B, M, D, NULL) /\ B.kid = T.kid /\ B.root = T.root
  BY <1>8, ShapeKept DEF SameShape
<1>10. B.kid[Other(o)][g] # NULL
  BY <1>1, <1>2, <1>9
<1>11. Turned(B, M, o, g, V) /\ SearchTree(V, M, E, NULL)
  BY <1>2, <1>9, <1>10, RotateTree
<1> HIDE DEF V, E
<1> DEFINE in == T.kid[o][top]
           u == T.kid[o][g]
<1>12. /\ V \in Tree /\ V.color = B.color
       /\ V.root = IF T.root = g THEN top ELSE T.root
       /\ V.kid[o][g] = u /\ V.kid[side][g] = in /\ V.kid[o][top] = g /\ V.kid[side][top] = low
       /\ \A a \in M \ {g, top} : \A x \in Side : V.kid[x][a] = IF T.kid[x][a] = g THEN top ELSE T.kid[x][a]
  BY <1>2, <1>9, <1>11 DEF Turned
<1>13. \A a \in M : V.color[a] = IF a = g THEN "RED" ELSE IF a = top THEN "BLACK" ELSE T.color[a]
  <2>1. T.color \in [Node -> {"RED", "BLACK"}]
    BY <1>1, TreeParts
  <2> QED
    BY <1>1, <1>5, <1>7, <1>12, <2>1
<1>14. \A a \in M : \A x \in Side : T.kid[x][a] # NULL =>
         T.kid[x][a] \in M /\ T.parent[T.kid[x][a]] = a /\ T.kid[Other(x)][a] # T.kid[x][a]
  BY <1>1, KidFacts
<1>15. /\ T.parent[top] = g /\ T.parent[low] = top /\ g # top /\ top # low /\ g # low
       /\ in # low /\ u # top
       /\ (in # NULL => in \in M /\ T.parent[in] = top) /\ (u # NULL => u \in M /\ T.parent[u] = g)
  <2>1. T.parent[top] = g /\ T.parent[low] = top /\ in # low /\ u # top
    BY <1>1, <1>14 DEF o
  <2>2. (in # NULL => in \in M /\ T.parent[in] = top) /\ (u # NULL => u \in M /\ T.parent[u] = g)
    BY <1>2, <1>14
  <2>3. g # top /\ top # low /\ g # low
    BY <1>1, KidFacts
  <2> QED
    BY <2>1, <2>2, <2>3
<1>16. in # g /\ in # top /\ u # g /\ u # top /\ top # T.root
  <2>1. u # g /\ in # top
    BY <1>1, <1>2, <1>15, KidFacts
  <2>2. top # T.root
    BY <1>1, KidFacts
  <2>3. in # g
    <3>1. top \in D[top] /\ D[in] \subseteq D[top] /\ g \notin D[top]
      BY <1>1, <1>2, Branches
    <3>2. in # NULL => in \in D[in]
      BY <1>1, <1>15, Branches, Sides
    <3> QED
      BY <1>1, <3>1, <3>2
  <2> QED
    BY <1>15, <2>1, <2>2, <2>3
<1> HIDE DEF in, u
<1>17. /\ h \in [Pointer -> Nat] /\ h[NULL] = 0
       /\ \A a \in M : \A x \in Side : h[a] = h[T.kid[x][a]] + (IF T.color[a] = "BLACK" THEN 1 ELSE 0)
  BY DEF Even
<1>18. i \in [Pointer -> Nat] /\ \A a \in Pointer : i[a] = IF a = g THEN h[top] ELSE IF a = top THEN h[g] ELSE h[a]
  <2>1. top \in Pointer /\ g \in Pointer
    BY <1>3, Nodes
  <2> QED
    BY <1>15, <1>17, <2>1
<1> HIDE DEF i
<1>19. /\ h[g] = h[top] + 1 /\ h[u] = h[top] /\ h[in] = h[top] /\ h[low] = h[top]
       /\ h[top] \in Nat /\ h[g] \in Nat /\ h[u] \in Nat /\ h[in] \in Nat /\ h[low] \in Nat
  <2>1. u \in Pointer /\ in \in Pointer /\ top \in Pointer /\ g \in Pointer /\ low \in Pointer
    BY <1>1, <1>3, <1>15, Nodes
  <2>2. h[g] = h[top] + 1 /\ h[g] = h[u] + 1
    BY <1>2, <1>17 DEF u
  <2>3. h[top] = h[low] + 0 /\ h[top] = h[in] + 0
    BY <1>2, <1>17 DEF in
  <2>4. h[top] \in Nat /\ h[g] \in Nat /\ h[u] \in Nat /\ h[in] \in Nat /\ h[low] \in Nat
    BY <1>17, <2>1
  <2> QED
    BY <2>2, <2>3, <2>4
<1>20. Even(V, M, i)
  <2>1. ASSUME NEW a \in M, NEW x \in Side
        PROVE  i[a] = i[V.kid[x][a]] + (IF V.color[a] = "BLACK" THEN 1 ELSE 0)
    <3>1. CASE a = g
      <4>1. V.kid[x][a] = u \/ V.kid[x][a] = in
        BY <1>2, <1>12, <3>1
      <4>2. i[u] = h[u] /\ i[in] = h[in] /\ i[a] = h[top]
        BY <1>1, <1>3, <1>15, <1>16, <1>18, <3>1, Nodes
      <4> QED
        BY <1>13, <1>19, <3>1, <4>1, <4>2
    <3>2. CASE a = top
      <4>1. V.kid[x][a] = g \/ V.kid[x][a] = low
        BY <1>2, <1>12, <3>2
      <4>2. i[g] = h[top] /\ i[low] = h[low] /\ i[a] = h[g]
        BY <1>3, <1>15, <1>18, <3>2, Nodes
      <4> QED
        BY <1>13, <1>15, <1>19, <3>2, <4>1, <4>2
    <3>3. CASE a # g /\ a # top
      <4> DEFINE k == T.kid[x][a]
      <4>1. k # top /\ k \in Pointer /\ a \in Pointer
        BY <1>1, <1>14, <1>15, <3>3, TreeParts, Nodes
      <4>2. V.kid[x][a] = (IF k = g THEN top ELSE k) /\ V.color[a] = T.color[a]
        BY <1>12, <1>13, <3>3
      <4>3. i[V.kid[x][a]] = h[k] /\ i[a] = h[a]
        <5>1. top \in Pointer
          BY <1>3, Nodes
        <5> HIDE DEF k
        <5> QED
          BY <1>15, <1>18, <3>3, <4>1, <4>2, <5>1
      <4>4. h[a] = h[k] + (IF T.color[a] = "BLACK" THEN 1 ELSE 0)
        BY <1>17
      <4> HIDE DEF k
      <4> QED
        BY <4>2, <4>3, <4>4
    <3> QED
      BY <3>1, <3>2, <3>3
  <2>2. i[NULL] = 0
    BY <1>1, <1>17, <1>18, Nodes
  <2> QED
    BY <1>18, <2>1, <2>2 DEF Even
<1>21. NoRedRed(V, M, NULL)
  <2>1. ASSUME NEW a \in M, NEW x \in Side, V.color[a] = "RED", REDP(V, V.kid[x][a])
        PROVE  FALSE
    <3> DEFINE k == V.kid[x][a]
    <3>1. k # NULL /\ V.color[k] = "RED"
      BY <2>1 DEF REDP
    <3>2. CASE a = g
      <4>1. k = u \/ k = in
        BY <1>2, <1>12, <3>2
      <4>2. k # u
        <5>1. SUFFICES ASSUME k = u PROVE FALSE
          OBVIOUS
        <5>2. u \in M /\ V.color[u] = T.color[u]
          BY <1>13, <1>15, <1>16, <3>1, <5>1
        <5> QED
          BY <3>1, <5>1, <5>2 DEF BLACKP, u, o
      <4>3. k = in /\ in \in M /\ T.color[in] = "RED" /\ T.kid[o][top] = in
        BY <1>13, <1>15, <1>16, <3>1, <4>1, <4>2 DEF in
      <4> QED
        BY <1>2, <1>15, <3>1, <4>3 DEF NoRedRed, REDP
    <3>3. CASE a = top
      BY <1>13, <1>15, <2>1, <3>3
    <3>4. CASE a # g /\ a # top
      <4> DEFINE m == T.kid[x][a]
      <4>1. k = (IF m = g THEN top ELSE m) /\ T.color[a] = "RED"
        BY <1>12, <1>13, <2>1, <3>4
      <4>2. k # top
        BY <1>13, <1>15, <3>1
      <4>3. m # NULL /\ m \in M /\ T.parent[m] = a /\ k = m /\ m # g
        BY <1>14, <3>1, <4>1, <4>2
      <4>4. T.color[m] = "RED"
        BY <1>13, <3>1, <4>2, <4>3
      <4>5. m = low
        BY <4>1, <4>3, <4>4 DEF NoRedRed, REDP
      <4> QED
        BY <1>15, <3>4, <4>3, <4>5
    <3> QED
      BY <3>2, <3>3, <3>4
  <2>2. BLACKP(V, V.root)
    <3>1. BLACKP(T, T.root) /\ (T.root # NULL => T.root \in M)
      BY <1>1 DEF NoRedRed, Hung, Linked
    <3>2. CASE T.root = g
      BY <1>12, <1>13, <1>15, <3>2 DEF BLACKP
    <3>3. CASE T.root # g
      BY <1>12, <1>13, <1>16, <3>1, <3>3 DEF BLACKP
    <3> QED
      BY <3>2, <3>3
  <2> QED
    BY <2>1, <2>2 DEF NoRedRed
<1>22. Balanced(V, M)
  BY <1>11, <1>20, <1>21 DEF Balanced
<1> QED
  BY <1>22 DEF V, B, A, o

\* Case 4: of two red nodes the lower one is turned outwards.
LEMMA InnerOut ==
    ASSUME NEW T, NEW M, NEW D, NEW h, SearchTree(T, M, D, NULL), Even(T, M, h),
           NEW n \in M, NEW p \in M, NEW side \in Side, NoRedRed(T, M, n),
           T.color[n] = "RED", T.color[p] = "RED", T.kid[Other(side)][p] = n, T.root # p, T.root # n
    PROVE  /\ Turned(T, M, side, p, rotate(T, side, p))
           /\ SearchTree(rotate(T, side, p), M, BelowTurned(T, D, side, p), NULL)
           /\ Even(rotate(T, side, p), M, h)
           /\ NoRedRed(rotate(T, side, p), M, p)
<1> DEFINE o == Other(side)
           V == rotate(T, side, p)
           k == T.kid[side][p]
           c == T.kid[side][n]
           d == T.kid[o][n]
<1>1. Hung(T, M, D) /\ T \in Tree /\ M \in SUBSET Node /\ NULL \notin M
  BY Nodes DEF SearchTree, Hung, Linked
<1>2. o \in Side /\ Other(o) = side /\ o # side /\ \A x \in Side : x = side \/ x = o
  BY Sides
<1>3. T.kid[o][p] = n
  OBVIOUS
<1>4. Turned(T, M, side, p, V) /\ SearchTree(V, M, BelowTurned(T, D, side, p), NULL)
  BY <1>1, RotateTree
<1> HIDE DEF V, o
<1>5. /\ V \in Tree /\ V.color = T.color /\ V.root = T.root
      /\ V.kid[side][p] = k /\ V.kid[o][p] = c /\ V.kid[side][n] = p /\ V.kid[o][n] = d
      /\ \A a \in M \ {p, n} : \A x \in Side : V.kid[x][a] = IF T.kid[x][a] = p THEN n ELSE T.kid[x][a]
  BY <1>3, <1>4 DEF Turned, o
<1>6. \A a \in M : \A x \in Side : T.kid[x][a] # NULL =>
        T.kid[x][a] \in M /\ T.parent[T.kid[x][a]] = a /\ T.kid[Other(x)][a] # T.kid[x][a]
  BY <1>1, KidFacts
<1>7. T.parent[n] = p /\ n # p /\ k # n /\ c # n /\ d # n
  <2>1. T.parent[n] = p /\ k # n
    BY <1>1, <1>2, <1>3, <1>6
  <2>2. n # p /\ c # n /\ d # n
    BY <1>1, <1>2, <1>3, KidFacts
  <2> QED
    BY <2>1, <2>2
<1>8. /\ h \in [Pointer -> Nat] /\ h[NULL] = 0
      /\ \A a \in M : \A x \in Side : h[a] = h[T.kid[x][a]] + (IF T.color[a] = "BLACK" THEN 1 ELSE 0)
  BY DEF Even
<1>9. h[p] = h[n] /\ h[p] = h[k] /\ h[n] = h[c] /\ h[n] = h[d]
  <2>1. h[p] = h[n] + 0 /\ h[p] = h[k] + 0 /\ h[n] = h[c] + 0 /\ h[n] = h[d] + 0
    BY <1>2, <1>3, <1>8
  <2>2. n \in Pointer /\ k \in Pointer /\ c \in Pointer /\ d \in Pointer
    BY <1>1, <1>2, TreeParts, Nodes
  <2>3. h[n] \in Nat /\ h[k] \in Nat /\ h[c] \in Nat /\ h[d] \in Nat
    BY <1>8, <2>2
  <2> QED
    BY <2>1, <2>3
<1> HIDE DEF k, c, d
<1>10. Even(V, M, h)
  <2>1. ASSUME NEW a \in M, NEW x \in Side
        PROVE  h[a] = h[V.kid[x][a]] + (IF V.color[a] = "BLACK" THEN 1 ELSE 0)
    <3>1. a \in Pointer /\ h[a] \in Nat
      BY <1>1, <1>8, Nodes
    <3>2. CASE a = p
      <4>1. V.kid[x][a] = k \/ V.kid[x][a] = c
        BY <1>2, <1>5, <3>2
      <4>2. h[V.kid[x][a]] = h[a] /\ V.color[a] = "RED"
        BY <1>5, <1>9, <3>2, <4>1
      <4> QED
        BY <3>1, <4>2
    <3>3. CASE a = n
      <4>1. V.kid[x][a] = p \/ V.kid[x][a] = d
        BY <1>2, <1>5, <3>3
      <4>2. h[V.kid[x][a]] = h[a] /\ V.color[a] = "RED"
        BY <1>5, <1>9, <3>3, <4>1
      <4> QED
        BY <3>1, <4>2
    <3>4. CASE a # p /\ a # n
      <4>1. h[V.kid[x][a]] = h[T.kid[x][a]]
        BY <1>5, <1>9, <3>4
      <4> QED
        BY <1>5, <1>8, <4>1
    <3> QED
      BY <3>2, <3>3, <3>4
  <2> QED
    BY <1>8, <2>1 DEF Even
<1>11. NoRedRed(V, M, p)
  <2>1. ASSUME NEW a \in M, NEW x \in Side, V.color[a] = "RED", REDP(V, V.kid[x][a]), V.kid[x][a] # p
        PROVE  FALSE
    <3> DEFINE m == V.kid[x][a]
    <3>1. m # NULL /\ T.color[m] = "RED" /\ m # p /\ T.color[a] = "RED"
      BY <1>5, <2>1 DEF REDP
    <3>2. \A b \in M : \A y \in Side : T.color[b] = "RED" /\ T.kid[y][b] = m => m = n
      BY <3>1 DEF NoRedRed, REDP
    <3>3. CASE a = p
      <4>1. (m = k /\ T.kid[side][p] = m) \/ (m = c /\ T.kid[side][n] = m)
        BY <1>2, <1>5, <3>3 DEF k, c
      <4> QED
        BY <1>7, <3>2, <4>1
    <3>4. CASE a = n
      <4>1. m = d /\ T.kid[o][n] = m
        BY <1>2, <1>5, <3>1, <3>4 DEF d
      <4> QED
        BY <1>2, <1>7, <3>2, <4>1
    <3>5. CASE a # p /\ a # n
      <4>1. m = IF T.kid[x][a] = p THEN n ELSE T.kid[x][a]
        BY <1>5, <3>5
      <4>2. CASE T.kid[x][a] = p
        <5>1. p # n /\ REDP(T, p)
          BY <1>1, <1>7 DEF REDP
        <5> QED
          BY <3>1, <4>2, <5>1 DEF NoRedRed
      <4>3. CASE T.kid[x][a] # p
        <5>1. T.kid[x][a] = m /\ m = n
          BY <3>1, <3>2, <4>1, <4>3
        <5>2. T.parent[n] = a
          BY <1>6, <3>1, <5>1
        <5> QED
          BY <1>7, <3>5, <5>2
      <4> QED
        BY <4>2, <4>3
    <3> QED
      BY <3>3, <3>4, <3>5
  <2>2. BLACKP(V, V.root)
    BY <1>5 DEF NoRedRed, BLACKP
  <2> QED
    BY <2>1, <2>2 DEF NoRedRed
<1> QED
  BY <1>4, <1>10, <1>11 DEF V

\* Cases 4 and 5 together.
LEMMA StraightenBalanced ==
    ASSUME NEW T, NEW M, NEW D, NEW h, NEW n, Rising(T, M, D, h, n),
           T.parent[n] # NULL, T.color[T.parent[n]] = "RED", ~ RedUncle(T, n)
    PROVE  Balanced(Straighten(T, n), M)
<1> DEFINE p == T.parent[n]
           g == T.parent[p]
           side == SideOf(T, g, p)
           o == Other(side)
<1>1. /\ p \in M /\ p # n /\ g \in M /\ g # p /\ g # n /\ T.color[g] = "BLACK"
      /\ side \in Side /\ T.kid[side][g] = p /\ T.kid[o][g] # p
      /\ \E x \in Side : T.kid[x][p] = n
      /\ T.root # n /\ T.root # p
  BY GrandParent
<1>2. /\ SearchTree(T, M, D, NULL) /\ Even(T, M, h) /\ NoRedRed(T, M, n)
      /\ n \in M /\ T.color[n] = "RED" /\ T.color[p] = "RED"
  BY DEF Rising
<1>3. BLACKP(T, T.kid[o][g])
  <2>1. T \in Tree /\ M \in SUBSET Node /\ p # NULL
    BY <1>2 DEF SearchTree, Hung, Linked
  <2>2. ~ REDP(T, Uncle(T, n)) /\ Uncle(T, n) = T.kid[o][g]
    BY <1>2, <2>1 DEF RedUncle, REDP, Uncle
  <2>3. T.kid[o][g] \in Pointer
    BY <1>1, <2>1, TreeParts, Sides
  <2>4. T.kid[o][g] # NULL => T.color[T.kid[o][g]] \in {"RED", "BLACK"}
    <3>1. T.kid[o][g] # NULL => T.kid[o][g] \in Node
      BY <2>3 DEF Pointer
    <3> QED
      BY <2>1, <3>1, TreeParts
  <2> QED
    BY <2>2, <2>4 DEF REDP, BLACKP
<1>4. o \in Side /\ Other(o) = side /\ \A x \in Side : x = side \/ x = o
  BY <1>1, Sides
<1>5. CASE n = T.kid[o][p]
  <2> DEFINE V == rotate(T, side, p)
             E == BelowTurned(T, D, side, p)
  <2>1. Straighten(T, n) = rotate(Paint(Paint(V, n, "BLACK"), g, "RED"), Other(side), g)
    BY <1>5 DEF Straighten
  <2> HIDE DEF p, g, side
  <2>2. Turned(T, M, side, p, V) /\ SearchTree(V, M, E, NULL) /\ Even(V, M, h) /\ NoRedRed(V, M, p)
    BY <1>1, <1>2, <1>5, InnerOut
  <2> HIDE DEF V, E, o
  <2>3. /\ V.color = T.color /\ V.root = T.root /\ V.kid[side][n] = p
        /\ \A a \in M \ {p, n} : \A x \in Side : V.kid[x][a] = IF T.kid[x][a] = p THEN n ELSE T.kid[x][a]
    <3>1. T.kid[Other(side)][p] = n /\ T.root # p
      BY <1>1, <1>5 DEF o
    <3> QED
      BY <2>2, <3>1 DEF Turned
  <2>4. V.kid[side][g] = n /\ V.kid[o][g] = T.kid[o][g]
    BY <1>1, <1>4, <2>3
  <2>5. BLACKP(V, V.kid[o][g])
    BY <1>3, <2>3, <2>4 DEF BLACKP
  <2>6. Balanced(rotate(Paint(Paint(V, n, "BLACK"), g, "RED"), Other(side), g), M)
    BY <1>1, <1>2, <2>2, <2>3, <2>4, <2>5, TopUp DEF o
  <2> QED
    BY <2>1, <2>6
<1>6. CASE n # T.kid[o][p]
  <2>1. Straighten(T, n) = rotate(Paint(Paint(T, p, "BLACK"), g, "RED"), Other(side), g)
    BY <1>6 DEF Straighten
  <2>2. T.kid[side][p] = n
    BY <1>1, <1>4, <1>6
  <2> HIDE DEF p, g, side
  <2>3. Balanced(rotate(Paint(Paint(T, p, "BLACK"), g, "RED"), Other(side), g), M)
    BY <1>1, <1>2, <1>3, <2>2, TopUp DEF o
  <2> QED
    BY <2>1, <2>3
<1> QED
  BY <1>5, <1>6

\* balance_tree makes a red-black tree of a tree that one red node was added to.
LEMMA BalanceTree ==
    ASSUME NEW T0, NEW M, NEW D, NEW h0, NEW n0, Rising(T0, M, D, h0, n0)
    PROVE  Balanced(balance_tree(T0, n0), M)
<1> DEFINE body == [x \in Tree \X Node |-> IF RedUncle(x[1], x[2]) THEN Recolour(x[1], x[2]) ELSE x]
           s == Iterate(body, <<T0, n0>>)
           State(k) == {x \in Tree \X Node : /\ \E h : Rising(x[1], M, D, h, x[2])
                                             /\ RedUncle(x[1], x[2]) => Size(D, x[2]) > k}
           G == [k \in 0..NKeys |-> State(k)]
<1>1. Hung(T0, M, D) /\ T0 \in Tree /\ M \in SUBSET Node /\ n0 \in M
  BY DEF Rising, SearchTree, Hung, Linked
<1>2. \A n \in M : Size(D, n) \in 0..NKeys /\ Size(D, n) > 0
  BY <1>1, Sizes, Nodes
<1>3. NKeys \in Nat /\ 0 \in 0..NKeys /\ NKeys \in 0..NKeys
  BY Nodes
<1>4. <<T0, n0>> \in G[0]
  <2> DEFINE x == <<T0, n0>>
  <2>1. x \in Tree \X Node /\ x[1] = T0 /\ x[2] = n0
    BY <1>1
  <2>2. x \in State(0)
    <3> HIDE DEF x
    <3> QED
      BY <1>1, <1>2, <2>1
  <2> QED
    BY <1>3, <2>2
<1>5. ASSUME NEW k \in 0..NKeys, NEW x \in G[k], k < NKeys PROVE body[x] \in G[k + 1]
  <2>1. /\ x \in Tree \X Node /\ RedUncle(x[1], x[2]) => Size(D, x[2]) > k
        /\ k + 1 \in 0..NKeys
    BY <1>3, <1>5
  <2>2. PICK h : Rising(x[1], M, D, h, x[2])
    BY <1>5
  <2>3. body[x] \in State(k + 1)
    <3>1. CASE ~ RedUncle(x[1], x[2])
      BY <2>1, <2>2, <3>1
    <3>2. CASE RedUncle(x[1], x[2])
      <4> DEFINE y == Recolour(x[1], x[2])
      <4>1. body[x] = y
        BY <2>1, <3>2
      <4>2. /\ \E i : Rising(y[1], M, D, i, y[2])
            /\ Size(D, x[2]) < Size(D, y[2]) /\ y \in Tree \X Node
        BY <2>2, <3>2, RecolourRises
      <4> HIDE DEF y, body
      <4>3. x[2] \in M /\ y[2] \in M
        BY <2>2, <4>2 DEF Rising
      <4>4. Size(D, y[2]) > k + 1
        <5>1. Size(D, x[2]) \in Nat /\ Size(D, y[2]) \in Nat /\ Size(D, x[2]) > k
          BY <1>2, <2>1, <3>2, <4>3
        <5> QED
          BY <1>3, <4>2, <5>1
      <4> QED
        BY <4>1, <4>2, <4>4
    <3> QED
      BY <3>1, <3>2
  <2> QED
    BY <2>1, <2>3
<1>6. s \in G[NKeys]
  <2> HIDE DEF body, G
  <2> QED
    BY <1>4, <1>5, LoopReaches
<1>7. s \in State(NKeys)
  BY <1>3, <1>6
<1>8. PICK h : Rising(s[1], M, D, h, s[2])
  BY <1>7
<1>9. ~ RedUncle(s[1], s[2])
  <2>1. s[2] \in M
    BY <1>8 DEF Rising
  <2>2. ~(Size(D, s[2]) > NKeys)
    BY <1>2, <1>3, <2>1
  <2> QED
    BY <1>7, <2>2
<1> DEFINE T == s[1]
           n == s[2]
<1>10. balance_tree(T0, n0) = IF T.parent[n] = NULL THEN Paint(T, n, "BLACK")
                              ELSE IF BLACKP(T, T.parent[n]) THEN T ELSE Straighten(T, n)
  BY DEF balance_tree
<1> HIDE DEF s, T, n
<1>11. Rising(T, M, D, h, n) /\ ~ RedUncle(T, n)
  BY <1>8, <1>9 DEF T, n
<1>12. /\ SearchTree(T, M, D, NULL) /\ Even(T, M, h) /\ NoRedRed(T, M, n) /\ n \in M /\ Hung(T, M, D)
       /\ T \in Tree /\ M \in SUBSET Node /\ NULL \notin M /\ T.color[n] = "RED"
  BY <1>11, Nodes DEF Rising, SearchTree, Hung, Linked
<1>13. \A a \in M : \A x \in Side : T.kid[x][a] # NULL => T.kid[x][a] \in M /\ T.parent[T.kid[x][a]] = a
  BY <1>12, KidFacts
<1>14. CASE T.parent[n] = NULL
  <2> DEFINE V == Paint(T, n, "BLACK")
             i == [h EXCEPT ![n] = h[n] + 1]
  <2>1. n = T.root /\ n \in Node
    BY <1>12, <1>14, ParentFacts
  <2>2. Painted(T, n, "BLACK", V)
    BY <1>12, <2>1, PaintParts
  <2> HIDE DEF V
  <2>3. SameShape(T, V) /\ V.color = [T.color EXCEPT ![n] = "BLACK"] /\ V.kid = T.kid /\ V.root = T.root
    BY <2>2 DEF Painted, SameShape
  <2>4. SearchTree(V, M, D, NULL)
    BY <1>12, <2>3, ShapeKept
  <2>5. \A a \in M : V.color[a] = IF a = n THEN "BLACK" ELSE T.color[a]
    <3>1. T.color \in [Node -> {"RED", "BLACK"}]
      BY <1>12, TreeParts
    <3> QED
      BY <1>12, <2>3, <3>1
  <2>6. \A a \in M : \A x \in Side : T.kid[x][a] # n
    BY <1>12, <1>13, <1>14
  <2>7. /\ h \in [Pointer -> Nat] /\ h[NULL] = 0
        /\ \A a \in M : \A x \in Side : h[a] = h[T.kid[x][a]] + (IF T.color[a] = "BLACK" THEN 1 ELSE 0)
    BY <1>12 DEF Even
  <2>8. i \in [Pointer -> Nat] /\ \A a \in Pointer : i[a] = IF a = n THEN h[n] + 1 ELSE h[a]
    <3>1. n \in Pointer
      BY <2>1, Nodes
    <3> QED
      BY <2>7, <3>1
  <2> HIDE DEF i
  <2>9. Even(V, M, i)
    <3>1. ASSUME NEW a \in M, NEW x \in Side
          PROVE  i[a] = i[V.kid[x][a]] + (IF V.color[a] = "BLACK" THEN 1 ELSE 0)
      <4>1. T.kid[x][a] \in Pointer /\ a \in Pointer /\ V.kid[x][a] = T.kid[x][a] /\ T.kid[x][a] # n
        BY <1>12, <2>3, <2>6, TreeParts, Nodes
      <4>2. i[T.kid[x][a]] = h[T.kid[x][a]] /\ h[T.kid[x][a]] \in Nat
        BY <2>7, <2>8, <4>1
      <4>3. h[a] = h[T.kid[x][a]] + (IF T.color[a] = "BLACK" THEN 1 ELSE 0)
        BY <2>7
      <4>4. i[a] = IF a = n THEN h[n] + 1 ELSE h[a]
        BY <2>8, <4>1
      <4>5. CASE a = n
        <5>1. h[a] = h[T.kid[x][a]] + 0 /\ i[a] = h[a] + 1
          BY <1>12, <4>3, <4>4, <4>5
        <5> QED
          BY <2>5, <4>1, <4>2, <4>5, <5>1
      <4>6. CASE a # n
        BY <2>5, <4>1, <4>2, <4>3, <4>4, <4>6
      <4> QED
        BY <4>5, <4>6
    <3>2. i[NULL] = 0
      BY <1>12, <2>7, <2>8, Nodes
    <3> QED
      BY <2>8, <3>1, <3>2 DEF Even
  <2>10. NoRedRed(V, M, NULL)
    <3>1. ASSUME NEW a \in M, NEW x \in Side, V.color[a] = "RED", REDP(V, V.kid[x][a]) PROVE FALSE
      <4>1. T.kid[x][a] # NULL /\ T.kid[x][a] \in M /\ T.kid[x][a] # n /\ V.color[T.kid[x][a]] = "RED"
        BY <1>13, <2>3, <2>6, <3>1 DEF REDP
      <4>2. T.color[a] = "RED" /\ T.color[T.kid[x][a]] = "RED"
        BY <2>5, <3>1, <4>1
      <4> QED
        BY <1>12, <4>1, <4>2 DEF NoRedRed, REDP
    <3>2. BLACKP(V, V.root)
      BY <1>12, <2>1, <2>3, <2>5 DEF BLACKP
    <3> QED
      BY <3>1, <3>2 DEF NoRedRed
  <2>11. Balanced(V, M)
    BY <2>4, <2>9, <2>10 DEF Balanced
  <2> QED
    BY <1>10, <1>14, <2>11 DEF V
<1>15. CASE T.parent[n] # NULL /\ BLACKP(T, T.parent[n])
  <2>1. T.parent[n] \in M /\ n # T.root
    BY <1>12, <1>15, ParentFacts
  <2>2. T.color[T.parent[n]] = "BLACK"
    BY <1>15 DEF BLACKP
  <2>3. NoRedRed(T, M, NULL)
    <3>1. ASSUME NEW a \in M, NEW x \in Side, T.color[a] = "RED", REDP(T, T.kid[x][a]) PROVE FALSE
      <4>1. T.kid[x][a] = n
        BY <1>12, <3>1 DEF NoRedRed
      <4>2. T.parent[n] = a
        BY <1>12, <1>13, <4>1
      <4> QED
        BY <2>2, <3>1, <4>2
    <3>2. BLACKP(T, T.root)
      BY <1>12, <2>1 DEF NoRedRed
    <3> QED
      BY <3>1, <3>2 DEF NoRedRed
  <2>4. Balanced(T, M)
    BY <1>12, <2>3 DEF Balanced
  <2> QED
    BY <1>10, <1>15, <2>4
<1>16. CASE T.parent[n] # NULL /\ ~ BLACKP(T, T.parent[n])
  <2>1. T.parent[n] \in M
    BY <1>12, <1>16, ParentFacts
  <2>2. T.color[T.parent[n]] = "RED"
    BY <1>12, <1>16, <2>1, TreeParts DEF BLACKP
  <2>3. Balanced(Straighten(T, n), M)
    BY <1>11, <1>16, <2>2, StraightenBalanced
  <2> QED
    BY <1>10, <1>16, <2>3
<1> QED
  BY <1>14, <1>15, <1>16

-----------------------------------------------------------------------------
(* A new node.                                                                 *)

\* n gets key k and parent p, and no children.
NodeMade(T, n, p, k, U) ==
    /\ U \in Tree /\ U.root = T.root
    /\ U.key = [T.key EXCEPT ![n] = k] /\ U.color = [T.color EXCEPT ![n] = "RED"]
    /\ U.parent = [T.parent EXCEPT ![n] = p]
    /\ \A x \in Side : \A a \in Node : U.kid[x][a] = IF a = n THEN NULL ELSE T.kid[x][a]

\* The same apart from the children.
Remade(T, n, K, P) == [T EXCEPT !.key = K, !.color = [T.color EXCEPT ![n] = "RED"], !.parent = P]

\* That is what new_node and clear_node do.
LEMMA ChildlessParts ==
    ASSUME NEW T \in Tree, NEW n \in Node, NEW p \in Pointer, NEW k \in Key
    PROVE  /\ NodeMade(T, n, p, k, new_node(T, n, p, k))
           /\ NodeMade(T, n, NULL, T.key[n], clear_node(T, n))
<1>1. ASSUME NEW A \in Tree
      PROVE  LET B == SetKid(SetKid(A, "left", n, NULL), "right", n, NULL)
             IN  /\ B \in Tree /\ B.root = A.root /\ B.key = A.key /\ B.color = A.color /\ B.parent = A.parent
                 /\ \A x \in Side : \A a \in Node : B.kid[x][a] = IF a = n THEN NULL ELSE A.kid[x][a]
  <2> DEFINE C == SetKid(A, "left", n, NULL)
             B == SetKid(C, "right", n, NULL)
  <2>1. "left" \in Side /\ "right" \in Side /\ NULL \in Pointer
    BY Nodes DEF Side
  <2>2. KidSet(A, "left", n, NULL, C)
    BY <2>1, KidParts
  <2> HIDE DEF C
  <2>3. /\ C \in Tree /\ C.color = A.color /\ C.key = A.key /\ C.root = A.root /\ C.parent = A.parent
        /\ \A y \in Side : \A m \in Node : C.kid[y][m] = IF y = "left" /\ m = n THEN NULL ELSE A.kid[y][m]
    BY <2>2 DEF KidSet
  <2>4. KidSet(C, "right", n, NULL, B)
    BY <2>1, <2>3, KidParts
  <2> HIDE DEF B
  <2>5. /\ B \in Tree /\ B.color = C.color /\ B.key = C.key /\ B.root = C.root /\ B.parent = C.parent
        /\ \A y \in Side : \A m \in Node : B.kid[y][m] = IF y = "right" /\ m = n THEN NULL ELSE C.kid[y][m]
    BY <2>4 DEF KidSet
  <2>6. ASSUME NEW x \in Side, NEW a \in Node PROVE B.kid[x][a] = IF a = n THEN NULL ELSE A.kid[x][a]
    <3>1. x = "left" \/ x = "right"
      BY DEF Side
    <3> QED
      BY <2>3, <2>5, <3>1
  <2>7. B \in Tree /\ B.root = A.root /\ B.key = A.key /\ B.color = A.color /\ B.parent = A.parent
    BY <2>3, <2>5
  <2> QED
    BY <2>6, <2>7 DEF B, C
<1>2. /\ T.key \in [Node -> Key] /\ T.color \in [Node -> {"RED", "BLACK"}] /\ T.parent \in [Node -> Pointer]
      /\ NULL \in Pointer
  BY TreeParts, Nodes
<1>3. ASSUME NEW K \in [Node -> Key], NEW P \in [Node -> Pointer]
      PROVE  LET A == Remade(T, n, K, P)
             IN  /\ A \in Tree /\ A.key = K /\ A.parent = P /\ A.color = [T.color EXCEPT ![n] = "RED"]
                 /\ A.root = T.root /\ A.kid = T.kid
  <2> DEFINE C == [T.color EXCEPT ![n] = "RED"]
  <2>1. C \in [Node -> {"RED", "BLACK"}]
    BY <1>2
  <2> HIDE DEF C
  <2> DEFINE A == [T EXCEPT !.key = K, !.color = C, !.parent = P]
  <2>2. A \in Tree /\ A.key = K /\ A.parent = P /\ A.color = C /\ A.root = T.root /\ A.kid = T.kid
    BY <2>1 DEF Tree
  <2>3. Remade(T, n, K, P) = A
    BY DEF C, Remade
  <2> HIDE DEF A
  <2> QED
    BY <2>2, <2>3 DEF C
<1>4. NodeMade(T, n, p, k, new_node(T, n, p, k))
  <2> DEFINE K == [T.key EXCEPT ![n] = k]
             P == [T.parent EXCEPT ![n] = p]
             A == Remade(T, n, K, P)
             B == SetKid(SetKid(A, "left", n, NULL), "right", n, NULL)
  <2>1. K \in [Node -> Key] /\ P \in [Node -> Pointer]
    BY <1>2
  <2>2. new_node(T, n, p, k) = B
    BY DEF new_node, SetKid, Remade
  <2>3. K = [T.key EXCEPT ![n] = k] /\ P = [T.parent EXCEPT ![n] = p]
    OBVIOUS
  <2> HIDE DEF K, P
  <2>4. /\ A \in Tree /\ A.key = K /\ A.parent = P /\ A.color = [T.color EXCEPT ![n] = "RED"]
        /\ A.root = T.root /\ A.kid = T.kid
    BY ONLY <1>3, <2>1
  <2> HIDE DEF A
  <2>5. /\ B \in Tree /\ B.root = A.root /\ B.key = A.key /\ B.color = A.color /\ B.parent = A.parent
        /\ \A x \in Side : \A a \in Node : B.kid[x][a] = IF a = n THEN NULL ELSE A.kid[x][a]
    BY <1>1, <2>4
  <2> HIDE DEF B
  <2> QED
    BY <2>2, <2>3, <2>4, <2>5 DEF NodeMade
<1>5. NodeMade(T, n, NULL, T.key[n], clear_node(T, n))
  <2> DEFINE K == T.key
             P == [T.parent EXCEPT ![n] = NULL]
             A == Remade(T, n, K, P)
             B == SetKid(SetKid(A, "left", n, NULL), "right", n, NULL)
  <2>1. K \in [Node -> Key] /\ P \in [Node -> Pointer]
    BY <1>2
  <2> DEFINE Q == [T EXCEPT !.color = [T.color EXCEPT ![n] = "RED"], !.parent = P]
  <2>2. A = Q
    BY DEF Tree, Remade
  <2>3. clear_node(T, n) = SetKid(SetKid(Q, "left", n, NULL), "right", n, NULL)
    BY DEF clear_node, SetKid
  <2>4. clear_node(T, n) = B
    <3> HIDE DEF A, Q
    <3> QED
      BY <2>2, <2>3
  <2>7. K = [T.key EXCEPT ![n] = T.key[n]] /\ P = [T.parent EXCEPT ![n] = NULL]
    BY <1>2
  <2> HIDE DEF K, P
  <2>5. /\ A \in Tree /\ A.key = K /\ A.parent = P /\ A.color = [T.color EXCEPT ![n] = "RED"]
        /\ A.root = T.root /\ A.kid = T.kid
    BY ONLY <1>3, <2>1
  <2> HIDE DEF A
  <2>6. /\ B \in Tree /\ B.root = A.root /\ B.key = A.key /\ B.color = A.color /\ B.parent = A.parent
        /\ \A x \in Side : \A a \in Node : B.kid[x][a] = IF a = n THEN NULL ELSE A.kid[x][a]
    BY <1>1, <2>5
  <2> HIDE DEF B
  <2> QED
    BY <2>4, <2>5, <2>6, <2>7 DEF NodeMade
<1> QED
  BY <1>4, <1>5

-----------------------------------------------------------------------------
(* The way down to a key.                                                      *)

\* The key k is below a, or would be if it were in the tree.
Fits(T, M, D, k, a) ==
    /\ a \in M
    /\ k \in M => k \in D[a]
    /\ \A b \in M : \A x \in Side : a \in D[T.kid[x][b]] => Sided(x, b, k)

Down(T, a, k) == T.kid[TowardsKey(T, a, k)][a]

\* Where the search for a key goes on.
LEMMA DownFits ==
    ASSUME NEW T, NEW M, NEW D, NEW z, SearchTree(T, M, D, z), NEW k \in Key, NEW a, Fits(T, M, D, k, a), a # k
    PROVE  /\ Sided(TowardsKey(T, a, k), a, k) /\ TowardsKey(T, a, k) \in Side
           /\ Down(T, a, k) # NULL => Fits(T, M, D, k, Down(T, a, k))
           /\ Down(T, a, k) = NULL => k \notin M
<1> DEFINE t == TowardsKey(T, a, k)
           c == Down(T, a, k)
<1>1. /\ Hung(T, M, D) /\ a \in M /\ a \in Node /\ a \in Int /\ k \in Int /\ M \in SUBSET Node /\ T.key[a] = a
      /\ Sorted(T, M, D) /\ D[NULL] = {} /\ NULL \notin M
  <2>1. Linked(T, M) /\ Branching(T, M, D) /\ Hung(T, M, D) /\ Sorted(T, M, D) /\ Keyed(T)
    BY DEF SearchTree, Hung
  <2>2. M \in SUBSET Node /\ D[NULL] = {} /\ a \in M
    BY <2>1 DEF Linked, Branching, Fits
  <2>3. a \in Node /\ a \in Int /\ k \in Int /\ NULL \notin M
    <3>1. Node \subseteq Int /\ Key = Node /\ NULL \notin Node
      BY Nodes
    <3> QED
      BY <2>2, <3>1
  <2>4. T.key[a] = a
    BY <2>1, <2>3 DEF Keyed
  <2> QED
    BY <2>1, <2>2, <2>3, <2>4
<1>2. t \in Side /\ Sided(t, a, k)
  <2>1. CASE a < k
    BY <1>1, <2>1 DEF TowardsKey, Side, Sided
  <2>2. CASE k < a
    BY <1>1, <2>2 DEF TowardsKey, Side, Sided
  <2> QED
    BY <1>1, <2>1, <2>2
<1>3. \A x \in Side : Sided(x, a, k) => x = t
  BY <1>1, <1>2 DEF Sided, Side
<1>4. c = T.kid[t][a]
  BY DEF Down
<1> HIDE DEF t, c
<1>5. k \in M => k \in D[c]
  <2>1. SUFFICES ASSUME k \in M PROVE k \in D[c]
    OBVIOUS
  <2>2. k \in D[a] /\ D[a] = {a} \cup D[T.kid[t][a]] \cup D[T.kid[Other(t)][a]]
    BY <1>1, <1>2, <2>1, Branches DEF Fits
  <2>3. k \notin D[T.kid[Other(t)][a]]
    BY <1>1, <1>2, <1>3, Sides DEF Sorted
  <2> QED
    BY <1>4, <2>2, <2>3
<1>6. ASSUME c # NULL PROVE Fits(T, M, D, k, c)
  <2>1. c \in M /\ T.parent[c] = a
    BY <1>1, <1>2, <1>4, <1>6, KidFacts
  <2>2. ASSUME NEW b \in M, NEW x \in Side, c \in D[T.kid[x][b]] PROVE Sided(x, b, k)
    <3>1. T.kid[x][b] # NULL
      BY <1>1, <2>2
    <3>2. T.kid[x][b] \in M /\ T.parent[T.kid[x][b]] = b /\ b \in Pointer
      BY <1>1, <3>1, KidFacts, Nodes
    <3>3. CASE b = a
      <4>1. x = t
        <5>1. c \in D[c]
          BY <1>1, <2>1, Branches, Sides
        <5>2. D[T.kid[t][a]] \cap D[T.kid[Other(t)][a]] = {}
          BY <1>1, <1>2, Branches
        <5> QED
          BY <1>2, <1>4, <2>2, <3>3, <5>1, <5>2, Sides
      <4> QED
        BY <1>2, <3>3, <4>1
    <3>4. CASE b # a
      <4>1. c # T.kid[x][b]
        BY <2>1, <3>2, <3>4
      <4>2. a \in D[T.kid[x][b]]
        BY <1>1, <2>1, <2>2, <3>2, <4>1, UpBelow
      <4> QED
        BY <4>2 DEF Fits
    <3> QED
      BY <3>3, <3>4
  <2> QED
    BY <1>5, <2>1, <2>2 DEF Fits
<1>7. c = NULL => k \notin M
  BY <1>1, <1>5
<1> QED
  BY <1>2, <1>6, <1>7 DEF t, c

\* A search ends at the node of the key, or where it would be hung.
LEMMA DescendFits ==
    ASSUME NEW T, NEW M, NEW D, NEW z, SearchTree(T, M, D, z), NEW k \in Key, T.root # NULL
    PROVE  LET e == Descend(T, T.root, k)
           IN  Fits(T, M, D, k, e) /\ (e = k <=> k \in M) /\ (e # k => Down(T, e, k) = NULL)
<1> DEFINE body == [m \in Node |-> LET down == T.kid[TowardsKey(T, m, k)][m]
                                   IN  IF T.key[m] = k \/ down = NULL THEN m ELSE down]
           Done(a) == a = k \/ Down(T, a, k) = NULL
           At(i) == {a \in M : Fits(T, M, D, k, a) /\ (~ Done(a) => Size(D, a) + i <= NKeys)}
           G == [i \in 0..NKeys |-> At(i)]
           e == Descend(T, T.root, k)
<1>1. /\ Hung(T, M, D) /\ T.root \in M /\ M \in SUBSET Node /\ Keyed(T) /\ D[T.root] = M /\ NULL \notin M
      /\ Branching(T, M, D)
  BY Nodes DEF SearchTree, Hung, Linked, Branching
<1>2. NKeys \in Nat /\ 0 \in 0..NKeys /\ NKeys \in 0..NKeys
  BY Nodes
<1>3. \A a \in M : Size(D, a) \in 0..NKeys /\ Size(D, a) > 0
  BY <1>1, Sizes, Nodes
<1>4. T.root \in G[0]
  <2>1. ASSUME NEW b \in M, NEW x \in Side, T.root \in D[T.kid[x][b]] PROVE FALSE
    <3>1. T.kid[x][b] # NULL
      BY <1>1, <2>1 DEF Branching
    <3>2. D[T.root] \subseteq D[T.kid[x][b]]
      BY <1>1, <2>1, <3>1, KidFacts, Nested
    <3>3. b \notin D[T.kid[x][b]]
      BY <1>1, Branches
    <3> QED
      BY <1>1, <3>2, <3>3
  <2>2. Fits(T, M, D, k, T.root)
    BY <1>1, <2>1 DEF Fits
  <2>3. Size(D, T.root) + 0 <= NKeys
    BY <1>1, <1>2, <1>3
  <2> HIDE DEF Done
  <2> QED
    BY <1>1, <1>2, <2>2, <2>3
<1>5. ASSUME NEW i \in 0..NKeys, NEW a \in G[i], i < NKeys PROVE body[a] \in G[i + 1]
  <2>1. a \in M /\ a \in Node /\ T.key[a] = a /\ Fits(T, M, D, k, a) /\ i + 1 \in 0..NKeys
    BY <1>1, <1>2, <1>5 DEF Keyed
  <2>2. body[a] = IF Done(a) THEN a ELSE Down(T, a, k)
    BY <2>1 DEF Down
  <2>3. CASE Done(a)
    BY <1>5, <2>1, <2>2, <2>3
  <2>4. CASE ~ Done(a)
    <3> DEFINE c == Down(T, a, k)
    <3>1. a # k /\ c # NULL /\ Size(D, a) + i <= NKeys
      BY <1>5, <2>4
    <3>2. Fits(T, M, D, k, c) /\ TowardsKey(T, a, k) \in Side
      BY <2>1, <3>1, DownFits
    <3>3. c \in M /\ Size(D, c) < Size(D, a)
      <4>1. c \in M
        BY <3>2 DEF Fits
      <4>2. c = T.kid[TowardsKey(T, a, k)][a]
        BY DEF Down
      <4> HIDE DEF c
      <4> QED
        BY <1>1, <2>1, <3>2, <4>1, <4>2, Sizes
    <3> HIDE DEF c
    <3>4. Size(D, c) + (i + 1) <= NKeys
      BY <1>2, <1>3, <2>1, <3>1, <3>3
    <3>5. body[a] = c
      <4> HIDE DEF body, Done
      <4> QED
        BY <2>2, <2>4 DEF c
    <3> HIDE DEF body, Done
    <3> QED
      BY <2>1, <3>2, <3>3, <3>4, <3>5
  <2> QED
    BY <2>3, <2>4
<1>6. e \in At(NKeys)
  <2>1. e = Iterate(body, T.root)
    BY DEF Descend
  <2>2. e \in G[NKeys]
    <3> HIDE DEF body, G, e
    <3> QED
      BY <1>4, <1>5, <2>1, LoopReaches
  <2> QED
    BY <1>2, <2>2
<1> HIDE DEF e
<1>7. e \in M /\ Fits(T, M, D, k, e) /\ Done(e)
  BY <1>2, <1>3, <1>6
<1>8. e # k => Down(T, e, k) = NULL /\ k \notin M
  BY <1>7, DownFits
<1> QED
  BY <1>7, <1>8 DEF e


-----------------------------------------------------------------------------
(* Hanging a new node on the tree.                                             *)

\* The tree with a new node k on the side t of e.
Hooked(T, M, e, t, k, U) ==
    /\ U \in Tree /\ U.root = T.root /\ U.key = T.key
    /\ \A a \in Node : U.color[a] = IF a = k THEN "RED" ELSE T.color[a]
    /\ \A a \in Node : U.parent[a] = IF a = k THEN e ELSE T.parent[a]
    /\ \A x \in Side : \A a \in Node :
         U.kid[x][a] = IF a = e /\ x = t THEN k ELSE IF a = k THEN NULL ELSE T.kid[x][a]

\* That is what Create does before it balances.
LEMMA HookParts ==
    ASSUME NEW T \in Tree, Keyed(T), NEW M, NEW e \in Node, NEW t \in Side, NEW k \in Node, e # k
    PROVE  Hooked(T, M, e, t, k, [new_node(T, k, e, k) EXCEPT !.kid[t][e] = k])
<1> DEFINE V == new_node(T, k, e, k)
           U == [V EXCEPT !.kid[t][e] = k]
<1>1. k \in Key /\ e \in Pointer /\ k \in Pointer
  BY Nodes
<1>2. NodeMade(T, k, e, k, V)
  BY <1>1, ChildlessParts
<1> HIDE DEF V
<1>3. /\ V \in Tree /\ V.root = T.root
      /\ V.key = [T.key EXCEPT ![k] = k] /\ V.color = [T.color EXCEPT ![k] = "RED"]
      /\ V.parent = [T.parent EXCEPT ![k] = e]
      /\ \A x \in Side : \A a \in Node : V.kid[x][a] = IF a = k THEN NULL ELSE T.kid[x][a]
  BY <1>2 DEF NodeMade
<1>4. KidSet(V, t, e, k, U)
  <2>1. KidSet(V, t, e, k, SetKid(V, t, e, k))
    BY <1>1, <1>3, KidParts
  <2> QED
    BY <2>1 DEF SetKid
<1> HIDE DEF U
<1>5. /\ U \in Tree /\ U.color = V.color /\ U.key = V.key /\ U.root = V.root /\ U.parent = V.parent
      /\ \A y \in Side : \A m \in Node : U.kid[y][m] = IF y = t /\ m = e THEN k ELSE V.kid[y][m]
  BY <1>4 DEF KidSet
<1>6. /\ T.key \in [Node -> Key] /\ T.color \in [Node -> {"RED", "BLACK"}] /\ T.parent \in [Node -> Pointer]
  BY TreeParts
<1>7. V.key = T.key
  <2>1. T.key = [n \in Node |-> n]
    BY DEF Keyed
  <2> QED
    BY <1>3, <2>1
<1>8. \A a \in Node : U.color[a] = IF a = k THEN "RED" ELSE T.color[a]
  BY <1>3, <1>5, <1>6
<1>9. \A a \in Node : U.parent[a] = IF a = k THEN e ELSE T.parent[a]
  BY <1>3, <1>5, <1>6
<1>10. ASSUME NEW x \in Side, NEW a \in Node
       PROVE  U.kid[x][a] = IF a = e /\ x = t THEN k ELSE IF a = k THEN NULL ELSE T.kid[x][a]
  BY <1>3, <1>5
<1>11. Hooked(T, M, e, t, k, U)
  BY <1>3, <1>5, <1>7, <1>8, <1>9, <1>10 DEF Hooked
<1> QED
  BY <1>11 DEF U, V

\* What is below each node then.
BelowHooked(D, e, k) ==
    [a \in Pointer |-> IF a = k THEN {k} ELSE IF e \in D[a] THEN D[a] \cup {k} ELSE D[a]]

\* It is a search tree again.
LEMMA HookedTree ==
    ASSUME NEW T, NEW M, NEW D, SearchTree(T, M, D, NULL), NEW e, NEW k \in Node, k \notin M,
           Fits(T, M, D, k, e), NEW t \in Side, T.kid[t][e] = NULL, Sided(t, e, k),
           NEW U, Hooked(T, M, e, t, k, U)
    PROVE  SearchTree(U, M \cup {k}, BelowHooked(D, e, k), NULL)
<1> DEFINE N == M \cup {k}
           E == BelowHooked(D, e, k)
<1>1. /\ Hung(T, M, D) /\ T \in Tree /\ M \in SUBSET Node /\ NULL \notin M /\ e \in M /\ e # k
      /\ D \in [Pointer -> SUBSET M] /\ D[NULL] = {} /\ D[T.root] = M
      /\ Sorted(T, M, D) /\ Keyed(T) /\ Cleared(T, M, NULL)
  <2>1. Hung(T, M, D) /\ Linked(T, M) /\ Branching(T, M, D) /\ e \in M /\ Sorted(T, M, D) /\ Keyed(T) /\ Cleared(T, M, NULL)
    BY DEF SearchTree, Hung, Fits
  <2> QED
    BY <2>1, Nodes DEF Linked, Branching
<1>2. T.root # NULL /\ T.root \in M /\ T.parent[T.root] = NULL
  BY <1>1 DEF Hung, Linked
<1>3. /\ U \in Tree /\ U.root = T.root /\ U.key = T.key
      /\ \A a \in Node : U.parent[a] = IF a = k THEN e ELSE T.parent[a]
      /\ \A x \in Side : \A a \in Node :
           U.kid[x][a] = IF a = e /\ x = t THEN k ELSE IF a = k THEN NULL ELSE T.kid[x][a]
  BY DEF Hooked
<1>4. /\ U.kid[t][e] = k /\ \A x \in Side : U.kid[x][k] = NULL
      /\ \A a \in M : \A x \in Side : ~(a = e /\ x = t) => U.kid[x][a] = T.kid[x][a]
      /\ \A a \in M : U.parent[a] = T.parent[a]
      /\ U.parent[k] = e
  BY <1>1, <1>3
<1>5. \A a \in M : \A x \in Side : T.kid[x][a] # NULL =>
         T.kid[x][a] \in M /\ T.parent[T.kid[x][a]] = a /\ T.kid[Other(x)][a] # T.kid[x][a]
  BY <1>1, KidFacts
<1>6. k # NULL /\ N \in SUBSET Node /\ \A x \in Side : x = t \/ x = Other(t)
  BY <1>1, Nodes, Sides
<1>7. Linked(U, N)
  <2>1. ASSUME NEW n \in N, NEW x \in Side, U.kid[x][n] # NULL
        PROVE  U.kid[x][n] \in N /\ U.parent[U.kid[x][n]] = n /\ U.kid[Other(x)][n] # U.kid[x][n]
    <3>1. n \in M
      BY <1>4, <2>1
    <3>2. CASE n = e /\ x = t
      <4>1. U.kid[Other(x)][n] = T.kid[Other(x)][n]
        BY <1>4, <3>1, <3>2, Sides
      <4>2. T.kid[Other(x)][n] # k
        BY <1>5, <1>6, <3>1, Sides
      <4> QED
        BY <1>4, <3>2, <4>1, <4>2
    <3>3. CASE ~(n = e /\ x = t)
      <4>1. U.kid[x][n] = T.kid[x][n]
        BY <1>4, <3>1, <3>3
      <4>2. T.kid[x][n] \in M /\ T.parent[T.kid[x][n]] = n /\ T.kid[Other(x)][n] # T.kid[x][n]
        BY <1>5, <2>1, <3>1, <4>1
      <4>3. U.kid[Other(x)][n] = k \/ U.kid[Other(x)][n] = T.kid[Other(x)][n]
        BY <1>4, <3>1, Sides
      <4> QED
        BY <1>4, <4>1, <4>2, <4>3
    <3> QED
      BY <3>2, <3>3
  <2>2. ASSUME NEW n \in N, n # U.root PROVE U.parent[n] \in N /\ \E x \in Side : U.kid[x][U.parent[n]] = n
    <3>1. CASE n = k
      BY <1>1, <1>4, <3>1
    <3>2. CASE n # k
      <4>1. n \in M /\ n # T.root /\ U.parent[n] = T.parent[n] /\ n # NULL
        BY <1>1, <1>3, <1>4, <2>2, <3>2
      <4>2. PICK x \in Side : T.parent[n] \in M /\ T.kid[x][T.parent[n]] = n
        BY <1>1, <4>1 DEF Hung, Linked
      <4>3. ~(T.parent[n] = e /\ x = t)
        BY <4>1, <4>2
      <4> QED
        BY <1>4, <4>1, <4>2, <4>3
    <3> QED
      BY <3>1, <3>2
  <2>3. U.root # NULL => U.root \in N /\ U.parent[U.root] = NULL
    BY <1>2, <1>3, <1>4
  <2> QED
    BY <1>3, <1>6, <2>1, <2>2, <2>3 DEF Linked
<1>8. /\ E \in [Pointer -> SUBSET N] /\ E[k] = {k} /\ E[NULL] = {}
      /\ \A a \in Pointer \ {k} : E[a] = IF e \in D[a] THEN D[a] \cup {k} ELSE D[a]
  <2>1. k \in Pointer /\ NULL \in Pointer
    BY Nodes
  <2>2. ASSUME NEW a \in Pointer PROVE E[a] = IF a = k THEN {k} ELSE IF e \in D[a] THEN D[a] \cup {k} ELSE D[a]
    BY DEF BelowHooked
  <2>3. E = [a \in Pointer |-> E[a]]
    BY DEF BelowHooked
  <2> HIDE DEF E
  <2>4. ASSUME NEW a \in Pointer PROVE E[a] \in SUBSET N
    BY <1>1, <2>2
  <2>5. E \in [Pointer -> SUBSET N]
    BY <2>3, <2>4
  <2> QED
    BY <1>1, <1>6, <2>1, <2>2, <2>5
<1> HIDE DEF E
<1>9. ASSUME NEW a \in M, NEW x \in Side
      PROVE  /\ T.kid[x][a] \in Pointer \ {k}
             /\ E[U.kid[x][a]] = IF a = e /\ x = t THEN {k}
                                 ELSE IF e \in D[T.kid[x][a]] THEN D[T.kid[x][a]] \cup {k} ELSE D[T.kid[x][a]]
  <2>1. T.kid[x][a] \in Pointer \ {k}
    BY <1>1, <1>5, <1>6, TreeParts
  <2>2. CASE a = e /\ x = t
    BY <1>4, <1>8, <2>1, <2>2
  <2>3. CASE ~(a = e /\ x = t)
    BY <1>4, <1>8, <2>1, <2>3
  <2> QED
    BY <2>2, <2>3
<1>10. ASSUME NEW a \in M
       PROVE  LET L == E[U.kid[t][a]]
                  R == E[U.kid[Other(t)][a]]
              IN  E[a] = {a} \cup L \cup R /\ a \notin L /\ a \notin R /\ L \cap R = {}
  <2> DEFINE l == D[T.kid[t][a]]
             r == D[T.kid[Other(t)][a]]
             L == E[U.kid[t][a]]
             R == E[U.kid[Other(t)][a]]
  <2>1. D[a] = {a} \cup l \cup r /\ l \cap r = {} /\ a \notin l /\ a \notin r /\ a \in Pointer /\ l \subseteq M /\ r \subseteq M
    <3>1. D[a] = {a} \cup l \cup r /\ l \cap r = {} /\ a \notin l /\ a \notin r /\ a \in Pointer /\ D[a] \subseteq M
      BY <1>1, Branches
    <3> QED
      BY <3>1
  <2>2. /\ L = IF a = e THEN {k} ELSE IF e \in l THEN l \cup {k} ELSE l
        /\ R = IF e \in r THEN r \cup {k} ELSE r
    <3>1. Other(t) \in Side /\ Other(t) # t
      BY Sides
    <3> QED
      BY <1>9, <3>1
  <2>3. E[a] = IF e \in D[a] THEN D[a] \cup {k} ELSE D[a]
    BY <1>8, <2>1
  <2>4. a = e => l = {}
    BY <1>1
  <2>5. a # k /\ k \notin l /\ k \notin r
    BY <2>1
  <2> HIDE DEF l, r, L, R
  <2>6. E[a] = {a} \cup L \cup R /\ a \notin L /\ a \notin R /\ L \cap R = {}
    <3>1. CASE a = e
      <4>1. e \notin r /\ e \in D[a] /\ L = {k} /\ R = r
        BY <2>1, <2>2, <3>1
      <4> QED
        BY <2>1, <2>3, <2>4, <2>5, <3>1, <4>1
    <3>2. CASE a # e /\ e \in l
      <4>1. e \notin r /\ e \in D[a] /\ L = l \cup {k} /\ R = r
        BY <2>1, <2>2, <3>2
      <4> QED
        BY <2>1, <2>3, <2>5, <4>1
    <3>3. CASE a # e /\ e \in r
      <4>1. e \notin l /\ e \in D[a] /\ L = l /\ R = r \cup {k}
        BY <2>1, <2>2, <3>3
      <4> QED
        BY <2>1, <2>3, <2>5, <4>1
    <3>4. CASE a # e /\ e \notin l /\ e \notin r
      BY <2>1, <2>2, <2>3, <3>4
    <3> QED
      BY <3>1, <3>2, <3>3, <3>4
  <2> QED
    BY <2>6 DEF L, R
<1>11. Branching(U, N, E)
  <2>1. (t = "left" /\ Other(t) = "right") \/ (t = "right" /\ Other(t) = "left")
    <3>1. t = "left" \/ t = "right"
      BY DEF Side
    <3> QED
      BY <3>1, Sides
  <2>2. ASSUME NEW a \in N
        PROVE  LET L == E[U.kid["left"][a]]
                   R == E[U.kid["right"][a]]
               IN  E[a] = {a} \cup L \cup R /\ a \notin L /\ a \notin R /\ L \cap R = {}
    <3>1. CASE a = k
      BY <1>4, <1>8, <3>1, Sides
    <3>2. CASE a # k
      <4> DEFINE L == E[U.kid["left"][a]]
                 R == E[U.kid["right"][a]]
                 L1 == E[U.kid[t][a]]
                 R1 == E[U.kid[Other(t)][a]]
      <4>1. E[a] = {a} \cup L1 \cup R1 /\ a \notin L1 /\ a \notin R1 /\ L1 \cap R1 = {}
        BY <1>10, <3>2
      <4>2. (L1 = L /\ R1 = R) \/ (L1 = R /\ R1 = L)
        BY <2>1
      <4> HIDE DEF L, R, L1, R1
      <4>3. E[a] = {a} \cup L \cup R /\ a \notin L /\ a \notin R /\ L \cap R = {}
        BY <4>1, <4>2
      <4> QED
        BY <4>3 DEF L, R
    <3> QED
      BY <3>1, <3>2
  <2>3. E[U.root] = N
    <3>1. T.root \in Pointer \ {k}
      BY <1>1, <1>2, Nodes
    <3> QED
      BY <1>1, <1>3, <1>8, <3>1
  <2>4. \A a \in N : \A x \in Side : a \notin E[U.kid[x][a]]
    BY <2>2 DEF Side
  <2> QED
    BY <1>8, <2>2, <2>3, <2>4 DEF Branching
<1>12. Sorted(U, N, E)
  <2>1. SUFFICES ASSUME NEW n \in N, NEW x \in Side, NEW m \in E[U.kid[x][n]] PROVE Sided(x, n, m)
    BY DEF Sorted
  <2>2. n \in M
    BY <1>4, <1>8, <2>1
  <2> DEFINE F == E[U.kid[x][n]]
             d == D[T.kid[x][n]]
  <2>6. m \in F /\ F = IF n = e /\ x = t THEN {k} ELSE IF e \in d THEN d \cup {k} ELSE d
    BY <1>9, <2>1, <2>2
  <2> HIDE DEF F, d
  <2>3. CASE n = e /\ x = t
    BY <2>3, <2>6
  <2>4. CASE m \in D[T.kid[x][n]]
    BY <1>1, <2>2, <2>4 DEF Sorted
  <2>5. CASE m \notin D[T.kid[x][n]] /\ ~(n = e /\ x = t)
    <3>1. m = k /\ e \in D[T.kid[x][n]]
      BY <2>5, <2>6 DEF d
    <3> QED
      BY <2>2, <3>1 DEF Fits
  <2> QED
    BY <2>3, <2>4, <2>5
<1>13. Cleared(U, N, NULL)
  <2>1. ASSUME NEW n \in Node \ N PROVE node_cleared_p(U, n)
    <3>1. node_cleared_p(T, n) /\ n # k /\ n # e /\ n # NULL
      BY <1>1, <2>1, Nodes DEF Cleared
    <3>2. U.parent[n] = T.parent[n] /\ \A x \in Side : U.kid[x][n] = T.kid[x][n]
      BY <1>3, <2>1, <3>1
    <3> QED
      BY <3>1, <3>2 DEF node_cleared_p
  <2> QED
    BY <2>1 DEF Cleared
<1>14. Keyed(U)
  BY <1>1, <1>3 DEF Keyed
<1> QED
  BY <1>7, <1>11, <1>12, <1>13, <1>14 DEF SearchTree, Hung, E

\* A red leaf disturbs only its parent.
LEMMA HookedRises ==
    ASSUME NEW T, NEW M, NEW D, NEW h, SearchTree(T, M, D, NULL), Even(T, M, h), NoRedRed(T, M, NULL),
           NEW e, NEW k \in Node, k \notin M, Fits(T, M, D, k, e), NEW t \in Side, T.kid[t][e] = NULL, Sided(t, e, k),
           NEW U, Hooked(T, M, e, t, k, U)
    PROVE  Rising(U, M \cup {k}, BelowHooked(D, e, k), [h EXCEPT ![k] = 0], k)
<1> DEFINE N == M \cup {k}
           i == [h EXCEPT ![k] = 0]
<1>1. SearchTree(U, N, BelowHooked(D, e, k), NULL)
  BY HookedTree
<1>2. /\ Hung(T, M, D) /\ T \in Tree /\ M \in SUBSET Node /\ NULL \notin M /\ e \in M /\ e # k
      /\ D[T.root] = M /\ D[NULL] = {}
  <2>1. Hung(T, M, D) /\ Linked(T, M) /\ Branching(T, M, D) /\ e \in M
    BY DEF SearchTree, Hung, Fits
  <2> QED
    BY <2>1, Nodes DEF Linked, Branching
<1>3. T.root # NULL /\ T.root \in M
  BY <1>2 DEF Hung, Linked
<1>4. /\ U.root = T.root /\ U.color[k] = "RED" /\ \A a \in M : U.color[a] = T.color[a]
      /\ U.kid[t][e] = k /\ \A x \in Side : U.kid[x][k] = NULL
      /\ \A a \in M : \A x \in Side : ~(a = e /\ x = t) => U.kid[x][a] = T.kid[x][a]
  BY <1>2 DEF Hooked
<1>5. \A a \in M : \A x \in Side : T.kid[x][a] # k /\ (T.kid[x][a] # NULL => T.kid[x][a] \in M)
  <2>1. k # NULL
    BY Nodes
  <2> QED
    BY <1>2, <2>1, KidFacts
<1>6. /\ h \in [Pointer -> Nat] /\ h[NULL] = 0
      /\ \A a \in M : \A x \in Side : h[a] = h[T.kid[x][a]] + (IF T.color[a] = "BLACK" THEN 1 ELSE 0)
  BY DEF Even
<1>7. i \in [Pointer -> Nat] /\ i[k] = 0 /\ (\A a \in Pointer \ {k} : i[a] = h[a]) /\ i[NULL] = 0
  <2>1. k \in Pointer /\ NULL \in Pointer /\ k # NULL
    BY Nodes
  <2> QED
    BY <1>6, <2>1
<1> HIDE DEF i
<1>8. Even(U, N, i)
  <2>1. ASSUME NEW a \in N, NEW x \in Side PROVE i[a] = i[U.kid[x][a]] + (IF U.color[a] = "BLACK" THEN 1 ELSE 0)
    <3>1. CASE a = k
      BY <1>4, <1>7, <3>1
    <3>2. CASE a # k
      <4>1. a \in M /\ i[a] = h[a] /\ U.color[a] = T.color[a]
        BY <1>2, <1>4, <1>7, <3>2, Nodes
      <4>2. h[a] = h[T.kid[x][a]] + (IF T.color[a] = "BLACK" THEN 1 ELSE 0)
        BY <1>6, <4>1
      <4>3. i[U.kid[x][a]] = h[T.kid[x][a]]
        <5>1. CASE a = e /\ x = t
          BY <1>4, <1>6, <1>7, <5>1
        <5>2. CASE ~(a = e /\ x = t)
          <6>1. T.kid[x][a] \in Pointer \ {k}
            BY <1>2, <1>5, <4>1, TreeParts
          <6> QED
            BY <1>4, <1>7, <4>1, <5>2, <6>1
        <5> QED
          BY <5>1, <5>2
      <4> QED
        BY <4>1, <4>2, <4>3
    <3> QED
      BY <3>1, <3>2
  <2> QED
    BY <1>7, <2>1 DEF Even
<1>9. NoRedRed(U, N, k)
  <2>1. ASSUME NEW a \in N, NEW x \in Side, U.color[a] = "RED", REDP(U, U.kid[x][a]), U.kid[x][a] # k PROVE FALSE
    <3>1. a \in M /\ U.kid[x][a] = T.kid[x][a] /\ T.kid[x][a] # NULL
      BY <1>4, <2>1 DEF REDP
    <3>2. T.color[a] = "RED" /\ T.kid[x][a] \in M /\ T.color[T.kid[x][a]] = "RED"
      BY <1>4, <1>5, <2>1, <3>1 DEF REDP
    <3> QED
      BY <1>2, <3>1, <3>2 DEF NoRedRed, REDP
  <2>2. BLACKP(U, U.root)
    BY <1>2, <1>3, <1>4 DEF NoRedRed, BLACKP
  <2> QED
    BY <2>1, <2>2 DEF NoRedRed
<1> QED
  BY <1>1, <1>4, <1>8, <1>9 DEF Rising, i

\* A new node where the search for its key ends.
LEMMA InsertBalanced ==
    ASSUME NEW T, NEW M, Balanced(T, M), NEW k \in Key, k \notin M, T.root # NULL
    PROVE  LET e == Descend(T, T.root, k)
           IN  Balanced(balance_tree([new_node(T, k, e, k) EXCEPT !.kid[TowardsKey(T, e, k)][e] = k], k), M \cup {k})
<1>1. PICK D, h : SearchTree(T, M, D, NULL) /\ Even(T, M, h) /\ NoRedRed(T, M, NULL)
  BY DEF Balanced
<1> DEFINE e == Descend(T, T.root, k)
           t == TowardsKey(T, e, k)
           U == [new_node(T, k, e, k) EXCEPT !.kid[t][e] = k]
<1>2. Fits(T, M, D, k, e) /\ e # k /\ Down(T, e, k) = NULL
  BY <1>1, DescendFits
<1> HIDE DEF e
<1>3. Sided(t, e, k) /\ t \in Side
  BY <1>1, <1>2, DownFits
<1>4. T.kid[t][e] = NULL
  BY <1>2 DEF Down
<1>5. T \in Tree /\ e \in Node /\ k \in Node /\ Keyed(T)
  <2>1. T \in Tree /\ M \in SUBSET Node /\ Keyed(T)
    BY <1>1 DEF SearchTree, Hung, Linked
  <2>2. e \in M
    BY <1>2 DEF Fits
  <2> QED
    BY <2>1, <2>2, Nodes
<1> HIDE DEF t
<1>6. Hooked(T, M, e, t, k, U)
  BY <1>2, <1>3, <1>5, HookParts
<1> HIDE DEF U
<1>7. Rising(U, M \cup {k}, BelowHooked(D, e, k), [h EXCEPT ![k] = 0], k)
  BY <1>1, <1>2, <1>3, <1>4, <1>5, <1>6, HookedRises
<1>8. Balanced(balance_tree(U, k), M \cup {k})
  BY <1>7, BalanceTree
<1> QED
  BY <1>8 DEF e, t, U

\* The first node of a tree.
LEMMA FirstBalanced ==
    ASSUME NEW T, NEW M, Balanced(T, M), NEW k \in Key, T.root = NULL
    PROVE  M = {} /\ Balanced(Paint([new_node(T, k, NULL, k) EXCEPT !.root = k], k, "BLACK"), {k})
<1> DEFINE V == new_node(T, k, NULL, k)
           W == [V EXCEPT !.root = k]
           U == Paint(W, k, "BLACK")
           D == [a \in Pointer |-> IF a = k THEN {k} ELSE {}]
           h == [a \in Pointer |-> IF a = k THEN 1 ELSE 0]
<1>1. PICK E : SearchTree(T, M, E, NULL)
  BY DEF Balanced
<1>2. M = {} /\ T \in Tree /\ Keyed(T) /\ Cleared(T, M, NULL)
  BY <1>1 DEF SearchTree, Hung, Branching, Linked
<1>3. k \in Node /\ k \in Pointer /\ NULL \in Pointer /\ k # NULL /\ NULL \notin Node
  BY Nodes
<1>4. NodeMade(T, k, NULL, k, V)
  BY <1>2, <1>3, ChildlessParts
<1> HIDE DEF V
<1>5. /\ V \in Tree /\ V.root = T.root
      /\ V.key = [T.key EXCEPT ![k] = k] /\ V.parent = [T.parent EXCEPT ![k] = NULL]
      /\ \A x \in Side : \A a \in Node : V.kid[x][a] = IF a = k THEN NULL ELSE T.kid[x][a]
  BY <1>4 DEF NodeMade
<1>6. W \in Tree /\ W.color = V.color /\ W.key = V.key /\ W.root = k /\ W.parent = V.parent /\ W.kid = V.kid
  BY <1>3, <1>5, RootParts
<1> HIDE DEF W
<1>7. Painted(W, k, "BLACK", U)
  BY <1>3, <1>6, PaintParts
<1> HIDE DEF U
<1>8. /\ U \in Tree /\ U.root = k /\ U.kid = V.kid /\ U.parent = V.parent /\ U.key = V.key
      /\ U.color = [W.color EXCEPT ![k] = "BLACK"]
  BY <1>6, <1>7 DEF Painted, SameShape
<1>9. U.color[k] = "BLACK"
  BY <1>3, <1>6, <1>8, TreeParts
<1>10. (\A x \in Side : U.kid[x][k] = NULL) /\ U.parent[k] = NULL
  BY <1>2, <1>3, <1>5, <1>8, TreeParts
<1>11. Linked(U, {k})
  BY <1>3, <1>8, <1>10 DEF Linked
<1>12. D \in [Pointer -> SUBSET {k}] /\ D[k] = {k} /\ D[NULL] = {}
  BY <1>3
<1>13. h \in [Pointer -> Nat] /\ h[k] = 1 /\ h[NULL] = 0
  BY <1>3
<1> HIDE DEF D, h
<1>14. "left" \in Side /\ "right" \in Side
  BY Sides
<1>15. Branching(U, {k}, D)
  BY <1>8, <1>10, <1>12, <1>14 DEF Branching
<1>16. Sorted(U, {k}, D)
  BY <1>10, <1>12 DEF Sorted
<1>17. Cleared(U, {k}, NULL)
  <2>1. ASSUME NEW n \in Node \ {k} PROVE node_cleared_p(U, n)
    <3>1. node_cleared_p(T, n) /\ n # k
      BY <1>2, <1>3, <2>1 DEF Cleared
    <3>2. U.parent[n] = T.parent[n]
      BY <1>2, <1>5, <1>8, <2>1, TreeParts
    <3>3. \A x \in Side : U.kid[x][n] = T.kid[x][n]
      BY <1>5, <1>8, <2>1
    <3> QED
      BY <3>1, <3>2, <3>3 DEF node_cleared_p
  <2> QED
    BY <2>1 DEF Cleared
<1>18. Keyed(U)
  <2>1. T.key = [n \in Node |-> n]
    BY <1>2 DEF Keyed
  <2>2. U.key = [n \in Node |-> n]
    BY <1>5, <1>8, <2>1
  <2> QED
    BY <2>2 DEF Keyed
<1>19. Even(U, {k}, h)
  BY <1>9, <1>10, <1>13 DEF Even
<1>20. NoRedRed(U, {k}, NULL)
  BY <1>8, <1>9, <1>10 DEF NoRedRed, BLACKP, REDP
<1>21. Balanced(U, {k})
  BY <1>11, <1>15, <1>16, <1>17, <1>18, <1>19, <1>20 DEF Balanced, SearchTree, Hung
<1> QED
  BY <1>2, <1>21 DEF U, W, V

-----------------------------------------------------------------------------
(* Extremes and neighbours.                                                    *)

\* The order of the keys, on both sides.
LEMMA SidedFacts ==
    ASSUME NEW x \in Side, NEW a \in Node, NEW b \in Node, NEW c \in Node
    PROVE  /\ Sided(x, a, b) <=> Sided(Other(x), b, a)
           /\ Sided(x, a, b) /\ Sided(x, b, c) => Sided(x, a, c)
           /\ a # b => Sided(x, a, b) \/ Sided(Other(x), a, b)
           /\ ~ (Sided(x, a, b) /\ Sided(Other(x), a, b)) /\ ~ Sided(x, a, a)
           /\ ~ (Sided(x, a, b) /\ Sided(x, b, a))
<1>1. a \in Int /\ b \in Int /\ c \in Int
  BY Nodes
<1>2. CASE x = "left"
  BY <1>1, <1>2, Sides DEF Sided
<1>3. CASE x = "right"
  BY <1>1, <1>3, Sides DEF Sided
<1> QED
  BY <1>2, <1>3 DEF Side

\* What is not below a node is on one side of all that is.
LEMMA Outside ==
    ASSUME NEW T, NEW M, NEW D, Hung(T, M, D), Sorted(T, M, D), NEW a \in M, NEW b \in M, b \notin D[a]
    PROVE  \E x \in Side : \A c \in D[a] : Sided(x, b, c)
<1> DEFINE S == {n \in M : \A m \in M : m \notin D[n] => \E x \in Side : \A c \in D[n] : Sided(x, m, c)}
<1>1. M \in SUBSET Node /\ D[T.root] = M /\ (T.root # NULL => T.root \in M)
  BY DEF Hung, Linked, Branching
<1>2. T.root # NULL => T.root \in S
  BY <1>1
<1>3. ASSUME NEW n \in M \cap S, NEW y \in Side, T.kid[y][n] # NULL PROVE T.kid[y][n] \in S
  <2> DEFINE k == T.kid[y][n]
  <2>1. k \in M
    BY <1>3, KidFacts
  <2>2. /\ D[n] = {n} \cup D[T.kid[y][n]] \cup D[T.kid[Other(y)][n]] /\ D[n] \subseteq M
    BY Branches
  <2>3. (\A c \in D[T.kid[y][n]] : Sided(y, n, c)) /\ (\A c \in D[T.kid[Other(y)][n]] : Sided(Other(y), n, c))
    BY Sides DEF Sorted
  <2> HIDE DEF k
  <2>4. ASSUME NEW m \in M, m \notin D[k] PROVE \E x \in Side : \A c \in D[k] : Sided(x, m, c)
    <3>1. CASE m \notin D[n]
      <4>1. PICK x \in Side : \A c \in D[n] : Sided(x, m, c)
        BY <1>3, <3>1
      <4> QED
        BY <2>2, <4>1 DEF k
    <3>2. CASE m = n
      BY <1>3, <2>3, <3>2 DEF k
    <3>3. CASE m \in D[T.kid[Other(y)][n]]
      <4>1. ASSUME NEW c \in D[k] PROVE Sided(y, m, c)
        <5>1. m \in Node /\ n \in Node /\ c \in Node
          BY <1>1, <2>2, <4>1 DEF k
        <5>2. Sided(Other(y), n, m) /\ Sided(y, n, c)
          BY <2>3, <3>3, <4>1 DEF k
        <5>3. Sided(y, m, n)
          BY <1>3, <5>1, <5>2, SidedFacts
        <5> QED
          BY <1>3, <5>1, <5>2, <5>3, SidedFacts
      <4> QED
        BY <1>3, <4>1
    <3> QED
      BY <2>2, <2>4, <3>1, <3>2, <3>3 DEF k
  <2>5. k \in S
    BY <2>1, <2>4
  <2> QED
    BY <2>5 DEF k
<1>4. M \subseteq S
  <2> HIDE DEF S
  <2> QED
    BY <1>2, <1>3, TopDown
<1> QED
  BY <1>4

\* m is the last of the set S on that side.
Last(side, S, m) == m \in S /\ \A b \in S : b = m \/ Sided(Other(side), m, b)

\* leftmost and rightmost find the last node below another.
LEMMA MostIs ==
    ASSUME NEW T, NEW M, NEW D, Hung(T, M, D), Sorted(T, M, D), NEW n \in M, NEW side \in Side
    PROVE  Last(side, D[n], Most(T, side, n)) /\ T.kid[side][Most(T, side, n)] = NULL
<1> DEFINE body == [m \in Node |-> IF T.kid[side][m] = NULL THEN m ELSE T.kid[side][m]]
           At(i) == {a \in D[n] : /\ \A b \in D[n] : b \in D[a] \/ Sided(Other(side), a, b)
                                  /\ T.kid[side][a] # NULL => Size(D, a) + i <= NKeys}
           G == [i \in 0..NKeys |-> At(i)]
           e == Most(T, side, n)
           o == Other(side)
<1>1. M \in SUBSET Node /\ D[n] \subseteq M /\ n \in D[n] /\ o \in Side /\ Other(o) = side
  BY Branches, Sides DEF Hung, Linked
<1>2. NKeys \in Nat /\ 0 \in 0..NKeys /\ NKeys \in 0..NKeys
  BY Nodes
<1>3. \A a \in M : Size(D, a) \in 0..NKeys /\ Size(D, a) > 0
  BY <1>1, Sizes, Nodes
<1>4. n \in G[0]
  <2>1. Size(D, n) + 0 <= NKeys
    BY <1>2, <1>3
  <2> QED
    BY <1>1, <1>2, <2>1
<1>5. ASSUME NEW i \in 0..NKeys, NEW a \in G[i], i < NKeys PROVE body[a] \in G[i + 1]
  <2>1. /\ a \in D[n] /\ a \in M /\ a \in Node /\ i + 1 \in 0..NKeys
        /\ \A b \in D[n] : b \in D[a] \/ Sided(o, a, b)
        /\ T.kid[side][a] # NULL => Size(D, a) + i <= NKeys
    BY <1>1, <1>2, <1>5
  <2>2. CASE T.kid[side][a] = NULL
    BY <2>1, <2>2
  <2>3. CASE T.kid[side][a] # NULL
    <3> DEFINE c == T.kid[side][a]
    <3>1. body[a] = c
      BY <2>1, <2>3
    <3>2. /\ D[a] = {a} \cup D[c] \cup D[T.kid[o][a]] /\ c \in D[a] /\ c \in D[c] /\ c \in M
          /\ Size(D, c) < Size(D, a)
      BY <2>1, <2>3, Branches, KidFacts, Sizes
    <3>3. D[a] \subseteq D[n]
      BY <2>1, Nested
    <3>4. (\A b \in D[c] : Sided(side, a, b)) /\ (\A b \in D[T.kid[o][a]] : Sided(o, a, b))
      BY <1>1, <2>1 DEF Sorted
    <3> HIDE DEF c, body, o
    <3>5. ASSUME NEW b \in D[n] PROVE b \in D[c] \/ Sided(o, c, b)
      <4>1. b \in Node /\ c \in Node /\ a \in Node
        BY <1>1, <2>1, <3>2
      <4>2. Sided(o, c, a)
        BY <1>1, <3>2, <3>4, <4>1, SidedFacts DEF o
      <4>3. b \in D[c] \/ b = a \/ Sided(o, a, b)
        BY <2>1, <3>2, <3>4
      <4> QED
        BY <1>1, <4>1, <4>2, <4>3, SidedFacts
    <3>6. Size(D, c) + (i + 1) <= NKeys
      BY <1>2, <1>3, <2>1, <2>3, <3>2
    <3>7. c \in At(i + 1)
      BY <3>2, <3>3, <3>5, <3>6 DEF o
    <3> QED
      BY <2>1, <3>1, <3>7
  <2> QED
    BY <2>2, <2>3
<1>6. e \in At(NKeys)
  <2>1. e = Iterate(body, n)
    BY DEF Most
  <2>2. e \in G[NKeys]
    <3> HIDE DEF body, G, e
    <3> QED
      BY <1>4, <1>5, <2>1, LoopReaches
  <2> QED
    BY <1>2, <2>2
<1> HIDE DEF e
<1>7. /\ e \in D[n] /\ e \in M /\ T.kid[side][e] = NULL
      /\ \A b \in D[n] : b \in D[e] \/ Sided(o, e, b)
  BY <1>1, <1>2, <1>3, <1>6
<1>8. \A b \in D[e] : b = e \/ Sided(o, e, b)
  <2>1. D[e] = {e} \cup D[T.kid[side][e]] \cup D[T.kid[o][e]]
    BY <1>7, Branches
  <2>2. \A b \in D[T.kid[o][e]] : Sided(o, e, b)
    BY <1>1, <1>7 DEF Sorted
  <2>3. D[NULL] = {}
    BY DEF Hung, Branching
  <2> QED
    BY <1>7, <2>1, <2>2, <2>3
<1> QED
  BY <1>7, <1>8 DEF Last, e

\* m is the next of the set S on that side of n, or NULL where there is none.
Nearest(side, S, n, m) ==
    /\ m = NULL => \A b \in S : ~ Sided(side, n, b)
    /\ m # NULL => m \in S /\ Sided(side, n, m) /\ \A b \in S : Sided(side, n, b) => b = m \/ Sided(side, m, b)

\* The neighbour of a node with no child on that side.
LEMMA ClimbIs ==
    ASSUME NEW T, NEW M, NEW D, Hung(T, M, D), Sorted(T, M, D), NEW n \in M, NEW side \in Side, T.kid[side][n] = NULL
    PROVE  Nearest(side, M, n, Climb(T, side, n))
<1> DEFINE up(m) == T.parent[m] # NULL /\ SideOf(T, T.parent[m], m) = side
           body == [m \in Node |-> IF T.parent[m] # NULL /\ SideOf(T, T.parent[m], m) = side THEN T.parent[m] ELSE m]
           At(i) == {a \in M : Last(side, D[a], n) /\ (up(a) => Size(D, a) > i)}
           G == [i \in 0..NKeys |-> At(i)]
           e == Iterate(body, n)
           o == Other(side)
<1>1. M \in SUBSET Node /\ NULL \notin M /\ o \in Side /\ Other(o) = side /\ D[NULL] = {} /\ D[T.root] = M
      /\ \A x \in Side : x = side \/ x = o
  BY Nodes, Sides DEF Hung, Linked, Branching
<1>2. NKeys \in Nat /\ 0 \in 0..NKeys /\ NKeys \in 0..NKeys
  BY Nodes
<1>3. \A a \in M : Size(D, a) \in 0..NKeys /\ Size(D, a) > 0
  BY <1>1, Sizes, Nodes
<1>4. n \in G[0]
  <2>1. D[n] = {n} \cup D[T.kid[side][n]] \cup D[T.kid[o][n]]
    BY Branches
  <2>2. \A b \in D[T.kid[o][n]] : Sided(o, n, b)
    BY <1>1 DEF Sorted
  <2>3. Last(side, D[n], n)
    BY <1>1, <2>1, <2>2 DEF Last
  <2> QED
    BY <1>2, <1>3, <2>3
<1>5. ASSUME NEW i \in 0..NKeys, NEW a \in G[i], i < NKeys PROVE body[a] \in G[i + 1]
  <2>1. a \in M /\ a \in Node /\ Last(side, D[a], n) /\ (up(a) => Size(D, a) > i) /\ i + 1 \in 0..NKeys
    BY <1>1, <1>2, <1>5
  <2>2. CASE ~ up(a)
    BY <2>1, <2>2
  <2>3. CASE up(a)
    <3> DEFINE p == T.parent[a]
    <3>1. body[a] = p
      BY <2>1, <2>3
    <3>2. p \in M /\ T.kid[side][p] = a /\ Size(D, a) < Size(D, p)
      BY <2>1, <2>3, ParentFacts, Sizes
    <3> HIDE DEF p, body
    <3>3. D[p] = {p} \cup D[a] \cup D[T.kid[o][p]] /\ D[p] \subseteq M
      BY <3>2, Branches
    <3>4. (\A b \in D[a] : Sided(side, p, b)) /\ (\A b \in D[T.kid[o][p]] : Sided(o, p, b))
      BY <1>1, <3>2 DEF Sorted
    <3> HIDE DEF o
    <3>5. ASSUME NEW b \in D[p] PROVE b = n \/ Sided(o, n, b)
      <4>1. b \in Node /\ p \in Node /\ n \in Node
        BY <1>1, <3>2, <3>3
      <4>2. n \in D[a] /\ (b \in D[a] => b = n \/ Sided(o, n, b))
        BY <2>1 DEF Last, o
      <4>3. Sided(o, n, p)
        BY <3>4, <4>1, <4>2, SidedFacts DEF o
      <4> QED
        BY <1>1, <3>3, <3>4, <4>1, <4>2, <4>3, SidedFacts
    <3>6. Last(side, D[p], n)
      BY <2>1, <3>3, <3>5 DEF Last, o
    <3>7. Size(D, p) > i + 1
      BY <1>2, <1>3, <2>1, <2>3, <3>2
    <3> QED
      BY <2>1, <3>1, <3>2, <3>6, <3>7
  <2> QED
    BY <2>2, <2>3
<1>6. e \in At(NKeys)
  <2>1. e \in G[NKeys]
    <3> HIDE DEF body, G
    <3> QED
      BY <1>4, <1>5, LoopReaches
  <2> QED
    BY <1>2, <2>1
<1>7. Climb(T, side, n) = T.parent[e]
  BY DEF Climb
<1> HIDE DEF e
<1>8. e \in M /\ Last(side, D[e], n) /\ ~ up(e)
  BY <1>2, <1>3, <1>6
<1>9. CASE T.parent[e] = NULL
  <2>1. e = T.root
    BY <1>8, <1>9, ParentFacts
  <2>2. ASSUME NEW b \in M PROVE ~ Sided(side, n, b)
    <3>1. b = n \/ Sided(o, n, b)
      BY <1>1, <1>8, <2>1 DEF Last
    <3>2. b \in Node /\ n \in Node
      BY <1>1
    <3> QED
      BY <3>1, <3>2, SidedFacts
  <2> QED
    BY <1>7, <1>9, <2>2 DEF Nearest
<1>10. CASE T.parent[e] # NULL
  <2> DEFINE p == T.parent[e]
  <2>1. p \in M /\ T.kid[o][p] = e
    <3>1. SideOf(T, p, e) \in Side /\ SideOf(T, p, e) # side /\ p \in M /\ T.kid[SideOf(T, p, e)][p] = e
      BY <1>8, <1>10, ParentFacts
    <3> QED
      BY <1>1, <3>1
  <2> HIDE DEF p
  <2>2. D[p] = {p} \cup D[T.kid[side][p]] \cup D[e]
    BY <1>1, <2>1, Branches
  <2>3. (\A b \in D[e] : Sided(o, p, b)) /\ (\A b \in D[T.kid[side][p]] : Sided(side, p, b))
    BY <1>1, <2>1 DEF Sorted
  <2>4. n \in D[e] /\ (\A b \in D[e] : b = n \/ Sided(o, n, b)) /\ n \in Node /\ p \in Node
    BY <1>1, <1>8, <2>1 DEF Last
  <2>5. Sided(side, n, p)
    BY <1>1, <2>3, <2>4, SidedFacts
  <2>6. ASSUME NEW b \in M, Sided(side, n, b) PROVE b = p \/ Sided(side, p, b)
    <3>1. b \in Node
      BY <1>1
    <3>2. CASE b \in D[p]
      <4>1. b \notin D[e]
        BY <2>4, <2>6, <3>1, SidedFacts
      <4> QED
        BY <2>2, <2>3, <3>2, <4>1
    <3>3. CASE b \notin D[p]
      <4>1. PICK x \in Side : \A c \in D[p] : Sided(x, b, c)
        BY <2>1, <3>3, Outside
      <4>2. n \in D[p] /\ p \in D[p]
        BY <2>2, <2>4
      <4>3. Sided(x, b, n) /\ Sided(x, b, p)
        BY <4>1, <4>2
      <4>4. x = o
        <5>1. Sided(o, b, n)
          BY <2>4, <2>6, <3>1, SidedFacts
        <5> QED
          BY <1>1, <2>4, <3>1, <4>3, <5>1, SidedFacts
      <4> QED
        BY <1>1, <2>4, <3>1, <4>3, <4>4, SidedFacts
    <3> QED
      BY <3>2, <3>3
  <2>7. p # NULL
    BY <1>1, <2>1
  <2>8. Nearest(side, M, n, p)
    BY <2>1, <2>5, <2>6, <2>7 DEF Nearest
  <2> QED
    BY <1>7, <2>8 DEF p
<1> QED
  BY <1>9, <1>10

\* next_node and prev_node.
LEMMA NeighbourIs ==
    ASSUME NEW T, NEW M, NEW D, Hung(T, M, D), Sorted(T, M, D), NEW n \in M, NEW side \in Side
    PROVE  Nearest(side, M, n, Neighbour(T, side, n))
<1>1. CASE T.kid[side][n] = NULL
  <2>1. Neighbour(T, side, n) = Climb(T, side, n)
    BY <1>1 DEF Neighbour
  <2> QED
    BY <1>1, <2>1, ClimbIs
<1>2. CASE T.kid[side][n] # NULL
  <2> DEFINE o == Other(side)
             k == T.kid[side][n]
             m == Most(T, o, k)
  <2>1. Neighbour(T, side, n) = m
    BY <1>2 DEF Neighbour
  <2>2. o \in Side /\ Other(o) = side /\ k \in M /\ M \in SUBSET Node /\ NULL \notin M
    BY <1>2, KidFacts, Sides, Nodes DEF Hung, Linked
  <2>3. D[n] = {n} \cup D[k] \cup D[T.kid[o][n]] /\ D[n] \subseteq M
    BY Branches
  <2>4. (\A b \in D[k] : Sided(side, n, b)) /\ (\A b \in D[T.kid[o][n]] : Sided(o, n, b))
    BY <2>2 DEF Sorted
  <2> HIDE DEF o, k
  <2>5. Last(o, D[k], m)
    BY <2>2, MostIs
  <2> HIDE DEF m
  <2>6. m \in D[k] /\ (\A b \in D[k] : b = m \/ Sided(side, m, b)) /\ m \in M /\ m \in Node /\ n \in Node /\ m \in D[n]
    BY <2>2, <2>3, <2>5 DEF Last
  <2>7. Sided(side, n, m) /\ m # NULL
    BY <2>2, <2>4, <2>6
  <2>8. ASSUME NEW b \in M, Sided(side, n, b) PROVE b = m \/ Sided(side, m, b)
    <3>1. b \in Node
      BY <2>2
    <3>2. CASE b \in D[n]
      <4>1. b # n /\ b \notin D[T.kid[o][n]]
        BY <2>4, <2>6, <2>8, <3>1, SidedFacts DEF o
      <4> QED
        BY <2>3, <2>6, <3>2, <4>1
    <3>3. CASE b \notin D[n]
      <4>1. PICK x \in Side : \A c \in D[n] : Sided(x, b, c)
        BY <3>3, Outside
      <4>2. Sided(x, b, n) /\ Sided(x, b, m)
        BY <2>3, <2>6, <4>1
      <4>3. Sided(o, b, n)
        BY <2>6, <2>8, <3>1, SidedFacts DEF o
      <4>4. x = o
        <5>1. x = side \/ x = o
          BY Sides DEF o
        <5> QED
          BY <2>2, <2>6, <3>1, <4>2, <4>3, <5>1, SidedFacts
      <4> QED
        BY <2>2, <2>6, <3>1, <4>2, <4>4, SidedFacts
    <3> QED
      BY <3>2, <3>3
  <2> QED
    BY <2>1, <2>6, <2>7, <2>8 DEF Nearest
<1> QED
  BY <1>1, <1>2

-----------------------------------------------------------------------------
(* swap_node.                                                                  *)

\* The node that has the place of a after x and y have changed places.
Ren(x, y, a) == IF a = x THEN y ELSE IF a = y THEN x ELSE a

\* Renaming twice gives the old name.
LEMMA Rens ==
    ASSUME NEW M, M \in SUBSET Node, NEW x \in M, NEW y \in M
    PROVE  /\ \A a : Ren(x, y, Ren(x, y, a)) = a
           /\ \A a \in M : Ren(x, y, a) \in M
           /\ \A a \in Node : Ren(x, y, a) \in Node
           /\ \A a \in Pointer : Ren(x, y, a) \in Pointer
           /\ Ren(x, y, NULL) = NULL
           /\ \A a \in Node \ M : Ren(x, y, a) = a
<1>1. x \in Node /\ y \in Node /\ x \in Pointer /\ y \in Pointer /\ x # NULL /\ y # NULL
  BY Nodes
<1> QED
  BY <1>1 DEF Ren

\* The children of x and y on one side change places.
KidsSwapped(T, s, x, y, U) ==
    /\ U \in Tree /\ U.color = T.color /\ U.key = T.key /\ U.root = T.root
    /\ \A a \in Node : U.parent[a] = IF a = T.kid[s][y] THEN x ELSE IF a = T.kid[s][x] THEN y ELSE T.parent[a]
    /\ \A z \in Side : \A a \in Node : U.kid[z][a] = IF z = s THEN T.kid[z][Ren(x, y, a)] ELSE T.kid[z][a]

\* That is what SwapKids does.
LEMMA SwapKidsParts ==
    ASSUME NEW T \in Tree, NEW s \in Side, NEW x \in Node, NEW y \in Node
    PROVE  KidsSwapped(T, s, x, y, SwapKids(T, s, x, y))
<1> DEFINE A == SetParent(T, T.kid[s][x], y)
           B == SetParent(A, T.kid[s][y], x)
           K == [B.kid EXCEPT ![s] = Swap(B.kid[s], x, y)]
           U == SwapKids(T, s, x, y)
<1>1. T.kid[s][x] \in Pointer /\ T.kid[s][y] \in Pointer /\ x \in Pointer /\ y \in Pointer
  BY TreeParts, Nodes
<1>2. U = [B EXCEPT !.kid[s] = Swap(@, x, y)]
  BY DEF SwapKids
<1>3. ParentSet(T, T.kid[s][x], y, A)
  BY <1>1, SetParentParts
<1> HIDE DEF A
<1>4. /\ A \in Tree /\ A.color = T.color /\ A.key = T.key /\ A.root = T.root /\ A.kid = T.kid
      /\ \A a \in Node : A.parent[a] = IF a = T.kid[s][x] THEN y ELSE T.parent[a]
  BY <1>3 DEF ParentSet
<1>5. ParentSet(A, T.kid[s][y], x, B)
  BY <1>1, <1>4, SetParentParts
<1> HIDE DEF B
<1>6. /\ B \in Tree /\ B.color = A.color /\ B.key = A.key /\ B.root = A.root /\ B.kid = A.kid
      /\ \A a \in Node : B.parent[a] = IF a = T.kid[s][y] THEN x ELSE A.parent[a]
  BY <1>5 DEF ParentSet
<1>7. B.kid \in [Side -> [Node -> Pointer]] /\ B.kid[s] \in [Node -> Pointer]
  BY <1>6, TreeParts
<1> DEFINE f == Swap(B.kid[s], x, y)
<1>8. f \in [Node -> Pointer] /\ \A a \in Node : f[a] = B.kid[s][Ren(x, y, a)]
  <2> DEFINE g == B.kid[s]
  <2>1. g \in [Node -> Pointer]
    BY <1>7
  <2> HIDE DEF g
  <2>2. Swap(g, x, y) \in [Node -> Pointer] /\ \A a \in Node : Swap(g, x, y)[a] = g[Ren(x, y, a)]
    BY <2>1 DEF Swap, Ren
  <2> QED
    BY <2>2 DEF g
<1>9. K = [B.kid EXCEPT ![s] = f]
  OBVIOUS
<1>10. U = [B EXCEPT !.kid = K]
  BY <1>2
<1> HIDE DEF f, K, U
<1>11. K \in [Side -> [Node -> Pointer]] /\ K[s] = f /\ \A z \in Side : z # s => K[z] = B.kid[z]
  BY <1>7, <1>8, <1>9
<1>12. U \in Tree /\ U.color = B.color /\ U.key = B.key /\ U.root = B.root /\ U.parent = B.parent /\ U.kid = K
  BY <1>6, <1>10, <1>11 DEF Tree
<1>13. \A z \in Side : \A a \in Node : U.kid[z][a] = IF z = s THEN T.kid[z][Ren(x, y, a)] ELSE T.kid[z][a]
  BY <1>4, <1>6, <1>8, <1>11, <1>12
<1>14. KidsSwapped(T, s, x, y, U)
  BY <1>4, <1>6, <1>12, <1>13 DEF KidsSwapped
<1> QED
  BY <1>14 DEF U

\* Exchanging places is renaming the nodes.
Swapped(T, M, x, y, U) ==
    /\ U \in Tree /\ U.key = T.key /\ U.root = Ren(x, y, T.root)
    /\ \A a \in Node : U.color[a] = T.color[Ren(x, y, a)]
    /\ \A a \in M : U.parent[a] = Ren(x, y, T.parent[Ren(x, y, a)])
    /\ \A a \in M : \A s \in Side : U.kid[s][a] = Ren(x, y, T.kid[s][Ren(x, y, a)])
    /\ \A a \in Node \ M : U.parent[a] = T.parent[a] /\ \A s \in Side : U.kid[s][a] = T.kid[s][a]

\* That is what swap_node does, also if y is a child of x.
LEMMA SwapParts ==
    ASSUME NEW T, NEW M, NEW D, Hung(T, M, D), NEW x \in M, NEW y \in D[x], x # y
    PROVE  Swapped(T, M, x, y, swap_node(T, x, y))
<1> DEFINE R(a) == Ren(x, y, a)
           px == T.parent[x]
           py == T.parent[y]
           sx == SideOf(T, px, x)
           sy == SideOf(T, py, y)
           A == SwapDown(T, x, y)
           B == SwapDown(A, y, x)
           C == [B EXCEPT !.parent = Swap(@, x, y)]
           E == SwapKids(C, "left", x, y)
           F == SwapKids(E, "right", x, y)
           U == swap_node(T, x, y)
<1>1. /\ T \in Tree /\ M \in SUBSET Node /\ NULL \notin M /\ y \in M /\ x \in Node /\ y \in Node /\ x \in Pointer
      /\ y \in Pointer
  <2>1. T \in Tree /\ M \in SUBSET Node /\ y \in M
    BY Nested DEF Hung, Linked
  <2> QED
    BY <2>1, Nodes
<1>20. /\ \A a : R(R(a)) = a
       /\ \A a \in M : R(a) \in M
       /\ R(NULL) = NULL
       /\ \A a \in Node \ M : R(a) = a
  <2>1. \A a \in M : Ren(x, y, a) \in M
    BY <1>1 DEF Ren
  <2>2. \A a \in Node \ M : Ren(x, y, a) = a
    BY <1>1 DEF Ren
  <2>3. (\A a : Ren(x, y, Ren(x, y, a)) = a) /\ Ren(x, y, NULL) = NULL
    BY <1>1 DEF Ren
  <2> QED
    BY <2>1, <2>2, <2>3
<1>2. /\ py # NULL /\ py # px /\ px \in Pointer /\ py \in Node /\ sx \in Side /\ sy \in Side
      /\ (px # NULL => px \in M /\ px \in Node) /\ py \in M
  <2>1. py \in D[x] /\ py # NULL
    BY <1>1, UpBelow
  <2>2. px # NULL => px \notin D[x] /\ px \in M
    BY <1>1, ParentFacts
  <2>3. D[x] \subseteq M
    BY Branches, Sides
  <2>4. px \in Pointer
    BY <1>1, TreeParts
  <2> QED
    BY <1>1, <2>1, <2>2, <2>3, <2>4, SideOfSide
<1>3. ASSUME NEW a \in M, NEW s \in Side
      PROVE  (T.kid[s][a] = x <=> a = px /\ s = sx) /\ (T.kid[s][a] = y <=> a = py /\ s = sy)
  <2>1. ASSUME NEW n \in M PROVE T.kid[s][a] = n <=> a = T.parent[n] /\ s = SideOf(T, T.parent[n], n)
    <3>1. ASSUME T.kid[s][a] = n PROVE a = T.parent[n] /\ s = SideOf(T, T.parent[n], n)
      <4>1. T.kid[s][a] # NULL
        BY <1>1, <3>1
      <4>2. T.parent[n] = a
        BY <3>1, <4>1, KidFacts
      <4>3. a # NULL
        BY <1>1
      <4>4. SideOf(T, a, n) \in Side /\ T.kid[SideOf(T, a, n)][a] = n
        BY <4>2, <4>3, ParentFacts
      <4> QED
        BY <3>1, <4>1, <4>2, <4>4, OneParent
    <3>2. ASSUME a = T.parent[n], s = SideOf(T, T.parent[n], n) PROVE T.kid[s][a] = n
      <4>1. a # NULL
        BY <1>1
      <4> QED
        BY <3>2, <4>1, ParentFacts
    <3> QED
      BY <3>1, <3>2
  <2> QED
    BY <1>1, <2>1
<1>4. /\ A \in Tree /\ A.color = T.color /\ A.key = T.key /\ A.root = T.root /\ A.parent = T.parent
      /\ \A s \in Side : \A a \in Node : A.kid[s][a] = IF s = sx /\ a = px THEN y ELSE T.kid[s][a]
  <2>1. CASE px = NULL
    <3>1. A = T
      BY <2>1 DEF SwapDown
    <3>2. \A a \in Node : a # px
      BY <2>1, Nodes
    <3> QED
      BY <1>1, <3>1, <3>2
  <2>2. CASE px # NULL
    <3>1. A = SetKid(T, sx, px, y)
      BY <2>2 DEF SwapDown, SetKid
    <3> HIDE DEF A, sx, px
    <3>2. KidSet(T, sx, px, y, A)
      BY <1>1, <1>2, <2>2, <3>1, KidParts
    <3> QED
      BY <3>2 DEF KidSet
  <2> QED
    BY <2>1, <2>2
<1> HIDE DEF A
<1>5. /\ B \in Tree /\ B.color = T.color /\ B.key = T.key /\ B.root = T.root /\ B.parent = T.parent
      /\ \A s \in Side : \A a \in Node : B.kid[s][a] = IF s = sy /\ a = py THEN x ELSE A.kid[s][a]
  <2>1. A.parent[y] = py /\ A.kid["left"][py] = T.kid["left"][py]
    BY <1>2, <1>4, Sides
  <2>2. B = SetKid(A, sy, py, x)
    BY <1>2, <2>1 DEF SwapDown, SetKid, SideOf
  <2> HIDE DEF B, sy, py
  <2>3. KidSet(A, sy, py, x, B)
    BY <1>1, <1>2, <1>4, <2>2, KidParts
  <2> QED
    BY <1>4, <2>3 DEF KidSet
<1> HIDE DEF B
<1>6. /\ \A a \in M : \A s \in Side : B.kid[s][a] = R(T.kid[s][a])
      /\ \A a \in Node \ M : \A s \in Side : B.kid[s][a] = T.kid[s][a]
  <2>1. ASSUME NEW a \in Node, NEW s \in Side
        PROVE  B.kid[s][a] = IF s = sy /\ a = py THEN x ELSE IF s = sx /\ a = px THEN y ELSE T.kid[s][a]
    BY <1>4, <1>5
  <2> HIDE DEF px, py, sx, sy
  <2>2. ASSUME NEW a \in M, NEW s \in Side PROVE B.kid[s][a] = R(T.kid[s][a])
    <3>1. a \in Node
      BY <1>1
    <3> QED
      BY <1>3, <2>1, <3>1 DEF Ren
  <2>3. ASSUME NEW a \in Node \ M, NEW s \in Side PROVE B.kid[s][a] = T.kid[s][a]
    <3>1. a # px /\ a # py
      BY <1>2, Nodes
    <3> QED
      BY <2>1, <3>1
  <2> QED
    BY <2>2, <2>3
<1>7. /\ C \in Tree /\ C.color = T.color /\ C.key = T.key /\ C.root = T.root /\ C.kid = B.kid
      /\ \A a \in Node : C.parent[a] = T.parent[R(a)]
  <2> DEFINE P == Swap(B.parent, x, y)
  <2>1. B.parent \in [Node -> Pointer]
    BY <1>5, TreeParts
  <2>2. P \in [Node -> Pointer] /\ \A a \in Node : P[a] = B.parent[R(a)]
    <3> DEFINE g == B.parent
    <3>1. g \in [Node -> Pointer]
      BY <2>1
    <3> HIDE DEF g
    <3>2. Swap(g, x, y) \in [Node -> Pointer] /\ \A a \in Node : Swap(g, x, y)[a] = g[Ren(x, y, a)]
      BY <1>1, <3>1 DEF Swap, Ren
    <3> QED
      BY <3>2 DEF g
  <2>3. C = [B EXCEPT !.parent = P]
    OBVIOUS
  <2> HIDE DEF P, C
  <2>4. C \in Tree /\ C.color = B.color /\ C.key = B.key /\ C.root = B.root /\ C.kid = B.kid /\ C.parent = P
    BY <1>5, <2>2, <2>3 DEF Tree
  <2> QED
    BY <1>5, <2>2, <2>4
<1> HIDE DEF C
<1>8. "left" \in Side /\ "right" \in Side /\ "left" # "right" /\ \A s \in Side : s = "left" \/ s = "right"
  BY DEF Side
<1>9. KidsSwapped(C, "left", x, y, E)
  BY <1>1, <1>7, <1>8, SwapKidsParts
<1> HIDE DEF E
<1>10. /\ E \in Tree /\ E.color = C.color /\ E.key = C.key /\ E.root = C.root
       /\ \A a \in Node : E.parent[a] = IF a = C.kid["left"][y] THEN x ELSE IF a = C.kid["left"][x] THEN y ELSE C.parent[a]
       /\ \A z \in Side : \A a \in Node : E.kid[z][a] = IF z = "left" THEN C.kid[z][R(a)] ELSE C.kid[z][a]
  BY <1>9 DEF KidsSwapped
<1>11. KidsSwapped(E, "right", x, y, F)
  BY <1>1, <1>8, <1>10, SwapKidsParts
<1> HIDE DEF F
<1>12. /\ F \in Tree /\ F.color = E.color /\ F.key = E.key /\ F.root = E.root
       /\ \A a \in Node : F.parent[a] = IF a = E.kid["right"][y] THEN x ELSE IF a = E.kid["right"][x] THEN y ELSE E.parent[a]
       /\ \A z \in Side : \A a \in Node : F.kid[z][a] = IF z = "right" THEN E.kid[z][R(a)] ELSE E.kid[z][a]
  BY <1>11 DEF KidsSwapped
<1>13. \A s \in Side : \A a \in Node : F.kid[s][a] = B.kid[s][R(a)]
  <2>1. \A a \in Node : R(a) \in Node
    BY <1>1 DEF Ren
  <2> QED
    BY <1>7, <1>8, <1>10, <1>12, <2>1
<1>14. \A a \in Node : F.parent[a] = IF \E s \in Side : a = B.kid[s][y] THEN x
                                     ELSE IF \E s \in Side : a = B.kid[s][x] THEN y ELSE T.parent[R(a)]
  <2>1. ASSUME NEW a \in Node
        PROVE  F.parent[a] = IF a = B.kid["right"][y] THEN x ELSE IF a = B.kid["right"][x] THEN y
                             ELSE IF a = B.kid["left"][y] THEN x ELSE IF a = B.kid["left"][x] THEN y ELSE T.parent[R(a)]
    BY <1>1, <1>7, <1>8, <1>10, <1>12
  <2>2. ASSUME NEW a \in Node, NEW s \in Side, NEW z \in Side, a = B.kid[s][x], a = B.kid[z][y] PROVE FALSE
    <3>1. T.kid[s][x] = T.kid[z][y] /\ T.kid[s][x] # NULL
      <4>1. a = R(T.kid[s][x]) /\ a = R(T.kid[z][y]) /\ a # NULL
        BY <1>1, <1>6, <2>2, Nodes
      <4>2. R(R(T.kid[s][x])) = T.kid[s][x] /\ R(R(T.kid[z][y])) = T.kid[z][y] /\ R(NULL) = NULL
        BY <1>1, <1>20
      <4> QED
        BY <4>1, <4>2
    <3> QED
      BY <1>1, <3>1, OneParent
  <2> QED
    BY <1>8, <2>1, <2>2
<1>15. /\ U \in Tree /\ U.key = T.key /\ U.root = R(T.root) /\ U.parent = F.parent /\ U.kid = F.kid
       /\ \A a \in Node : U.color[a] = T.color[R(a)]
  <2> DEFINE Q == Swap(F.color, x, y)
             V == [F EXCEPT !.color = Q]
  <2>1. F.color \in [Node -> {"RED", "BLACK"}]
    BY <1>12, TreeParts
  <2>2. Q \in [Node -> {"RED", "BLACK"}] /\ \A a \in Node : Q[a] = F.color[R(a)]
    <3> DEFINE g == F.color
    <3>1. g \in [Node -> {"RED", "BLACK"}]
      BY <2>1
    <3> HIDE DEF g
    <3>2. Swap(g, x, y) \in [Node -> {"RED", "BLACK"}] /\ \A a \in Node : Swap(g, x, y)[a] = g[Ren(x, y, a)]
      BY <1>1, <3>1 DEF Swap, Ren
    <3> QED
      BY <3>2 DEF g
  <2>3. U = IF F.root = x THEN [V EXCEPT !.root = y] ELSE IF F.root = y THEN [V EXCEPT !.root = x] ELSE V
    BY DEF swap_node, SwapColors, A, B, C, E, F
  <2> HIDE DEF U, Q
  <2>4. V \in Tree /\ V.color = Q /\ V.key = F.key /\ V.root = F.root /\ V.kid = F.kid /\ V.parent = F.parent
    BY <1>12, <2>2 DEF Tree
  <2> HIDE DEF V
  <2>5. U \in Tree /\ U.color = V.color /\ U.key = V.key /\ U.root = R(V.root) /\ U.parent = V.parent /\ U.kid = V.kid
    <3>1. CASE F.root = x
      BY <1>1, <2>3, <2>4, <3>1, RootParts DEF Ren
    <3>2. CASE F.root # x /\ F.root = y
      BY <1>1, <2>3, <2>4, <3>2, RootParts DEF Ren
    <3>3. CASE F.root # x /\ F.root # y
      BY <2>3, <2>4, <3>3 DEF Ren
    <3> QED
      BY <3>1, <3>2, <3>3
  <2> QED
    BY <1>7, <1>10, <1>12, <2>2, <2>4, <2>5
<1>16. ASSUME NEW a \in M PROVE U.parent[a] = R(T.parent[R(a)])
  <2>1. a \in Node /\ R(a) \in M /\ R(R(a)) = a /\ a # NULL
    BY <1>1, <1>20
  <2> DEFINE b == R(a)
  <2>2. ASSUME NEW n \in M PROVE (\E s \in Side : a = B.kid[s][n]) <=> T.parent[b] = n
    <3>1. ASSUME NEW s \in Side, a = B.kid[s][n] PROVE T.parent[b] = n
      <4>1. R(a) = R(R(T.kid[s][n]))
        BY <1>6, <3>1
      <4>2. b = T.kid[s][n]
        BY <1>1, <4>1, <1>20
      <4>3. T.kid[s][n] # NULL
        BY <1>1, <2>1, <4>2
      <4> QED
        BY <4>2, <4>3, KidFacts
    <3>2. ASSUME T.parent[b] = n PROVE \E s \in Side : a = B.kid[s][n]
      <4>1. b \in M /\ T.parent[b] # NULL
        BY <1>1, <2>1, <3>2
      <4>2. PICK s \in Side : T.kid[s][n] = b
        BY <3>2, <4>1, ParentFacts
      <4>3. B.kid[s][n] = R(b)
        BY <1>6, <4>2
      <4> QED
        BY <2>1, <4>3
    <3> QED
      BY <3>1, <3>2
  <2>3. U.parent[a] = IF \E s \in Side : a = B.kid[s][y] THEN x
                      ELSE IF \E s \in Side : a = B.kid[s][x] THEN y ELSE T.parent[b]
    BY <1>14, <1>15, <2>1
  <2>4. U.parent[a] = IF T.parent[b] = y THEN x ELSE IF T.parent[b] = x THEN y ELSE T.parent[b]
    BY <1>1, <2>2, <2>3
  <2> HIDE DEF b
  <2>5. U.parent[a] = R(T.parent[b])
    BY <2>4 DEF Ren
  <2> QED
    BY <2>5 DEF b
<1>17. ASSUME NEW a \in M, NEW s \in Side PROVE U.kid[s][a] = R(T.kid[s][R(a)])
  <2>1. R(a) \in M /\ a \in Node
    BY <1>1, <1>20
  <2> QED
    BY <1>6, <1>13, <1>15, <2>1
<1>18. ASSUME NEW a \in Node \ M PROVE U.parent[a] = T.parent[a] /\ \A s \in Side : U.kid[s][a] = T.kid[s][a]
  <2>1. R(a) = a
    BY <1>1, <1>20
  <2>2. ASSUME NEW n \in M, NEW s \in Side PROVE a # B.kid[s][n]
    <3>1. T.kid[s][n] \in M \cup {NULL}
      BY Branches
    <3>2. B.kid[s][n] \in M \cup {NULL}
      BY <1>1, <1>6, <3>1, <1>20
    <3> QED
      BY <3>2, Nodes
  <2> QED
    BY <1>1, <1>6, <1>13, <1>14, <1>15, <2>1, <2>2
<1> HIDE DEF U
<1>19. Swapped(T, M, x, y, U)
  BY <1>15, <1>16, <1>17, <1>18 DEF Swapped
<1> QED
  BY <1>19 DEF U

BelowSwapped(D, x, y) == [a \in Pointer |-> {Ren(x, y, m) : m \in D[Ren(x, y, a)]}]

\* Branches keep their nodes, under new names.
BranchesRenamed(T, M, D, x, y, U) ==
    \A a \in M : \A s \in Side :
      BelowSwapped(D, x, y)[U.kid[s][a]] = {Ren(x, y, m) : m \in D[T.kid[s][Ren(x, y, a)]]}

\* The links of the renamed tree agree.
LEMMA SwappedHung ==
    ASSUME NEW T, NEW M, NEW D, Hung(T, M, D), NEW x \in M, NEW y \in M, NEW U, Swapped(T, M, x, y, U)
    PROVE  Hung(U, M, BelowSwapped(D, x, y)) /\ BranchesRenamed(T, M, D, x, y, U)
<1> DEFINE R(a) == Ren(x, y, a)
           E == BelowSwapped(D, x, y)
<1>1. /\ T \in Tree /\ M \in SUBSET Node /\ NULL \notin M /\ M \subseteq Pointer /\ NULL \in Pointer
      /\ D \in [Pointer -> SUBSET M] /\ D[NULL] = {} /\ D[T.root] = M
  <2>1. Linked(T, M) /\ Branching(T, M, D)
    BY DEF Hung
  <2> QED
    BY <2>1, Nodes DEF Linked, Branching
<1>2. (\A a : R(R(a)) = a) /\ (\A a \in M : R(a) \in M) /\ R(NULL) = NULL
  <2>1. \A a \in M : Ren(x, y, a) \in M
    BY DEF Ren
  <2>2. (\A a : Ren(x, y, Ren(x, y, a)) = a) /\ Ren(x, y, NULL) = NULL
    BY <1>1 DEF Ren
  <2> QED
    BY <2>1, <2>2
<1> HIDE DEF R
<1>3. /\ U \in Tree /\ U.root = R(T.root)
      /\ \A a \in M : U.parent[a] = R(T.parent[R(a)])
      /\ \A a \in M : \A s \in Side : U.kid[s][a] = R(T.kid[s][R(a)])
  BY DEF Swapped, R
<1>4. /\ T.root # NULL => T.root \in M /\ T.parent[T.root] = NULL
      /\ \A a \in M : \A s \in Side :
           T.kid[s][a] # NULL => /\ T.kid[s][a] \in M /\ T.parent[T.kid[s][a]] = a
                                 /\ T.kid[Other(s)][a] # T.kid[s][a]
      /\ \A a \in M : a # T.root => T.parent[a] \in M /\ \E s \in Side : T.kid[s][T.parent[a]] = a
  BY DEF Hung, Linked
<1>5. Linked(U, M)
  <2>1. U.root # NULL => U.root \in M /\ U.parent[U.root] = NULL
    <3>1. SUFFICES ASSUME U.root # NULL PROVE U.root \in M /\ U.parent[U.root] = NULL
      OBVIOUS
    <3>2. T.root # NULL /\ T.root \in M /\ T.parent[T.root] = NULL
      BY <1>2, <1>3, <1>4, <3>1
    <3>3. U.root \in M /\ R(U.root) = T.root
      BY <1>2, <1>3, <3>2
    <3> QED
      BY <1>2, <1>3, <3>2, <3>3
  <2>2. ASSUME NEW a \in M, NEW s \in Side, U.kid[s][a] # NULL
        PROVE  U.kid[s][a] \in M /\ U.parent[U.kid[s][a]] = a /\ U.kid[Other(s)][a] # U.kid[s][a]
    <3> DEFINE b == R(a)
               k == T.kid[s][b]
               l == T.kid[Other(s)][b]
    <3>1. b \in M /\ R(b) = a /\ Other(s) \in Side
      BY <1>2, Sides
    <3>2. U.kid[s][a] = R(k) /\ U.kid[Other(s)][a] = R(l)
      BY <1>3, <3>1
    <3>3. k # NULL
      BY <1>2, <2>2, <3>2
    <3>4. k \in M /\ T.parent[k] = b /\ l # k
      BY <1>4, <3>1, <3>3
    <3> HIDE DEF b, k, l
    <3>5. R(k) \in M /\ R(R(k)) = k /\ R(R(l)) = l
      BY <1>2, <3>4
    <3>6. U.parent[R(k)] = a
      BY <1>3, <3>1, <3>4, <3>5
    <3>7. R(l) # R(k)
      BY <3>4, <3>5
    <3> QED
      BY <3>2, <3>5, <3>6, <3>7
  <2>3. ASSUME NEW a \in M, a # U.root PROVE U.parent[a] \in M /\ \E s \in Side : U.kid[s][U.parent[a]] = a
    <3> DEFINE b == R(a)
    <3>1. b \in M /\ R(b) = a
      BY <1>2
    <3> HIDE DEF b
    <3>2. b # T.root
      BY <1>3, <2>3, <3>1
    <3>3. PICK s \in Side : T.parent[b] \in M /\ T.kid[s][T.parent[b]] = b
      BY <1>4, <3>1, <3>2
    <3>4. U.parent[a] = R(T.parent[b])
      BY <1>3 DEF b
    <3>5. U.parent[a] \in M /\ R(U.parent[a]) = T.parent[b]
      BY <1>2, <3>3, <3>4
    <3>6. U.kid[s][U.parent[a]] = a
      BY <1>3, <3>1, <3>3, <3>5
    <3> QED
      BY <3>5, <3>6
  <2> QED
    BY <1>1, <1>3, <2>1, <2>2, <2>3 DEF Linked
<1>6. ASSUME NEW a \in Pointer PROVE E[a] = {R(m) : m \in D[R(a)]}
  BY DEF BelowSwapped, R
<1>7. E = [a \in Pointer |-> E[a]]
  BY DEF BelowSwapped
<1> HIDE DEF E
<1>8. \A a \in Pointer : R(a) \in Pointer
  <2>1. x \in Pointer /\ y \in Pointer
    BY <1>1
  <2> QED
    BY <2>1 DEF R, Ren
<1>9. ASSUME NEW a \in Pointer, NEW m PROVE m \in E[a] <=> R(m) \in D[R(a)]
  BY <1>2, <1>6
<1>10. E \in [Pointer -> SUBSET M]
  <2>1. ASSUME NEW a \in Pointer PROVE E[a] \in SUBSET M
    <3>1. D[R(a)] \subseteq M
      BY <1>1, <1>8
    <3> QED
      BY <1>2, <1>6, <3>1
  <2> QED
    BY <1>7, <2>1
<1>11. ASSUME NEW a \in M, NEW s \in Side PROVE E[U.kid[s][a]] = {R(m) : m \in D[T.kid[s][R(a)]]}
  <2>1. T.kid[s][R(a)] \in Pointer
    BY <1>1, <1>2, TreeParts
  <2>2. U.kid[s][a] \in Pointer /\ R(U.kid[s][a]) = T.kid[s][R(a)]
    BY <1>2, <1>3, <1>8, <2>1
  <2> QED
    BY <1>6, <2>2
<1>12. ASSUME NEW a \in M, NEW s \in Side, NEW m PROVE m \in E[U.kid[s][a]] <=> R(m) \in D[T.kid[s][R(a)]]
  BY <1>2, <1>11
<1>13. Branching(U, M, E)
  <2>1. E[NULL] = {}
    <3>1. \A m : m \notin E[NULL]
      BY <1>1, <1>2, <1>9
    <3> QED
      BY <3>1
  <2>2. E[U.root] = M
    <3>1. T.root \in Pointer /\ U.root \in Pointer /\ R(U.root) = T.root
      BY <1>1, <1>2, <1>3, TreeParts
    <3>2. \A m : m \in E[U.root] <=> R(m) \in M
      BY <1>1, <1>9, <3>1
    <3>3. \A m : R(m) \in M <=> m \in M
      BY <1>2
    <3>4. \A m : m \in E[U.root] <=> m \in M
      BY <3>2, <3>3
    <3> QED
      BY <3>4
  <2>3. ASSUME NEW a \in M
        PROVE  LET L == E[U.kid["left"][a]]
                   Q == E[U.kid["right"][a]]
               IN  E[a] = {a} \cup L \cup Q /\ a \notin L /\ a \notin Q /\ L \cap Q = {}
    <3> DEFINE b == R(a)
               l == D[T.kid["left"][b]]
               q == D[T.kid["right"][b]]
               L == E[U.kid["left"][a]]
               Q == E[U.kid["right"][a]]
               O == E[a]
               d == D[b]
    <3>1. b \in M /\ R(b) = a /\ a \in Pointer
      BY <1>1, <1>2
    <3>2. d = {b} \cup l \cup q /\ l \cap q = {} /\ b \notin l /\ b \notin q
      <4> HIDE DEF b
      <4>1. "left" \in Side /\ Other("left") = "right"
        BY Sides
      <4> QED
        BY <3>1, <4>1, Branches
    <3>3. (\A m : m \in L <=> R(m) \in l) /\ (\A m : m \in Q <=> R(m) \in q) /\ (\A m : m \in O <=> R(m) \in d)
      BY <1>9, <1>12, <3>1, Sides
    <3> HIDE DEF b, l, q, L, Q, O, d
    <3>4. \A m : R(m) = b <=> m = a
      BY <1>2, <3>1
    <3>5. O = {a} \cup L \cup Q /\ a \notin L /\ a \notin Q /\ L \cap Q = {}
      BY <1>2, <3>2, <3>3, <3>4
    <3> QED
      BY <3>5 DEF L, Q, O
  <2>4. \A a \in M : \A s \in Side : a \notin E[U.kid[s][a]]
    BY <2>3 DEF Side
  <2> QED
    BY <1>10, <2>1, <2>2, <2>3, <2>4 DEF Branching
<1>14. \A a \in M : \A s \in Side : E[U.kid[s][a]] = {Ren(x, y, m) : m \in D[T.kid[s][Ren(x, y, a)]]}
  BY <1>11 DEF R
<1> QED
  BY <1>5, <1>13, <1>14 DEF E, Hung, BranchesRenamed

\* A tree whose nodes are in order, but for one.
SortedBut(T, M, D, z) ==
    \A n \in M \ {z} : \A s \in Side : \A m \in D[T.kid[s][n]] \ {z} : Sided(s, n, m)

\* A red-black tree with all its nodes but one, which will be deleted, in order.
Loose(T, M, z) ==
    \E D, h : /\ Hung(T, M, D) /\ SortedBut(T, M, D, z) /\ Cleared(T, M, NULL) /\ Keyed(T)
              /\ Even(T, M, h) /\ NoRedRed(T, M, NULL)

\* A node with two children changes places with the one before it.
LEMMA SwapLoose ==
    ASSUME NEW T, NEW M, Balanced(T, M), NEW x \in M, \A s \in Side : T.kid[s][x] # NULL
    PROVE  LET U == swap_node(T, x, prev_node(T, x))
           IN  Loose(U, M, x) /\ U.kid["right"][x] = NULL
<1> DEFINE y == prev_node(T, x)
           U == swap_node(T, x, y)
           R(a) == Ren(x, y, a)
<1>1. PICK D, h : SearchTree(T, M, D, NULL) /\ Even(T, M, h) /\ NoRedRed(T, M, NULL)
  BY DEF Balanced
<1> DEFINE E == BelowSwapped(D, x, y)
           i == [a \in Pointer |-> h[R(a)]]
           l == T.kid["left"][x]
<1>2. /\ Hung(T, M, D) /\ Sorted(T, M, D) /\ T \in Tree /\ M \in SUBSET Node /\ NULL \notin M /\ Cleared(T, M, NULL)
      /\ Keyed(T) /\ "left" \in Side /\ "right" \in Side /\ Other("right") = "left" /\ Other("left") = "right"
  <2>1. Hung(T, M, D) /\ Linked(T, M) /\ Sorted(T, M, D) /\ Cleared(T, M, NULL) /\ Keyed(T)
    BY <1>1 DEF SearchTree, Hung
  <2> QED
    BY <2>1, Nodes, Sides DEF Linked
<1>3. l # NULL /\ l \in M
  BY <1>2, KidFacts
<1>4. y = Most(T, "right", l)
  BY <1>2, <1>3 DEF prev_node, Neighbour
<1>5. /\ D[x] = {x} \cup D[l] \cup D[T.kid["right"][x]] /\ x \notin D[l] /\ D[x] \subseteq M
      /\ \A b \in D[l] : Sided("left", x, b)
      /\ \A b \in D[T.kid["right"][x]] : Sided("right", x, b)
  <2>1. D[x] = {x} \cup D[l] \cup D[T.kid["right"][x]] /\ x \notin D[l] /\ D[x] \subseteq M
    BY <1>2, Branches
  <2> QED
    BY <1>2, <2>1 DEF Sorted
<1> HIDE DEF y, l
<1>6. Last("right", D[l], y) /\ T.kid["right"][y] = NULL
  BY <1>2, <1>3, <1>4, MostIs
<1>7. /\ y \in D[l] /\ y \in M /\ y # x /\ y \in D[x] /\ x \in Node /\ y \in Node /\ Sided("left", x, y)
      /\ \A b \in D[l] : b = y \/ Sided("left", y, b)
  BY <1>2, <1>5, <1>6 DEF Last
<1>8. Swapped(T, M, x, y, U)
  BY <1>2, <1>7, SwapParts
<1> HIDE DEF U
<1>9. /\ U \in Tree /\ U.key = T.key /\ U.root = R(T.root)
      /\ \A a \in Node : U.color[a] = T.color[R(a)]
      /\ \A a \in M : \A s \in Side : U.kid[s][a] = R(T.kid[s][R(a)])
      /\ \A a \in Node \ M : U.parent[a] = T.parent[a] /\ \A s \in Side : U.kid[s][a] = T.kid[s][a]
  BY <1>8 DEF Swapped
<1>10. (\A a : R(R(a)) = a) /\ (\A a \in M : R(a) \in M) /\ R(NULL) = NULL /\ (\A a \in Pointer : R(a) \in Pointer)
  <2>1. \A a \in M : Ren(x, y, a) \in M
    BY <1>7 DEF Ren
  <2>2. (\A a : Ren(x, y, Ren(x, y, a)) = a) /\ Ren(x, y, NULL) = NULL
    BY <1>2, <1>7 DEF Ren
  <2>3. \A a \in Pointer : Ren(x, y, a) \in Pointer
    <3>1. x \in Pointer /\ y \in Pointer
      BY <1>7, Nodes
    <3> QED
      BY <3>1 DEF Ren
  <2> QED
    BY <2>1, <2>2, <2>3
<1>11. /\ Hung(U, M, E)
       /\ \A a \in M : \A s \in Side : E[U.kid[s][a]] = {R(m) : m \in D[T.kid[s][R(a)]]}
  <2> HIDE DEF R
  <2>1. Hung(U, M, BelowSwapped(D, x, y)) /\ BranchesRenamed(T, M, D, x, y, U)
    <3> HIDE DEF E, i
    <3> QED
      BY <1>2, <1>7, <1>8, SwappedHung
  <2> QED
    BY <2>1 DEF R, BranchesRenamed
<1> HIDE DEF E
<1>12. SortedBut(U, M, E, x)
  <2>1. SUFFICES ASSUME NEW n \in M \ {x}, NEW s \in Side, NEW m \in E[U.kid[s][n]] \ {x}
                 PROVE  Sided(s, n, m)
    BY DEF SortedBut
  <2> DEFINE n1 == R(n)
             m1 == R(m)
             k == T.kid[s][n1]
  <2>2. n1 \in M /\ n1 # y
    BY <1>7, <1>10 DEF Ren
  <2>3. m1 \in D[k] /\ m1 # y
    <3>1. E[U.kid[s][n]] = {R(b) : b \in D[k]}
      BY <1>11
    <3>2. PICK b \in D[k] : m = R(b)
      BY <2>1, <3>1
    <3>3. m1 = b
      BY <1>10, <3>2
    <3>4. m1 = y => m = x
      BY <1>7 DEF Ren
    <3> QED
      BY <2>1, <3>3, <3>4
  <2>4. Sided(s, n1, m1)
    BY <1>2, <2>2, <2>3 DEF Sorted
  <2>5. (n1 = x => n = y) /\ (n1 # x => n = n1) /\ (m1 = x => m = y) /\ (m1 # x => m = m1)
    BY <2>2, <2>3 DEF Ren
  <2>6. D[k] \subseteq M /\ m1 \in Node
    <3>1. D[k] \subseteq D[n1] /\ D[n1] \subseteq M
      BY <1>2, <2>2, Branches
    <3> QED
      BY <1>2, <2>3, <3>1
  <2>7. CASE n1 = x
    <3>1. m1 # x
      BY <1>7, <2>4, <2>7, SidedFacts
    <3>2. CASE s = "left"
      BY <1>7, <2>3, <2>5, <2>7, <3>1, <3>2 DEF l
    <3>3. CASE s = "right"
      <4>1. Sided("right", y, x)
        BY <1>2, <1>7, SidedFacts
      <4>2. Sided("right", y, m1)
        BY <1>2, <1>7, <2>4, <2>6, <2>7, <3>3, <4>1, SidedFacts
      <4> QED
        BY <2>5, <2>7, <3>1, <3>3, <4>2
    <3> QED
      BY <3>2, <3>3 DEF Side
  <2>8. CASE n1 # x /\ m1 = x
    <3>1. k # NULL
      <4>1. D[NULL] = {}
        BY <1>2 DEF Hung, Branching
      <4> QED
        BY <2>3, <4>1
    <3>2. k \in M
      BY <1>2, <2>2, <3>1, KidFacts
    <3>3. D[x] \subseteq D[k]
      <4> HIDE DEF k, m1, n1
      <4> QED
        BY <1>2, <2>3, <2>8, <3>2, Nested
    <3>4. Sided(s, n1, y)
      BY <1>2, <1>7, <2>2, <3>3 DEF Sorted
    <3> QED
      BY <2>5, <2>8, <3>4
  <2>9. CASE n1 # x /\ m1 # x
    BY <2>4, <2>5, <2>9
  <2> QED
    BY <2>7, <2>8, <2>9
<1>13. Cleared(U, M, NULL)
  BY <1>2, <1>9 DEF Cleared, node_cleared_p
<1>14. Keyed(U)
  BY <1>2, <1>9 DEF Keyed
<1>15. /\ h \in [Pointer -> Nat] /\ h[NULL] = 0
       /\ \A a \in M : \A s \in Side : h[a] = h[T.kid[s][a]] + (IF T.color[a] = "BLACK" THEN 1 ELSE 0)
  BY <1>1 DEF Even
<1>16. i \in [Pointer -> Nat] /\ \A a \in Pointer : i[a] = h[R(a)]
  <2> HIDE DEF R
  <2> QED
    BY <1>10, <1>15
<1> HIDE DEF i
<1>17. Even(U, M, i)
  <2>1. ASSUME NEW a \in M, NEW s \in Side
        PROVE  i[a] = i[U.kid[s][a]] + (IF U.color[a] = "BLACK" THEN 1 ELSE 0)
    <3> HIDE DEF R
    <3>1. R(a) \in M /\ a \in Pointer /\ T.kid[s][R(a)] \in Pointer
      BY <1>2, <1>10, TreeParts, Nodes
    <3>2. U.kid[s][a] = R(T.kid[s][R(a)]) /\ U.color[a] = T.color[R(a)]
      BY <1>2, <1>9
    <3>3. i[U.kid[s][a]] = h[T.kid[s][R(a)]] /\ i[a] = h[R(a)]
      BY <1>10, <1>16, <3>1, <3>2
    <3> QED
      BY <1>15, <3>1, <3>2, <3>3
  <2>2. i[NULL] = 0
    BY <1>10, <1>15, <1>16, Nodes
  <2> QED
    BY <1>16, <2>1, <2>2 DEF Even
<1>18. NoRedRed(U, M, NULL)
  <2> HIDE DEF R
  <2>1. ASSUME NEW a \in M, NEW s \in Side, U.color[a] = "RED", REDP(U, U.kid[s][a]) PROVE FALSE
    <3> DEFINE k == T.kid[s][R(a)]
    <3>1. R(a) \in M /\ U.kid[s][a] = R(k) /\ T.color[R(a)] = "RED" /\ k \in M \cup {NULL}
      <4>1. R(a) \in M
        BY <1>10
      <4>2. k \in M \cup {NULL}
        BY <1>2, <4>1, Branches
      <4> QED
        BY <1>2, <1>9, <2>1, <4>1, <4>2
    <3> HIDE DEF k
    <3>2. R(k) # NULL /\ U.color[R(k)] = "RED"
      BY <2>1, <3>1 DEF REDP
    <3>3. k # NULL /\ k \in M
      BY <1>10, <3>1, <3>2
    <3>4. T.color[k] = "RED"
      BY <1>2, <1>9, <1>10, <3>2, <3>3
    <3> QED
      BY <1>1, <1>2, <3>1, <3>3, <3>4 DEF NoRedRed, REDP, k
  <2>2. BLACKP(U, U.root)
    <3>1. T.root = NULL \/ (T.root \in M /\ T.color[T.root] = "BLACK")
      BY <1>1, <1>2 DEF NoRedRed, BLACKP, Hung, Linked
    <3>2. CASE T.root = NULL
      BY <1>9, <1>10, <3>2 DEF BLACKP
    <3>3. CASE T.root \in M /\ T.color[T.root] = "BLACK"
      <4>1. R(T.root) \in Node /\ R(R(T.root)) = T.root
        BY <1>2, <1>10, <3>3
      <4> QED
        BY <1>9, <3>3, <4>1 DEF BLACKP
    <3> QED
      BY <3>1, <3>2, <3>3
  <2> QED
    BY <2>1, <2>2 DEF NoRedRed
<1>19. Loose(U, M, x)
  BY <1>11, <1>12, <1>13, <1>14, <1>17, <1>18 DEF Loose
<1>20. U.kid["right"][x] = NULL
  BY <1>2, <1>6, <1>7, <1>9 DEF Ren
<1> QED
  BY <1>19, <1>20 DEF U, y

-----------------------------------------------------------------------------
(* Taking a node out.                                                          *)

\* A tree that is balanced, and where the node z that was taken out still points into it.
BalancedBut(T, M, z) ==
    \E D, h : SearchTree(T, M, D, z) /\ Even(T, M, h) /\ NoRedRed(T, M, NULL)

\* A tree on the way to that: a black node is missing on the way from the node p to its
\* child c, or on all ways from the root c.
Lacking(T, M, D, h, p, c, z) ==
    /\ SearchTree(T, M, D, z) /\ NoRedRed(T, M, NULL) /\ BLACKP(T, c) /\ c \in M \cup {NULL}
    /\ p = NULL => Even(T, M, h)
    /\ p # NULL => p \in M /\ \E x \in Side : T.kid[x][p] = c /\ Level(T, M, h, p, x)

\* The child of p on the side x is there only, and p has a node on the other side.
ChildSide(T, M, h, p, x) ==
    /\ SideOf(T, p, T.kid[x][p]) = x
    /\ T.kid[Other(x)][p] \in M /\ h[T.kid[Other(x)][p]] = h[T.kid[x][p]] + 1

\* Then the side of the child is known, even if it is NULL.
LEMMA LackSide ==
    ASSUME NEW T, NEW M, NEW D, Hung(T, M, D), NEW h, NEW p \in M, NEW x \in Side, Level(T, M, h, p, x)
    PROVE  ChildSide(T, M, h, p, x)
<1> DEFINE c == T.kid[x][p]
           s == T.kid[Other(x)][p]
<1>1. /\ Other(x) \in Side /\ Other(x) # x /\ c \in M \cup {NULL} /\ s \in M \cup {NULL}
      /\ (c # NULL => s # c) /\ M \subseteq Pointer /\ NULL \in Pointer
  <2>1. c \in M \cup {NULL} /\ s \in M \cup {NULL}
    BY Branches, Sides
  <2>2. c # NULL => s # c
    BY KidFacts
  <2>3. M \subseteq Pointer /\ NULL \in Pointer
    BY Nodes DEF Hung, Linked
  <2> QED
    BY <2>1, <2>2, <2>3, Sides
<1>2. /\ h \in [Pointer -> Nat] /\ h[NULL] = 0
      /\ \A y \in Side : h[p] = h[T.kid[y][p]] + (IF T.color[p] = "BLACK" THEN 1 ELSE 0)
                                             + (IF p = p /\ y = x THEN 1 ELSE 0)
  BY DEF Level
<1>3. h[p] = h[c] + (IF T.color[p] = "BLACK" THEN 1 ELSE 0) + 1
  BY <1>2
<1>4. h[p] = h[s] + (IF T.color[p] = "BLACK" THEN 1 ELSE 0) + 0
  BY <1>1, <1>2
<1> HIDE DEF c, s
<1>5. h[c] \in Nat /\ h[s] \in Nat
  BY <1>1, <1>2
<1>6. h[s] = h[c] + 1
  BY <1>3, <1>4, <1>5
<1>7. s # NULL /\ s # c
  BY <1>2, <1>5, <1>6
<1>8. SideOf(T, p, c) = x
  <2>1. CASE x = "left"
    BY <2>1 DEF SideOf, c
  <2>2. CASE x = "right"
    BY <1>7, <2>2, Sides DEF SideOf, s
  <2> QED
    BY <2>1, <2>2 DEF Side
<1> QED
  BY <1>1, <1>6, <1>7, <1>8 DEF c, s, ChildSide

\* A node is the child of its parent, and of no other.
LEMMA ChildOf ==
    ASSUME NEW T, NEW M, NEW D, Hung(T, M, D), NEW a \in M, NEW x \in Side, NEW n \in M
    PROVE  T.kid[x][a] = n <=> a = T.parent[n] /\ x = SideOf(T, T.parent[n], n)
<1>1. a # NULL /\ n # NULL
  BY Branches
<1>2. ASSUME T.kid[x][a] = n PROVE a = T.parent[n] /\ x = SideOf(T, T.parent[n], n)
  <2>1. T.parent[n] = a
    BY <1>1, <1>2, KidFacts
  <2>2. SideOf(T, a, n) \in Side /\ T.kid[SideOf(T, a, n)][a] = n
    BY <1>1, <2>1, ParentFacts
  <2> QED
    BY <1>1, <1>2, <2>1, <2>2, OneParent
<1>3. ASSUME a = T.parent[n], x = SideOf(T, T.parent[n], n) PROVE T.kid[x][a] = n
  BY <1>1, <1>3, ParentFacts
<1> QED
  BY <1>2, <1>3

\* A node with one child is cut out of the tree.
BelowCut(D, z) == [a \in Pointer |-> D[a] \ {z}]

\* What that does to the children of the others.
KidsCut(T, M, z, c, U) ==
    /\ U \in Tree /\ U.color = T.color /\ U.root = IF T.root = z THEN c ELSE T.root
    /\ \A a \in M \ {z} : \A x \in Side : U.kid[x][a] = IF T.kid[x][a] = z THEN c ELSE T.kid[x][a]

\* What is left is a search tree.
LEMMA CutOut ==
    ASSUME NEW T, NEW M, NEW D, Hung(T, M, D), NEW z \in M, SortedBut(T, M, D, z), Cleared(T, M, NULL), Keyed(T),
           NEW s \in Side, T.kid[Other(s)][z] = NULL, NEW U, Replaced(T, z, T.kid[s][z], U)
    PROVE  SearchTree(U, M \ {z}, BelowCut(D, z), z) /\ KidsCut(T, M, z, T.kid[s][z], U)
<1> DEFINE c == T.kid[s][z]
           p == T.parent[z]
           N == M \ {z}
           E == BelowCut(D, z)
<1>1. /\ T \in Tree /\ M \in SUBSET Node /\ NULL \notin M /\ z # NULL /\ D \in [Pointer -> SUBSET M] /\ D[NULL] = {}
      /\ D[T.root] = M /\ N \subseteq Node /\ N \subseteq M
  <2>1. Linked(T, M) /\ Branching(T, M, D)
    BY DEF Hung
  <2> QED
    BY <2>1, Nodes DEF Linked, Branching
<1>2. /\ (c # NULL => c \in N /\ T.parent[c] = z /\ c # T.root) /\ c # z
      /\ D[c] = D[z] \ {z} /\ c \in Pointer
  <2>1. c # NULL => c \in M /\ T.parent[c] = z /\ c # T.root /\ c # z
    BY KidFacts
  <2>2. D[z] = {z} \cup D[c] \cup D[NULL] /\ z \notin D[c]
    BY Branches
  <2>3. c \in Pointer
    BY <1>1, TreeParts
  <2> QED
    BY <1>1, <2>1, <2>2, <2>3
<1>3. /\ p = NULL <=> z = T.root
      /\ p # NULL => p \in N /\ SideOf(T, p, z) \in Side /\ T.kid[SideOf(T, p, z)][p] = z
  BY ParentFacts
<1>4. \A a \in M : \A x \in Side : T.kid[x][a] = z <=> a = p /\ x = SideOf(T, p, z)
  BY ChildOf
<1>5. /\ U \in Tree /\ U.color = T.color /\ U.key = T.key
      /\ U.root = (IF p = NULL THEN c ELSE T.root)
      /\ \A a \in Node : U.parent[a] = IF a = c THEN p ELSE T.parent[a]
      /\ \A x \in Side : \A a \in Node : U.kid[x][a] = IF a = p /\ x = SideOf(T, p, z) THEN c ELSE T.kid[x][a]
  BY DEF Replaced
<1>6. \A a \in M : \A x \in Side : U.kid[x][a] = IF T.kid[x][a] = z THEN c ELSE T.kid[x][a]
  BY <1>1, <1>4, <1>5
<1>7. /\ T.root # NULL => T.root \in M /\ T.parent[T.root] = NULL
      /\ \A a \in M : \A x \in Side :
           T.kid[x][a] # NULL => /\ T.kid[x][a] \in M /\ T.parent[T.kid[x][a]] = a
                                 /\ T.kid[Other(x)][a] # T.kid[x][a]
      /\ \A a \in M : a # T.root => T.parent[a] \in M /\ \E x \in Side : T.kid[x][T.parent[a]] = a
  BY DEF Hung, Linked
<1>8. \A x \in Side : x = s \/ x = Other(s)
  BY Sides
<1>9. T.kid[s][z] = c
  OBVIOUS
<1> HIDE DEF c, p
<1>10. Linked(U, N)
  <2>1. U.root # NULL => U.root \in N /\ U.parent[U.root] = NULL
    <3>1. CASE p = NULL
      BY <1>1, <1>2, <1>5, <3>1
    <3>2. CASE p # NULL
      <4>1. T.root # NULL => T.root # c /\ T.root # z /\ T.root \in N
        BY <1>1, <1>2, <1>3, <1>7, <3>2
      <4> QED
        BY <1>1, <1>5, <1>7, <3>2, <4>1
    <3> QED
      BY <3>1, <3>2
  <2>2. ASSUME NEW a \in N, NEW x \in Side, U.kid[x][a] # NULL
        PROVE  U.kid[x][a] \in N /\ U.parent[U.kid[x][a]] = a /\ U.kid[Other(x)][a] # U.kid[x][a]
    <3> DEFINE k == T.kid[x][a]
               l == T.kid[Other(x)][a]
    <3>1. U.kid[x][a] = (IF k = z THEN c ELSE k) /\ U.kid[Other(x)][a] = (IF l = z THEN c ELSE l)
      BY <1>6, Sides
    <3>2. (k # NULL => k \in M /\ T.parent[k] = a /\ l # k) /\ (l # NULL => T.parent[l] = a)
      BY <1>7, Sides
    <3> HIDE DEF k, l
    <3>3. (k # NULL => k # c) /\ (l # NULL => l # c)
      BY <1>2, <2>2, <3>2
    <3>4. CASE k = z
      <4>1. U.kid[x][a] = c /\ c # NULL /\ c \in N /\ l # z
        BY <1>1, <1>2, <2>2, <3>1, <3>2, <3>4
      <4>2. U.parent[c] = p /\ p = a
        BY <1>1, <1>4, <1>5, <3>4, <4>1 DEF k
      <4> QED
        BY <3>1, <3>3, <4>1, <4>2
    <3>5. CASE k # z
      <4>1. U.kid[x][a] = k /\ k # NULL /\ k \in N
        BY <2>2, <3>1, <3>2, <3>5
      <4>2. U.parent[k] = a
        BY <1>1, <1>5, <3>2, <3>3, <4>1
      <4> QED
        BY <3>1, <3>2, <3>3, <4>1, <4>2
    <3> QED
      BY <3>4, <3>5
  <2>3. ASSUME NEW a \in N, a # U.root PROVE U.parent[a] \in N /\ \E x \in Side : U.kid[x][U.parent[a]] = a
    <3>1. CASE a = c
      <4>1. p # NULL /\ U.parent[a] = p
        BY <1>1, <1>5, <2>3, <3>1
      <4>2. U.kid[SideOf(T, p, z)][p] = c
        BY <1>1, <1>3, <1>5, <4>1
      <4> QED
        BY <1>3, <3>1, <4>1, <4>2
    <3>2. CASE a # c
      <4>1. a # T.root /\ U.parent[a] = T.parent[a]
        BY <1>1, <1>3, <1>5, <2>3, <3>2
      <4>2. PICK x \in Side : T.parent[a] \in M /\ T.kid[x][T.parent[a]] = a
        BY <1>7, <4>1
      <4>3. T.parent[a] # z
        <5>1. SUFFICES ASSUME T.parent[a] = z PROVE FALSE
          OBVIOUS
        <5>2. T.kid[x][z] = a /\ a # NULL /\ a # c
          BY <1>1, <3>2, <4>2, <5>1
        <5> QED
          BY <1>8, <1>9, <5>2
      <4>4. U.kid[x][T.parent[a]] = a
        BY <1>6, <4>2
      <4> QED
        BY <4>1, <4>2, <4>3, <4>4
    <3> QED
      BY <3>1, <3>2
  <2> QED
    BY <1>1, <1>5, <2>1, <2>2, <2>3 DEF Linked
<1>11. /\ E \in [Pointer -> SUBSET N] /\ \A a \in Pointer : E[a] = D[a] \ {z}
  <2>1. \A a \in Pointer : E[a] = D[a] \ {z}
    BY DEF BelowCut
  <2>2. E = [a \in Pointer |-> E[a]]
    BY DEF BelowCut
  <2> HIDE DEF E
  <2>3. \A a \in Pointer : E[a] \in SUBSET N
    BY <1>1, <2>1
  <2> QED
    BY <2>1, <2>2, <2>3
<1> HIDE DEF E
<1>12. ASSUME NEW a \in N, NEW x \in Side PROVE E[U.kid[x][a]] = D[T.kid[x][a]] \ {z}
  <2>1. T.kid[x][a] \in Pointer /\ a \in M
    BY <1>1, TreeParts
  <2>2. CASE T.kid[x][a] = z
    BY <1>2, <1>6, <1>11, <2>1, <2>2
  <2>3. CASE T.kid[x][a] # z
    BY <1>6, <1>11, <2>1, <2>3
  <2> QED
    BY <2>2, <2>3
<1>13. Branching(U, N, E)
  <2>1. E[NULL] = {}
    BY <1>1, <1>11, Nodes
  <2>2. E[U.root] = N
    <3>1. CASE p = NULL
      BY <1>1, <1>2, <1>3, <1>5, <1>11, <3>1
    <3>2. CASE p # NULL
      BY <1>1, <1>5, <1>11, <3>2, TreeParts
    <3> QED
      BY <3>1, <3>2
  <2>3. ASSUME NEW a \in N
        PROVE  LET L == E[U.kid["left"][a]]
                   R == E[U.kid["right"][a]]
               IN  E[a] = {a} \cup L \cup R /\ a \notin L /\ a \notin R /\ L \cap R = {}
    <3> DEFINE l == D[T.kid["left"][a]]
               r == D[T.kid["right"][a]]
               L == E[U.kid["left"][a]]
               R == E[U.kid["right"][a]]
               d == D[a]
    <3>1. d = {a} \cup l \cup r /\ l \cap r = {} /\ a \notin l /\ a \notin r
      <4>1. "left" \in Side /\ Other("left") = "right"
        BY Sides
      <4> QED
        BY <4>1, Branches
    <3>2. L = l \ {z} /\ R = r \ {z}
      BY <1>12, Sides
    <3>3. E[a] = d \ {z} /\ a # z
      BY <1>1, <1>11, Nodes
    <3> HIDE DEF l, r, L, R, d
    <3>4. E[a] = {a} \cup L \cup R /\ a \notin L /\ a \notin R /\ L \cap R = {}
      BY <3>1, <3>2, <3>3
    <3> QED
      BY <3>4 DEF L, R
  <2>4. \A a \in N : \A x \in Side : a \notin E[U.kid[x][a]]
    BY <2>3 DEF Side
  <2> QED
    BY <1>11, <2>1, <2>2, <2>3, <2>4 DEF Branching
<1>14. Sorted(U, N, E)
  BY <1>12 DEF Sorted, SortedBut
<1>15. Cleared(U, N, z)
  <2>1. ASSUME NEW a \in Node \ N, a # z PROVE node_cleared_p(U, a)
    <3>1. a \in Node \ M /\ node_cleared_p(T, a) /\ a # c /\ a # p
      BY <1>2, <1>3, <2>1, Nodes DEF Cleared
    <3>2. U.parent[a] = T.parent[a] /\ \A x \in Side : U.kid[x][a] = T.kid[x][a]
      BY <1>5, <3>1
    <3> QED
      BY <3>1, <3>2 DEF node_cleared_p
  <2> QED
    BY <2>1 DEF Cleared
<1>16. Keyed(U)
  BY <1>5 DEF Keyed
<1>17. KidsCut(T, M, z, c, U)
  BY <1>1, <1>3, <1>5, <1>6 DEF KidsCut
<1> QED
  BY <1>10, <1>13, <1>14, <1>15, <1>16, <1>17 DEF SearchTree, Hung, E, c

\* What taking out a node does to colours and levels.
LEMMA CutLevels ==
    ASSUME NEW T, NEW M, NEW D, Hung(T, M, D), NEW z \in M, NEW h, Even(T, M, h), NoRedRed(T, M, NULL),
           NEW s \in Side, T.kid[Other(s)][z] = NULL, NEW U, KidsCut(T, M, z, T.kid[s][z], U),
           NEW E, SearchTree(U, M \ {z}, E, z)
    PROVE  /\ T.color[z] = "RED" => Even(U, M \ {z}, h) /\ NoRedRed(U, M \ {z}, NULL)
           /\ T.color[z] = "BLACK" /\ REDP(U, T.kid[s][z]) =>
                BalancedBut(Paint(U, T.kid[s][z], "BLACK"), M \ {z}, z)
           /\ T.color[z] = "BLACK" /\ BLACKP(U, T.kid[s][z]) =>
                Lacking(U, M \ {z}, E, h, T.parent[z], T.kid[s][z], z)
<1> DEFINE c == T.kid[s][z]
           p == T.parent[z]
           N == M \ {z}
<1>1. /\ T \in Tree /\ M \in SUBSET Node /\ NULL \notin M /\ z # NULL /\ N \subseteq Node /\ N \subseteq M
      /\ (T.root # NULL => T.root \in M) /\ M \subseteq Pointer /\ NULL \in Pointer
      /\ \A a \in M : \A x \in Side : T.kid[x][a] \in M \cup {NULL}
  <2>1. Linked(T, M)
    BY DEF Hung
  <2> QED
    BY <2>1, Nodes DEF Linked
<1>2. /\ (c # NULL => c \in N /\ T.parent[c] = z /\ c # T.root /\ c \in D[z]) /\ c # z
      /\ c \in N \cup {NULL}
  <2>1. c # NULL => c \in M /\ T.parent[c] = z /\ c # T.root /\ c # z /\ c \in D[z]
    BY KidFacts
  <2> QED
    BY <1>1, <2>1
<1>3. /\ p = NULL <=> z = T.root
      /\ p # NULL => p \in N /\ SideOf(T, p, z) \in Side /\ T.kid[SideOf(T, p, z)][p] = z /\ p \notin D[z]
  BY ParentFacts
<1>4. \A a \in M : \A x \in Side : T.kid[x][a] = z <=> a = p /\ x = SideOf(T, p, z)
  BY ChildOf
<1>5. /\ U \in Tree /\ U.color = T.color /\ U.root = (IF T.root = z THEN c ELSE T.root)
      /\ \A a \in N : \A x \in Side : U.kid[x][a] = IF T.kid[x][a] = z THEN c ELSE T.kid[x][a]
  BY DEF KidsCut
<1>6. /\ h \in [Pointer -> Nat] /\ h[NULL] = 0
      /\ \A a \in M : \A x \in Side : h[a] = h[T.kid[x][a]] + (IF T.color[a] = "BLACK" THEN 1 ELSE 0)
  BY DEF Even
<1>7. h[z] = h[c] + (IF T.color[z] = "BLACK" THEN 1 ELSE 0)
  BY <1>6
<1>8. /\ BLACKP(T, T.root)
      /\ \A a \in M : \A x \in Side : ~ (T.color[a] = "RED" /\ REDP(T, T.kid[x][a]))
  <2>1. BLACKP(T, T.root)
    BY DEF NoRedRed, BLACKP
  <2>2. ASSUME NEW a \in M, NEW x \in Side, T.color[a] = "RED", REDP(T, T.kid[x][a]) PROVE FALSE
    BY <2>2 DEF NoRedRed, REDP
  <2> QED
    BY <2>1, <2>2
<1>9. \A a \in N : \A x \in Side : T.kid[x][a] # NULL => T.kid[x][a] # c
  <2>1. \A a \in M : \A x \in Side : T.kid[x][a] # NULL => T.parent[T.kid[x][a]] = a
    BY KidFacts
  <2> QED
    BY <1>1, <1>2, <2>1
<1>10. h[c] \in Nat /\ \A a \in M : h[a] \in Nat /\ \A x \in Side : h[T.kid[x][a]] \in Nat
  BY <1>1, <1>2, <1>6
<1>11. SearchTree(U, N, E, z)
  OBVIOUS
<1> HIDE DEF c, p
<1>12. ASSUME T.color[z] = "RED" PROVE Even(U, N, h) /\ NoRedRed(U, N, NULL)
  <2>1. h[z] = h[c]
    BY <1>7, <1>10, <1>12
  <2>2. ASSUME NEW a \in N, NEW x \in Side PROVE h[a] = h[U.kid[x][a]] + (IF U.color[a] = "BLACK" THEN 1 ELSE 0)
    <3>1. h[U.kid[x][a]] = h[T.kid[x][a]]
      BY <1>5, <2>1
    <3>2. h[a] = h[T.kid[x][a]] + (IF T.color[a] = "BLACK" THEN 1 ELSE 0)
      BY <1>1, <1>6
    <3> QED
      BY <1>5, <3>1, <3>2
  <2>3. ASSUME NEW a \in N, NEW x \in Side, U.color[a] = "RED", REDP(U, U.kid[x][a]) PROVE FALSE
    <3>1. T.color[a] = "RED" /\ ~ REDP(T, T.kid[x][a]) /\ a \in M
      BY <1>1, <1>5, <1>8, <2>3
    <3>2. T.kid[x][a] # z
      BY <1>1, <1>12, <3>1 DEF REDP
    <3> QED
      BY <1>5, <2>3, <3>1, <3>2 DEF REDP
  <2>4. BLACKP(U, U.root)
    BY <1>1, <1>5, <1>8, <1>12 DEF BLACKP
  <2> QED
    BY <1>6, <2>2, <2>3, <2>4 DEF Even, NoRedRed
<1>13. ASSUME T.color[z] = "BLACK", REDP(U, c) PROVE BalancedBut(Paint(U, c, "BLACK"), N, z)
  <2> DEFINE V == Paint(U, c, "BLACK")
             i == [h EXCEPT ![c] = h[c] + 1]
  <2>1. c # NULL /\ c \in N /\ c \in Node /\ T.color[c] = "RED" /\ c \in Pointer
    BY <1>1, <1>2, <1>5, <1>13 DEF REDP
  <2>2. Painted(U, c, "BLACK", V)
    BY <1>5, <2>1, PaintParts
  <2> HIDE DEF V
  <2>3. SameShape(U, V) /\ V.color = [U.color EXCEPT ![c] = "BLACK"] /\ V.kid = U.kid /\ V.root = U.root
    BY <2>2 DEF Painted, SameShape
  <2>4. SearchTree(V, N, E, z)
    BY <1>11, <2>3, ShapeKept
  <2>5. \A a \in N : V.color[a] = IF a = c THEN "BLACK" ELSE T.color[a]
    <3>1. T.color \in [Node -> {"RED", "BLACK"}]
      BY <1>1, TreeParts
    <3> QED
      BY <1>1, <1>5, <2>3, <3>1
  <2>6. i \in [Pointer -> Nat] /\ \A a \in Pointer : i[a] = IF a = c THEN h[c] + 1 ELSE h[a]
    BY <1>6, <1>10, <2>1
  <2> HIDE DEF i
  <2>7. ASSUME NEW a \in N, NEW x \in Side PROVE i[V.kid[x][a]] = h[T.kid[x][a]]
    <3>1. V.kid[x][a] = IF T.kid[x][a] = z THEN c ELSE T.kid[x][a]
      BY <1>5, <2>3
    <3>2. CASE T.kid[x][a] = z
      BY <1>7, <1>10, <1>13, <2>1, <2>6, <3>1, <3>2
    <3>3. CASE T.kid[x][a] # z
      <4>1. T.kid[x][a] # c /\ T.kid[x][a] \in Pointer
        BY <1>1, <1>9, <2>1
      <4> QED
        BY <2>6, <3>1, <3>3, <4>1
    <3> QED
      BY <3>2, <3>3
  <2>8. Even(V, N, i)
    <3>1. ASSUME NEW a \in N, NEW x \in Side PROVE i[a] = i[V.kid[x][a]] + (IF V.color[a] = "BLACK" THEN 1 ELSE 0)
      <4>1. i[V.kid[x][a]] = h[T.kid[x][a]] /\ h[T.kid[x][a]] \in Nat
        BY <1>1, <1>10, <2>7
      <4>2. h[a] = h[T.kid[x][a]] + (IF T.color[a] = "BLACK" THEN 1 ELSE 0)
        BY <1>1, <1>6
      <4>3. i[a] = IF a = c THEN h[c] + 1 ELSE h[a]
        BY <1>1, <2>6
      <4>4. CASE a = c
        <5>1. h[a] = h[T.kid[x][a]] + 0
          BY <2>1, <4>2, <4>4
        <5> QED
          BY <2>5, <4>1, <4>3, <4>4, <5>1
      <4>5. CASE a # c
        BY <2>5, <4>1, <4>2, <4>3, <4>5
      <4> QED
        BY <4>4, <4>5
    <3>2. i[NULL] = 0
      BY <1>1, <1>6, <2>1, <2>6
    <3> QED
      BY <2>6, <3>1, <3>2 DEF Even
  <2>9. NoRedRed(V, N, NULL)
    <3>1. ASSUME NEW a \in N, NEW x \in Side, V.color[a] = "RED", REDP(V, V.kid[x][a]) PROVE FALSE
      <4>1. a # c /\ T.color[a] = "RED" /\ a \in M
        BY <1>1, <2>5, <3>1
      <4>2. V.kid[x][a] # NULL /\ V.color[V.kid[x][a]] = "RED"
        BY <3>1 DEF REDP
      <4>3. T.kid[x][a] # z
        BY <1>5, <2>1, <2>3, <2>5, <4>2
      <4>4. V.kid[x][a] = T.kid[x][a] /\ T.kid[x][a] \in N /\ T.kid[x][a] # c
        BY <1>1, <1>5, <1>9, <2>3, <4>1, <4>2, <4>3
      <4>5. T.color[T.kid[x][a]] = "RED"
        BY <2>5, <4>2, <4>4
      <4> QED
        BY <1>8, <4>1, <4>2, <4>4, <4>5 DEF REDP
    <3>2. BLACKP(V, V.root)
      <4>1. CASE T.root = z
        BY <1>5, <2>1, <2>3, <2>5, <4>1 DEF BLACKP
      <4>2. CASE T.root # z
        BY <1>1, <1>5, <1>8, <2>3, <2>5, <4>2 DEF BLACKP
      <4> QED
        BY <4>1, <4>2
    <3> QED
      BY <3>1, <3>2 DEF NoRedRed
  <2>10. BalancedBut(V, N, z)
    BY <2>4, <2>8, <2>9 DEF BalancedBut
  <2> QED
    BY <2>10 DEF V
<1>14. ASSUME T.color[z] = "BLACK", BLACKP(U, c) PROVE Lacking(U, N, E, h, p, c, z)
  <2>1. h[z] = h[c] + 1
    BY <1>7, <1>14
  <2>2. NoRedRed(U, N, NULL)
    <3>1. ASSUME NEW a \in N, NEW x \in Side, U.color[a] = "RED", REDP(U, U.kid[x][a]) PROVE FALSE
      <4>1. T.color[a] = "RED" /\ ~ REDP(T, T.kid[x][a]) /\ a \in M
        BY <1>1, <1>5, <1>8, <3>1
      <4>2. T.kid[x][a] = z
        BY <1>5, <3>1, <4>1 DEF REDP
      <4>3. U.kid[x][a] = c
        BY <1>5, <4>2
      <4> QED
        BY <1>14, <3>1, <4>3 DEF REDP, BLACKP
    <3>2. BLACKP(U, U.root)
      BY <1>5, <1>8, <1>14 DEF BLACKP
    <3> QED
      BY <3>1, <3>2 DEF NoRedRed
  <2>3. ASSUME p = NULL PROVE Even(U, N, h)
    <3>1. ASSUME NEW a \in N, NEW x \in Side PROVE h[a] = h[U.kid[x][a]] + (IF U.color[a] = "BLACK" THEN 1 ELSE 0)
      <4>1. T.kid[x][a] # z
        BY <1>1, <1>4, <2>3
      <4> QED
        BY <1>1, <1>5, <1>6, <4>1
    <3> QED
      BY <1>6, <3>1 DEF Even
  <2>4. ASSUME p # NULL PROVE p \in N /\ \E x \in Side : U.kid[x][p] = c /\ Level(U, N, h, p, x)
    <3> DEFINE w == SideOf(T, p, z)
    <3>1. p \in N /\ w \in Side /\ T.kid[w][p] = z
      BY <1>3, <2>4
    <3>2. U.kid[w][p] = c
      BY <1>5, <3>1
    <3> HIDE DEF w
    <3>3. ASSUME NEW a \in N, NEW x \in Side
          PROVE  h[a] = h[U.kid[x][a]] + (IF U.color[a] = "BLACK" THEN 1 ELSE 0) + (IF a = p /\ x = w THEN 1 ELSE 0)
      <4>1. h[a] = h[T.kid[x][a]] + (IF U.color[a] = "BLACK" THEN 1 ELSE 0)
        BY <1>1, <1>5, <1>6
      <4>2. U.kid[x][a] = IF a = p /\ x = w THEN c ELSE T.kid[x][a]
        BY <1>1, <1>4, <1>5 DEF w
      <4>3. a = p /\ x = w => T.kid[x][a] = z
        BY <3>1
      <4>4. h[T.kid[x][a]] \in Nat /\ h[c] \in Nat
        BY <1>1, <1>10
      <4> QED
        BY <2>1, <4>1, <4>2, <4>3, <4>4
    <3>4. Level(U, N, h, p, w)
      BY <1>6, <3>3 DEF Level
    <3> QED
      BY <3>1, <3>2, <3>4
  <2> QED
    BY <1>2, <1>11, <1>14, <2>2, <2>3, <2>4 DEF Lacking
<1> QED
  BY <1>12, <1>13, <1>14 DEF c, p

-----------------------------------------------------------------------------
(* A missing black node.                                                       *)

\* What is known at the node where one is missing.
LEMMA LackFacts ==
    ASSUME NEW T, NEW M, NEW D, NEW h, NEW p, NEW c, NEW z, Lacking(T, M, D, h, p, c, z), p # NULL
    PROVE  LET x == SideOf(T, p, c)
               o == Other(x)
               s == T.kid[o][p]
           IN  /\ Hung(T, M, D) /\ T \in Tree /\ M \in SUBSET Node /\ NULL \notin M /\ M \subseteq Pointer
               /\ p \in M /\ x \in Side /\ o \in Side /\ T.kid[x][p] = c /\ c \in M \cup {NULL}
               /\ s \in M /\ s # c /\ s # p /\ T.parent[s] = p /\ s # T.root
               /\ (c # NULL => T.parent[c] = p /\ c # p)
               /\ h \in [Pointer -> Nat] /\ h[NULL] = 0 /\ Level(T, M, h, p, x)
               /\ h[c] \in Nat /\ h[s] = h[c] + 1 /\ h[p] = h[c] + 1 + (IF T.color[p] = "BLACK" THEN 1 ELSE 0)
               /\ T.color \in [Node -> {"RED", "BLACK"}]
               /\ \A a \in M : \A y \in Side : T.kid[y][a] \in M \cup {NULL}
               /\ \A a \in M : \A y \in Side : ~ (T.color[a] = "RED" /\ REDP(T, T.kid[y][a]))
               /\ BLACKP(T, T.root) /\ BLACKP(T, c)
<1>1. /\ Hung(T, M, D) /\ T \in Tree /\ M \in SUBSET Node /\ NULL \notin M /\ M \subseteq Pointer /\ NULL \in Pointer
      /\ \A a \in M : \A y \in Side : T.kid[y][a] \in M \cup {NULL}
  <2>1. Hung(T, M, D) /\ Linked(T, M)
    BY DEF Lacking, SearchTree, Hung
  <2> QED
    BY <2>1, Nodes DEF Linked
<1>2. PICK x \in Side : T.kid[x][p] = c /\ Level(T, M, h, p, x)
  BY DEF Lacking
<1>3. p \in M /\ BLACKP(T, c) /\ c \in M \cup {NULL} /\ NoRedRed(T, M, NULL)
  BY DEF Lacking
<1> DEFINE o == Other(x)
           s == T.kid[o][p]
<1>4. SideOf(T, p, c) = x /\ s \in M /\ h[s] = h[c] + 1
  BY <1>1, <1>2, <1>3, LackSide DEF ChildSide
<1>5. o \in Side /\ o # x /\ Other(o) = x
  BY Sides
<1> HIDE DEF o
<1>6. T.parent[s] = p /\ s # T.root /\ s # p /\ s # c
  <2>1. s # NULL
    BY <1>1, <1>4
  <2> QED
    BY <1>1, <1>2, <1>3, <1>5, <2>1, KidFacts
<1>7. c # NULL => T.parent[c] = p /\ c # p
  BY <1>1, <1>2, <1>3, KidFacts
<1>8. /\ h \in [Pointer -> Nat] /\ h[NULL] = 0
      /\ h[p] = h[c] + (IF T.color[p] = "BLACK" THEN 1 ELSE 0) + (IF p = p /\ x = x THEN 1 ELSE 0)
  BY <1>2, <1>3 DEF Level
<1>9. h[c] \in Nat
  BY <1>1, <1>3, <1>8
<1>10. h[p] = h[c] + 1 + (IF T.color[p] = "BLACK" THEN 1 ELSE 0)
  BY <1>8, <1>9
<1>11. \A a \in M : \A y \in Side : ~ (T.color[a] = "RED" /\ REDP(T, T.kid[y][a]))
  <2>1. ASSUME NEW a \in M, NEW y \in Side, T.color[a] = "RED", REDP(T, T.kid[y][a]) PROVE FALSE
    BY <1>3, <2>1 DEF NoRedRed, REDP
  <2> QED
    BY <2>1
<1>12. BLACKP(T, T.root)
  BY <1>3 DEF NoRedRed, BLACKP
<1>13. T.color \in [Node -> {"RED", "BLACK"}]
  BY <1>1, TreeParts
<1> HIDE DEF s
<1> QED
  BY <1>1, <1>2, <1>3, <1>4, <1>5, <1>6, <1>7, <1>8, <1>9, <1>10, <1>11, <1>12, <1>13 DEF o, s

\* Case 5.
LEMMA PassUpLacks ==
    ASSUME NEW T, NEW M, NEW D, NEW h, NEW p, NEW c, NEW z, Lacking(T, M, D, h, p, c, z), AllBlack(T, p, c)
    PROVE  LET y == PassUp(T, p, c)
           IN  /\ \E i : Lacking(y[1], M, D, i, y[2], y[3], z)
               /\ y \in Tree \X Pointer \X Pointer
               /\ y[2] # NULL => Size(D, p) < Size(D, y[2])
<1> DEFINE x == SideOf(T, p, c)
           o == Other(x)
           s == T.kid[o][p]
           pp == T.parent[p]
           w == SideOf(T, pp, p)
           V == Paint(T, s, "RED")
           i == [h EXCEPT ![s] = h[s] - 1, ![p] = h[p] - 1]
<1>1. /\ p # NULL /\ BLACKP(T, p) /\ BLACKP(T, s) /\ \A y \in Side : BLACKP(T, T.kid[y][s])
  BY DEF AllBlack, Sibling
<1>2. /\ Hung(T, M, D) /\ T \in Tree /\ M \in SUBSET Node /\ NULL \notin M /\ M \subseteq Pointer
      /\ p \in M /\ x \in Side /\ o \in Side /\ T.kid[x][p] = c /\ c \in M \cup {NULL}
      /\ s \in M /\ s # c /\ s # p /\ T.parent[s] = p /\ s # T.root
      /\ (c # NULL => T.parent[c] = p /\ c # p)
      /\ h \in [Pointer -> Nat] /\ h[NULL] = 0 /\ Level(T, M, h, p, x)
      /\ h[c] \in Nat /\ h[s] = h[c] + 1 /\ h[p] = h[c] + 1 + (IF T.color[p] = "BLACK" THEN 1 ELSE 0)
      /\ T.color \in [Node -> {"RED", "BLACK"}]
      /\ \A a \in M : \A y \in Side : T.kid[y][a] \in M \cup {NULL}
      /\ \A a \in M : \A y \in Side : ~ (T.color[a] = "RED" /\ REDP(T, T.kid[y][a]))
      /\ BLACKP(T, T.root)
  BY <1>1, LackFacts
<1>3. PassUp(T, p, c) = <<V, pp, p>>
  BY DEF PassUp, Sibling
<1>4. /\ pp # NULL => pp \in M /\ w \in Side /\ T.kid[w][pp] = p /\ pp # p /\ Size(D, p) < Size(D, pp)
      /\ pp = NULL <=> p = T.root
      /\ pp \in Pointer
      /\ \A a \in M : \A y \in Side : T.kid[y][a] = p <=> a = pp /\ y = w
  <2>1. \A a \in M : \A y \in Side : T.kid[y][a] = p <=> a = pp /\ y = w
    BY <1>2, ChildOf
  <2> QED
    BY <1>2, <2>1, ParentFacts, Sizes, TreeParts
<1>5. \A a \in M : \A y \in Side : T.kid[y][a] # NULL => T.parent[T.kid[y][a]] = a /\ T.kid[y][a] # a
  BY <1>2, KidFacts
<1>6. s \in Node /\ p \in Node /\ s \in Pointer /\ p \in Pointer /\ c \in Pointer
  BY <1>2, Nodes
<1>7. \A y \in Side : y = x \/ y = o
  BY <1>2, Sides
<1>8. SearchTree(T, M, D, z) /\ T.color[p] = "BLACK" /\ T.color[s] = "BLACK"
  BY <1>1, <1>2 DEF Lacking, BLACKP
<1> HIDE DEF o, s, x, pp, w
<1>9. Painted(T, s, "RED", V)
  BY <1>2, <1>6, PaintParts
<1> HIDE DEF V
<1>10. SameShape(T, V) /\ V \in Tree /\ V.color = [T.color EXCEPT ![s] = "RED"] /\ V.kid = T.kid /\ V.root = T.root
  BY <1>9 DEF Painted, SameShape
<1>11. SearchTree(V, M, D, z)
  BY <1>8, <1>10, ShapeKept
<1>12. \A a \in M : V.color[a] = IF a = s THEN "RED" ELSE T.color[a]
  BY <1>2, <1>10
<1>13. h[p] = h[c] + 2
  BY <1>2, <1>8
<1>14. /\ i \in [Pointer -> Nat]
       /\ \A a \in Pointer : i[a] = IF a = s THEN h[c] ELSE IF a = p THEN h[c] + 1 ELSE h[a]
  BY <1>2, <1>6, <1>13
<1> HIDE DEF i
<1>15. ASSUME NEW a \in M, NEW y \in Side
       PROVE  i[a] = i[V.kid[y][a]] + (IF V.color[a] = "BLACK" THEN 1 ELSE 0) + (IF a = pp /\ y = w THEN 1 ELSE 0)
  <2> DEFINE k == T.kid[y][a]
  <2>1. /\ V.kid[y][a] = k /\ k \in Pointer /\ a \in Pointer /\ h[k] \in Nat /\ h[a] \in Nat
        /\ k = p <=> a = pp /\ y = w
        /\ k # NULL => T.parent[k] = a /\ k # a
        /\ k = NULL \/ k \in M
    <3>1. V.kid[y][a] = k
      BY <1>10
    <3>2. k \in Pointer /\ a \in Pointer /\ (k = NULL \/ k \in M)
      BY <1>2, Nodes
    <3> HIDE DEF k
    <3>3. h[k] \in Nat /\ h[a] \in Nat
      BY <1>2, <3>2
    <3> QED
      BY <1>4, <1>5, <3>1, <3>2, <3>3 DEF k
  <2>2. h[a] = h[k] + (IF T.color[a] = "BLACK" THEN 1 ELSE 0) + (IF a = p /\ y = x THEN 1 ELSE 0)
    BY <1>2 DEF Level
  <2>3. k = s => a = p
    BY <1>2, <2>1
  <2>4. (a = p /\ y = x => k = c) /\ (a = p /\ y = o => k = s)
    BY <1>2 DEF s
  <2> HIDE DEF k
  <2>5. CASE a = p
    <3>1. ~ (a = pp /\ y = w)
      BY <1>2, <1>4, <2>5
    <3>2. k = c => i[k] = h[c]
      BY <1>2, <1>6, <1>14
    <3>3. k = s => i[k] = h[c]
      BY <1>6, <1>14
    <3>4. i[a] = h[c] + 1
      BY <1>2, <1>6, <1>14, <2>5
    <3> QED
      BY <1>2, <1>7, <1>8, <1>12, <2>1, <2>4, <2>5, <3>1, <3>2, <3>3, <3>4
  <2>6. CASE a = s
    <3>1. k # s /\ k # p
      <4>1. k = p => T.parent[p] = s
        BY <1>2, <2>1, <2>6
      <4>2. T.parent[p] # s
        <5>1. s \in D[p] /\ (T.parent[p] # NULL => T.parent[p] \notin D[p])
          BY <1>2, KidFacts, ParentFacts DEF s
        <5> QED
          BY <1>2, <5>1
      <4> QED
        BY <1>2, <2>1, <2>6, <4>1, <4>2
    <3>2. i[k] = h[k] /\ i[a] = h[c]
      BY <1>14, <2>1, <2>6, <3>1
    <3>3. h[a] = h[k] + 1 + 0
      BY <1>2, <1>8, <2>2, <2>6
    <3>4. ~ (a = pp /\ y = w)
      BY <2>1, <3>1
    <3> QED
      BY <1>2, <1>12, <2>1, <2>6, <3>2, <3>3, <3>4
  <2>7. CASE a # p /\ a # s
    <3>1. k # s /\ i[a] = h[a]
      BY <1>14, <2>1, <2>3, <2>7
    <3>2. i[k] = IF k = p THEN h[k] - 1 ELSE h[k]
      BY <1>2, <1>13, <1>14, <2>1, <3>1
    <3>3. V.color[a] = T.color[a]
      BY <1>12, <2>7
    <3> QED
      BY <2>1, <2>2, <2>7, <3>1, <3>2, <3>3
  <2> QED
    BY <2>5, <2>6, <2>7
<1>16. i[NULL] = 0
  BY <1>2, <1>14, Nodes
<1>17. pp = NULL => Even(V, M, i)
  <2>1. SUFFICES ASSUME pp = NULL PROVE Even(V, M, i)
    OBVIOUS
  <2>2. ASSUME NEW a \in M, NEW y \in Side PROVE i[a] = i[V.kid[y][a]] + (IF V.color[a] = "BLACK" THEN 1 ELSE 0)
    <3>1. a # pp
      BY <1>2, <2>1
    <3>2. i[V.kid[y][a]] \in Nat
      <4>1. T.kid[y][a] \in Pointer
        BY <1>2, Nodes
      <4> QED
        BY <1>10, <1>14, <4>1
    <3> QED
      BY <1>15, <3>1, <3>2
  <2> QED
    BY <1>14, <1>16, <2>2 DEF Even
<1>18. Level(V, M, i, pp, w)
  BY <1>14, <1>15, <1>16 DEF Level
<1>19. NoRedRed(V, M, NULL)
  <2>1. ASSUME NEW a \in M, NEW y \in Side, V.color[a] = "RED", REDP(V, V.kid[y][a]) PROVE FALSE
    <3> DEFINE k == T.kid[y][a]
    <3>1. k # NULL /\ k \in M /\ V.color[k] = "RED" /\ T.parent[k] = a
      BY <1>2, <1>5, <1>10, <2>1 DEF REDP
    <3>2. CASE k = s
      BY <1>2, <1>8, <1>12, <2>1, <3>1, <3>2
    <3>3. CASE k # s /\ a = s
      BY <1>1, <1>12, <3>1, <3>3 DEF BLACKP
    <3>4. CASE k # s /\ a # s
      BY <1>2, <1>12, <2>1, <3>1, <3>4 DEF REDP
    <3> QED
      BY <3>2, <3>3, <3>4
  <2>2. BLACKP(V, V.root)
    <3>1. T.root = NULL \/ T.root \in M
      BY <1>2 DEF Hung, Linked
    <3> QED
      BY <1>2, <1>10, <1>12, <3>1 DEF BLACKP
  <2> QED
    BY <2>1, <2>2 DEF NoRedRed
<1>20. BLACKP(V, p)
  BY <1>2, <1>8, <1>12 DEF BLACKP
<1>21. pp # NULL => pp \in M /\ \E y \in Side : V.kid[y][pp] = p /\ Level(V, M, i, pp, y)
  BY <1>4, <1>10, <1>18
<1>22. Lacking(V, M, D, i, pp, p, z)
  BY <1>2, <1>11, <1>17, <1>19, <1>20, <1>21 DEF Lacking
<1> DEFINE y == PassUp(T, p, c)
<1>23. y[1] = V /\ y[2] = pp /\ y[3] = p /\ y \in Tree \X Pointer \X Pointer
  BY <1>3, <1>4, <1>6, <1>10
<1> HIDE DEF y
<1>24. Lacking(y[1], M, D, i, y[2], y[3], z)
  BY <1>22, <1>23
<1>25. y[2] # NULL => Size(D, p) < Size(D, y[2])
  BY <1>4, <1>23
<1> QED
  BY <1>23, <1>24, <1>25 DEF y

\* Two nodes are painted.
Repainted(T, a, c, b, d, U) ==
    /\ SameShape(T, U)
    /\ \A n \in Node : U.color[n] = IF n = b THEN d ELSE IF n = a THEN c ELSE T.color[n]

\* Painting one node and then another does that.
LEMMA TwoPainted ==
    ASSUME NEW T \in Tree, NEW a \in Node, NEW b \in Node, NEW c \in {"RED", "BLACK"}, NEW d \in {"RED", "BLACK"}
    PROVE  Repainted(T, a, c, b, d, Paint(Paint(T, a, c), b, d))
<1> DEFINE A == Paint(T, a, c)
           B == Paint(A, b, d)
<1>1. Painted(T, a, c, A)
  BY PaintParts
<1> HIDE DEF A
<1>2. SameShape(T, A) /\ A \in Tree /\ A.color = [T.color EXCEPT ![a] = c]
  BY <1>1 DEF Painted, SameShape
<1>3. Painted(A, b, d, B)
  BY <1>2, PaintParts
<1> HIDE DEF B
<1>4. SameShape(A, B) /\ B \in Tree /\ B.color = [A.color EXCEPT ![b] = d]
  BY <1>3 DEF Painted, SameShape
<1>5. SameShape(T, B)
  BY <1>2, <1>4 DEF SameShape
<1>6. T.color \in [Node -> {"RED", "BLACK"}]
  BY TreeParts
<1>7. \A n \in Node : B.color[n] = IF n = b THEN d ELSE IF n = a THEN c ELSE T.color[n]
  BY <1>2, <1>4, <1>6
<1>8. Repainted(T, a, c, b, d, B)
  BY <1>5, <1>7 DEF Repainted
<1> QED
  BY <1>8 DEF A, B

\* The levels after a rotation, where the lower node gets another one.
HeightsTurned(T, M, side, n, h, l, V, i) ==
    LET o == Other(side)
        r == T.kid[o][n]
    IN  /\ i \in [Pointer -> Nat] /\ i[NULL] = h[NULL] /\ i[n] = l /\ i[r] = h[n]
        /\ \A a \in M \ {n, r} : i[a] = h[a] /\ \A x \in Side : i[V.kid[x][a]] = h[T.kid[x][a]]
        /\ i[V.kid[side][n]] = h[T.kid[side][n]] /\ i[V.kid[o][n]] = h[T.kid[side][r]]
        /\ i[V.kid[side][r]] = l /\ i[V.kid[o][r]] = h[T.kid[o][r]]

\* The function of levels that is changed at the two nodes has them.
LEMMA TurnHeights ==
    ASSUME NEW T, NEW M, NEW D, Hung(T, M, D), NEW side \in Side, NEW n \in M, T.kid[Other(side)][n] # NULL,
           NEW V, Turned(T, M, side, n, V), NEW h \in [Pointer -> Nat], NEW l \in Nat
    PROVE  HeightsTurned(T, M, side, n, h, l, V, [h EXCEPT ![n] = l, ![T.kid[Other(side)][n]] = h[n]])
<1> DEFINE o == Other(side)
           r == T.kid[o][n]
           g == T.kid[side][r]
           k == T.kid[side][n]
           q == T.kid[o][r]
           i == [h EXCEPT ![n] = l, ![r] = h[n]]
<1>1. /\ M \subseteq Pointer /\ NULL \in Pointer /\ NULL \notin M /\ o \in Side
      /\ \A a \in M : \A x \in Side : T.kid[x][a] \in Pointer
      /\ r \in M /\ r # n /\ k # r /\ k # n /\ q # n /\ q # r /\ g # n /\ g # r /\ T.parent[r] = n
  <2>1. Apart(T, M, side, n)
    BY RotationApart
  <2>2. r \in M /\ r # n /\ k # r /\ k # n /\ q # n /\ g # n /\ T.parent[r] = n
    BY <2>1 DEF Apart
  <2>3. M \subseteq Pointer /\ NULL \in Pointer /\ NULL \notin M /\ o \in Side
    BY Nodes, Sides DEF Hung, Linked
  <2>4. q # r /\ g # r
    <3> HIDE DEF r
    <3> QED
      BY <2>2, <2>3, KidFacts
  <2>5. \A a \in M : \A x \in Side : T.kid[x][a] \in Pointer
    <3>1. \A a \in M : \A x \in Side : T.kid[x][a] \in M \cup {NULL}
      BY Branches
    <3> QED
      BY <2>3, <3>1
  <2> QED
    BY <2>2, <2>3, <2>4, <2>5
<1>2. /\ V.kid[side][n] = k /\ V.kid[o][n] = g /\ V.kid[side][r] = n /\ V.kid[o][r] = q
      /\ \A a \in M \ {n, r} : \A x \in Side : V.kid[x][a] = IF T.kid[x][a] = n THEN r ELSE T.kid[x][a]
  BY DEF Turned
<1>3. k \in Pointer /\ g \in Pointer /\ q \in Pointer
  BY <1>1
<1>4. \A a \in M : \A x \in Side : T.kid[x][a] # NULL => T.parent[T.kid[x][a]] = a
  BY KidFacts
<1> HIDE DEF o, r, g, k, q
<1>5. i \in [Pointer -> Nat] /\ \A a \in Pointer : i[a] = IF a = r THEN h[n] ELSE IF a = n THEN l ELSE h[a]
  BY <1>1
<1> HIDE DEF i
<1>6. ASSUME NEW a \in M \ {n, r}, NEW x \in Side PROVE i[V.kid[x][a]] = h[T.kid[x][a]]
  <2>1. T.kid[x][a] # r /\ T.kid[x][a] \in Pointer
    BY <1>1, <1>4
  <2> QED
    BY <1>1, <1>2, <1>5, <2>1
<1>7. i[NULL] = h[NULL] /\ i[n] = l /\ i[r] = h[n] /\ \A a \in M \ {n, r} : i[a] = h[a]
  BY <1>1, <1>5
<1>8. i[k] = h[k] /\ i[g] = h[g] /\ i[q] = h[q]
  BY <1>1, <1>3, <1>5
<1>9. HeightsTurned(T, M, side, n, h, l, V, i)
  BY <1>2, <1>5, <1>6, <1>7, <1>8 DEF HeightsTurned, o, r, g, k, q
<1> QED
  BY <1>9 DEF i, r, o

\* A black node is missing below p, whose other child is black and a red node is near.
Ready(T, M, D, h, p, c, z, x) ==
    /\ Lacking(T, M, D, h, p, c, z) /\ p # NULL /\ x = SideOf(T, p, c)
    /\ LET s == T.kid[Other(x)][p]
       IN  T.color[s] = "BLACK" /\ (T.color[p] = "RED" \/ \E y \in Side : REDP(T, T.kid[y][s]))

\* Painting nodes of a tree that is then rotated.
PaintedTurned(T, M, D, side, n, A, V, z) ==
    LET o == Other(side)
        r == T.kid[o][n]
    IN  /\ \E E : SearchTree(V, M, E, z)
        /\ V.color = A.color /\ V.root = (IF T.root = n THEN r ELSE T.root)
        /\ V.kid[side][n] = T.kid[side][n] /\ V.kid[o][n] = T.kid[side][r]
        /\ V.kid[side][r] = n /\ V.kid[o][r] = T.kid[o][r]
        /\ \A a \in M \ {n, r} : \A x \in Side : V.kid[x][a] = IF T.kid[x][a] = n THEN r ELSE T.kid[x][a]

\* Repainting and rotating gives such a tree.
LEMMA PaintTurn ==
    ASSUME NEW T, NEW M, NEW D, NEW z, SearchTree(T, M, D, z), NEW n \in M, NEW side \in Side,
           T.kid[Other(side)][n] # NULL, NEW A, SameShape(T, A),
           NEW h \in [Pointer -> Nat], NEW l \in Nat
    PROVE  LET V == rotate(A, side, n)
           IN  /\ PaintedTurned(T, M, D, side, n, A, V, z)
               /\ HeightsTurned(T, M, side, n, h, l, V, [h EXCEPT ![n] = l, ![T.kid[Other(side)][n]] = h[n]])
<1> DEFINE V == rotate(A, side, n)
           E == BelowTurned(A, D, side, n)
<1>1. SearchTree(A, M, D, z)
  BY ShapeKept
<1>2. A.root = T.root /\ A.kid = T.kid /\ A.parent = T.parent
  BY DEF SameShape
<1>3. Turned(A, M, side, n, V) /\ SearchTree(V, M, E, z)
  BY <1>1, <1>2, RotateTree
<1>4. Hung(A, M, D)
  BY <1>1 DEF SearchTree
<1> DEFINE i == [h EXCEPT ![n] = l, ![T.kid[Other(side)][n]] = h[n]]
           j == [h EXCEPT ![n] = l, ![A.kid[Other(side)][n]] = h[n]]
<1> HIDE DEF V, E
<1>5. PaintedTurned(T, M, D, side, n, A, V, z)
  BY <1>2, <1>3 DEF Turned, PaintedTurned
<1>6. HeightsTurned(A, M, side, n, h, l, V, j)
  BY <1>2, <1>3, <1>4, TurnHeights
<1>7. i = j
  BY <1>2
<1> HIDE DEF i, j
<1>8. HeightsTurned(T, M, side, n, h, l, V, i)
  <2> DEFINE F(K) ==
               LET o == Other(side)
                   r == K[o][n]
               IN  /\ i \in [Pointer -> Nat] /\ i[NULL] = h[NULL] /\ i[n] = l /\ i[r] = h[n]
                   /\ \A a \in M \ {n, r} : i[a] = h[a] /\ \A x \in Side : i[V.kid[x][a]] = h[K[x][a]]
                   /\ i[V.kid[side][n]] = h[K[side][n]] /\ i[V.kid[o][n]] = h[K[side][r]]
                   /\ i[V.kid[side][r]] = l /\ i[V.kid[o][r]] = h[K[o][r]]
  <2>1. F(A.kid)
    BY <1>6, <1>7 DEF HeightsTurned
  <2> HIDE DEF F
  <2>2. F(T.kid)
    BY <1>2, <2>1
  <2> QED
    BY ONLY <2>2 DEF HeightsTurned, F
<1> QED
  BY <1>5, <1>8 DEF V, i

\* The side of the child is known once its place is.
LEMMA LackChild ==
    ASSUME NEW T, NEW M, NEW D, NEW z, SearchTree(T, M, D, z), NEW h, NEW p, p \in M, NEW x, x \in Side,
           Level(T, M, h, p, x), NEW c, T.kid[x][p] = c
    PROVE  SideOf(T, p, c) = x
<1>1. Hung(T, M, D)
  BY DEF SearchTree
<1>2. ChildSide(T, M, h, p, x)
  BY <1>1, LackSide
<1> QED
  BY <1>2 DEF ChildSide

\* Case 4.
LEMMA RedSiblingReady ==
    ASSUME NEW T, NEW M, NEW D, NEW h, NEW p, NEW c, NEW z, Lacking(T, M, D, h, p, c, z), p # NULL, ~ AllBlack(T, p, c)
    PROVE  LET x == SideOf(T, p, c) IN \E E, i : Ready(RedSibling(T, x, p), M, E, i, p, c, z, x)
<1> DEFINE x == SideOf(T, p, c)
           o == Other(x)
           s == T.kid[o][p]
           near == T.kid[x][s]
           far == T.kid[o][s]
           A == Paint(Paint(T, p, "RED"), s, "BLACK")
           V == rotate(A, x, p)
<1>1. /\ Hung(T, M, D) /\ T \in Tree /\ M \in SUBSET Node /\ NULL \notin M /\ M \subseteq Pointer
      /\ p \in M /\ x \in Side /\ o \in Side /\ T.kid[x][p] = c /\ c \in M \cup {NULL}
      /\ s \in M /\ s # c /\ s # p /\ T.parent[s] = p /\ s # T.root
      /\ (c # NULL => T.parent[c] = p /\ c # p)
      /\ h \in [Pointer -> Nat] /\ h[NULL] = 0 /\ Level(T, M, h, p, x)
      /\ h[c] \in Nat /\ h[s] = h[c] + 1 /\ h[p] = h[c] + 1 + (IF T.color[p] = "BLACK" THEN 1 ELSE 0)
      /\ T.color \in [Node -> {"RED", "BLACK"}]
      /\ \A a \in M : \A y \in Side : T.kid[y][a] \in M \cup {NULL}
      /\ \A a \in M : \A y \in Side : ~ (T.color[a] = "RED" /\ REDP(T, T.kid[y][a]))
      /\ BLACKP(T, T.root) /\ BLACKP(T, c)
  BY LackFacts
<1>2. RedSibling(T, x, p) = IF REDP(T, s) THEN V ELSE T
  BY DEF RedSibling
<1>3. CASE ~ REDP(T, s)
  <2>1. T.color[s] = "BLACK"
    BY <1>1, <1>3 DEF REDP
  <2>2. T.color[p] = "RED" \/ \E y \in Side : REDP(T, T.kid[y][s])
    <3>1. ~ BLACKP(T, p) \/ ~ BLACKP(T, s) \/ \E y \in Side : ~ BLACKP(T, T.kid[y][s])
      BY DEF AllBlack, Sibling
    <3>2. ASSUME NEW a \in M \cup {NULL}, ~ BLACKP(T, a) PROVE REDP(T, a) /\ T.color[a] = "RED"
      BY <1>1, <3>2 DEF BLACKP, REDP
    <3> QED
      BY <1>1, <1>3, <3>1, <3>2
  <2>3. Ready(T, M, D, h, p, c, z, x)
    BY <2>1, <2>2 DEF Ready
  <2> QED
    BY <1>2, <1>3, <2>3
<1>4. CASE REDP(T, s)
  <2>1. T.color[s] = "RED" /\ T.color[p] = "BLACK" /\ h[p] = h[c] + 2
    BY <1>1, <1>4 DEF REDP
  <2>2. h[near] = h[c] + 1 /\ h[far] = h[c] + 1 /\ near \in M /\ far \in M
    <3>1. \A y \in Side : T.kid[y][s] \in M \cup {NULL} /\ h[T.kid[y][s]] \in Nat
      BY <1>1, Nodes
    <3>2. \A y \in Side : h[s] = h[T.kid[y][s]] + 0 + 0
      BY <1>1, <2>1 DEF Level
    <3>3. ASSUME NEW y \in Side PROVE h[T.kid[y][s]] = h[c] + 1 /\ T.kid[y][s] \in M
      <4> DEFINE k == T.kid[y][s]
      <4>1. h[s] = h[k] + 0 + 0 /\ k \in M \cup {NULL} /\ h[k] \in Nat
        BY <3>1, <3>2
      <4>2. h[s] = h[c] + 1 /\ h[c] \in Nat /\ h[NULL] = 0
        BY <1>1
      <4> HIDE DEF k, s
      <4>3. h[k] = h[c] + 1 /\ k \in M
        BY <4>1, <4>2
      <4> QED
        BY <4>3 DEF k
    <3> QED
      BY <1>1, <3>3
  <2>3. T.color[near] = "BLACK" /\ near # p /\ near # s
    <3>1. T.parent[near] = s /\ near # s
      <4>1. NULL \notin M /\ s \in M /\ x \in Side /\ near \in M /\ Hung(T, M, D)
        BY <1>1, <2>2
      <4> QED
        BY <4>1, KidFacts
    <3>2. T.parent[p] # s
      <4>1. s \in D[p] /\ (T.parent[p] # NULL => T.parent[p] \notin D[p])
        BY <1>1, KidFacts, ParentFacts
      <4> QED
        BY <1>1, <4>1
    <3>3. T.color[near] # "RED" /\ near \in Node
      BY <1>1, <2>1, <2>2 DEF REDP
    <3> QED
      BY <1>1, <3>1, <3>2, <3>3
  <2>4. o # x /\ Other(o) = x /\ \A y \in Side : y = x \/ y = o
    BY <1>1, Sides
  <2>5. Repainted(T, p, "RED", s, "BLACK", A)
    BY <1>1, TwoPainted
  <2> HIDE DEF A
  <2>6. SameShape(T, A) /\ \A a \in Node : A.color[a] = IF a = s THEN "BLACK" ELSE IF a = p THEN "RED" ELSE T.color[a]
    BY <2>5 DEF Repainted
  <2> DEFINE i == [h EXCEPT ![p] = h[c] + 1, ![s] = h[p]]
  <2>7. PaintedTurned(T, M, D, x, p, A, V, z) /\ HeightsTurned(T, M, x, p, h, h[c] + 1, V, i)
    <3>1. SearchTree(T, M, D, z) /\ s # NULL /\ h[c] + 1 \in Nat
      BY <1>1 DEF Lacking
    <3> QED
      BY <1>1, <2>6, <3>1, PaintTurn
  <2> HIDE DEF V, i
  <2>8. PICK E : SearchTree(V, M, E, z)
    BY <2>7 DEF PaintedTurned
  <2> HIDE DEF x, s, near, far, o
  <2>9. /\ V.color = A.color /\ V.root = (IF T.root = p THEN s ELSE T.root)
        /\ V.kid[x][p] = c /\ V.kid[o][p] = near /\ V.kid[x][s] = p /\ V.kid[o][s] = far
        /\ \A a \in M \ {p, s} : \A y \in Side : V.kid[y][a] = IF T.kid[y][a] = p THEN s ELSE T.kid[y][a]
    BY <1>1, <2>7 DEF PaintedTurned, s, near, far, o
  <2>10. /\ i \in [Pointer -> Nat] /\ i[NULL] = 0 /\ i[p] = h[c] + 1 /\ i[s] = h[p]
         /\ \A a \in M \ {p, s} : i[a] = h[a] /\ \A y \in Side : i[V.kid[y][a]] = h[T.kid[y][a]]
         /\ i[V.kid[x][p]] = h[c] /\ i[V.kid[o][p]] = h[near] /\ i[V.kid[x][s]] = h[c] + 1 /\ i[V.kid[o][s]] = h[far]
    BY <1>1, <2>7 DEF HeightsTurned, s, near, far, o
  <2>11. \A a \in M : V.color[a] = IF a = s THEN "BLACK" ELSE IF a = p THEN "RED" ELSE T.color[a]
    BY <1>1, <2>6, <2>9
  <2>12. ASSUME NEW a \in M, NEW y \in Side
         PROVE  i[a] = i[V.kid[y][a]] + (IF V.color[a] = "BLACK" THEN 1 ELSE 0) + (IF a = p /\ y = x THEN 1 ELSE 0)
    <3>1. CASE a = p
      BY <1>1, <2>2, <2>4, <2>10, <2>11, <3>1
    <3>2. CASE a = s
      BY <1>1, <2>1, <2>2, <2>4, <2>10, <2>11, <3>2
    <3>3. CASE a # p /\ a # s
      <4>1. h[a] = h[T.kid[y][a]] + (IF T.color[a] = "BLACK" THEN 1 ELSE 0) + (IF a = p /\ y = x THEN 1 ELSE 0)
        BY <1>1 DEF Level
      <4> QED
        BY <2>10, <2>11, <3>3, <4>1
    <3> QED
      BY <3>1, <3>2, <3>3
  <2>13. Level(V, M, i, p, x)
    BY <2>10, <2>12 DEF Level
  <2>14. NoRedRed(V, M, NULL)
    <3>1. ASSUME NEW a \in M, NEW y \in Side, V.color[a] = "RED", REDP(V, V.kid[y][a]) PROVE FALSE
      <4>1. CASE a = p
        <5>1. V.kid[y][a] = c \/ V.kid[y][a] = near
          BY <2>4, <2>9, <4>1
        <5>2. V.kid[y][a] # NULL /\ V.color[V.kid[y][a]] = "RED"
          BY <3>1 DEF REDP
        <5> QED
          BY <1>1, <2>2, <2>3, <2>11, <5>1, <5>2 DEF BLACKP
      <4>2. CASE a = s
        BY <2>11, <3>1, <4>2
      <4>3. CASE a # p /\ a # s
        <5>1. T.color[a] = "RED" /\ ~ REDP(T, T.kid[y][a]) /\ T.kid[y][a] \in M \cup {NULL}
          BY <1>1, <2>11, <3>1, <4>3
        <5>2. V.kid[y][a] # NULL /\ V.color[V.kid[y][a]] = "RED"
          BY <3>1 DEF REDP
        <5>3. V.kid[y][a] # s
          BY <1>1, <2>11, <5>2
        <5>4. V.kid[y][a] = T.kid[y][a] /\ T.kid[y][a] # p /\ T.kid[y][a] # s
          BY <2>9, <4>3, <5>3
        <5> QED
          BY <1>1, <2>11, <5>1, <5>2, <5>4 DEF REDP
      <4> QED
        BY <4>1, <4>2, <4>3
    <3>2. BLACKP(V, V.root)
      <4>1. T.root = NULL \/ T.root \in M
        BY <1>1 DEF Hung, Linked
      <4> QED
        BY <1>1, <2>9, <2>11, <4>1 DEF BLACKP
    <3> QED
      BY <3>1, <3>2 DEF NoRedRed
  <2>15. BLACKP(V, c)
    BY <1>1, <2>11 DEF BLACKP
  <2>16. Lacking(V, M, E, i, p, c, z)
    BY <1>1, <2>8, <2>9, <2>13, <2>14, <2>15 DEF Lacking
  <2>17. SideOf(V, p, c) = x
    <3>1. p \in M /\ x \in Side
      BY <1>1
    <3> QED
      BY <2>8, <2>9, <2>13, <3>1, LackChild
  <2>18. V.color[V.kid[o][p]] = "BLACK" /\ V.color[p] = "RED"
    BY <1>1, <2>2, <2>3, <2>9, <2>11
  <2>19. Ready(V, M, E, i, p, c, z, x)
    BY <1>1, <2>16, <2>17, <2>18 DEF Ready, o
  <2> QED
    BY <1>2, <1>4, <2>19 DEF x
<1> QED
  BY <1>3, <1>4

\* Case 6.
LEMMA NoRedNear ==
    ASSUME NEW T, NEW M, NEW D, NEW h, NEW p, NEW c, NEW z, NEW x, Ready(T, M, D, h, p, c, z, x),
           \A y \in Side : BLACKP(T, T.kid[y][T.kid[Other(x)][p]])
    PROVE  BalancedBut(Paint(Paint(T, p, "BLACK"), T.kid[Other(x)][p], "RED"), M, z)
<1> DEFINE o == Other(x)
           s == T.kid[o][p]
           U == Paint(Paint(T, p, "BLACK"), s, "RED")
           i == [h EXCEPT ![s] = h[c]]
<1>1. /\ Lacking(T, M, D, h, p, c, z) /\ p # NULL /\ x = SideOf(T, p, c) /\ T.color[s] = "BLACK"
      /\ T.color[p] = "RED" /\ SearchTree(T, M, D, z)
  <2>1. \A y \in Side : ~ REDP(T, T.kid[y][s])
    BY DEF BLACKP, REDP
  <2> QED
    BY <2>1 DEF Ready, Lacking
<1>2. /\ Hung(T, M, D) /\ T \in Tree /\ M \in SUBSET Node /\ NULL \notin M /\ M \subseteq Pointer
      /\ p \in M /\ x \in Side /\ o \in Side /\ T.kid[x][p] = c /\ c \in M \cup {NULL}
      /\ s \in M /\ s # c /\ s # p /\ T.parent[s] = p /\ s # T.root
      /\ (c # NULL => T.parent[c] = p /\ c # p)
      /\ h \in [Pointer -> Nat] /\ h[NULL] = 0 /\ Level(T, M, h, p, x)
      /\ h[c] \in Nat /\ h[s] = h[c] + 1 /\ h[p] = h[c] + 1 + (IF T.color[p] = "BLACK" THEN 1 ELSE 0)
      /\ T.color \in [Node -> {"RED", "BLACK"}]
      /\ \A a \in M : \A y \in Side : T.kid[y][a] \in M \cup {NULL}
      /\ \A a \in M : \A y \in Side : ~ (T.color[a] = "RED" /\ REDP(T, T.kid[y][a]))
      /\ BLACKP(T, T.root) /\ BLACKP(T, c)
  BY <1>1, LackFacts
<1>3. \A a \in M : \A y \in Side : T.kid[y][a] # NULL => T.parent[T.kid[y][a]] = a /\ T.kid[y][a] # a
  BY <1>2, KidFacts
<1>4. \A y \in Side : BLACKP(T, T.kid[y][s]) /\ (y = x \/ y = o)
  BY <1>2, Sides
<1>5. Repainted(T, p, "BLACK", s, "RED", U)
  BY <1>2, TwoPainted
<1> HIDE DEF U
<1>6. SameShape(T, U) /\ \A a \in Node : U.color[a] = IF a = s THEN "RED" ELSE IF a = p THEN "BLACK" ELSE T.color[a]
  BY <1>5 DEF Repainted
<1>7. U.kid = T.kid /\ U.root = T.root /\ SearchTree(U, M, D, z)
  BY <1>1, <1>6, ShapeKept DEF SameShape
<1>8. \A a \in M : U.color[a] = IF a = s THEN "RED" ELSE IF a = p THEN "BLACK" ELSE T.color[a]
  BY <1>2, <1>6
<1> HIDE DEF s, o
<1>9. i \in [Pointer -> Nat] /\ \A a \in Pointer : i[a] = IF a = s THEN h[c] ELSE h[a]
  BY <1>2
<1> HIDE DEF i
<1>10. h[p] = h[c] + 1
  BY <1>1, <1>2
<1>11. ASSUME NEW a \in M, NEW y \in Side PROVE i[a] = i[U.kid[y][a]] + (IF U.color[a] = "BLACK" THEN 1 ELSE 0)
  <2> DEFINE k == T.kid[y][a]
  <2>1. U.kid[y][a] = k /\ k \in Pointer /\ a \in Pointer /\ (k # NULL => T.parent[k] = a /\ k # a)
    <3>1. U.kid[y][a] = k /\ k \in M \cup {NULL} /\ (k # NULL => T.parent[k] = a /\ k # a)
      BY <1>2, <1>3, <1>7
    <3> HIDE DEF k
    <3> QED
      BY <1>2, <3>1, Nodes
  <2>2. h[a] = h[k] + (IF T.color[a] = "BLACK" THEN 1 ELSE 0) + (IF a = p /\ y = x THEN 1 ELSE 0)
    BY <1>2 DEF Level
  <2>3. (a = p /\ y = x => k = c) /\ (a = p /\ y = o => k = s)
    BY <1>2 DEF s
  <2> HIDE DEF k
  <2>4. k = s => a = p
    BY <1>2, <2>1
  <2>5. h[k] \in Nat
    BY <1>2, <2>1
  <2>6. CASE a = p
    BY <1>2, <1>4, <1>8, <1>9, <1>10, <2>1, <2>2, <2>3, <2>6
  <2>7. CASE a = s
    BY <1>1, <1>2, <1>8, <1>9, <2>1, <2>2, <2>5, <2>7
  <2>8. CASE a # p /\ a # s
    BY <1>8, <1>9, <2>1, <2>2, <2>4, <2>5, <2>8
  <2> QED
    BY <2>6, <2>7, <2>8
<1>12. i[NULL] = 0
  BY <1>2, <1>9, Nodes
<1>13. Even(U, M, i)
  BY <1>9, <1>11, <1>12 DEF Even
<1>14. NoRedRed(U, M, NULL)
  <2>1. ASSUME NEW a \in M, NEW y \in Side, U.color[a] = "RED", REDP(U, U.kid[y][a]) PROVE FALSE
    <3> DEFINE k == T.kid[y][a]
    <3>1. k # NULL /\ k \in M /\ U.color[k] = "RED" /\ T.parent[k] = a /\ k # a
      BY <1>2, <1>3, <1>7, <2>1 DEF REDP
    <3>2. a # p /\ k # p
      BY <1>2, <1>8, <2>1, <3>1
    <3>3. k # s /\ T.color[k] = "RED"
      BY <1>2, <1>8, <3>1, <3>2
    <3>4. CASE a = s
      BY <1>4, <3>1, <3>3, <3>4 DEF BLACKP
    <3>5. CASE a # s
      BY <1>2, <1>8, <2>1, <3>1, <3>2, <3>3, <3>5 DEF REDP
    <3> QED
      BY <3>4, <3>5
  <2>2. BLACKP(U, U.root)
    <3>1. T.root = NULL \/ T.root \in M
      BY <1>2 DEF Hung, Linked
    <3> QED
      BY <1>2, <1>7, <1>8, <3>1 DEF BLACKP
  <2> QED
    BY <2>1, <2>2 DEF NoRedRed
<1>15. BalancedBut(U, M, z)
  BY <1>7, <1>13, <1>14 DEF BalancedBut
<1> QED
  BY <1>15 DEF U, s, o

\* Case 7.
LEMMA NearReady ==
    ASSUME NEW T, NEW M, NEW D, NEW h, NEW p, NEW c, NEW z, NEW x, Ready(T, M, D, h, p, c, z, x),
           ~ \A y \in Side : BLACKP(T, T.kid[y][T.kid[Other(x)][p]])
    PROVE  LET V == NearNephew(T, x, p)
           IN  (\E E, i : Ready(V, M, E, i, p, c, z, x)) /\ REDP(V, V.kid[Other(x)][V.kid[Other(x)][p]])
<1> DEFINE o == Other(x)
           s == T.kid[o][p]
           near == T.kid[x][s]
           far == T.kid[o][s]
           A == Paint(Paint(T, s, "RED"), near, "BLACK")
           V == rotate(A, o, s)
<1>1. /\ Lacking(T, M, D, h, p, c, z) /\ p # NULL /\ x = SideOf(T, p, c) /\ T.color[s] = "BLACK"
      /\ SearchTree(T, M, D, z)
  BY DEF Ready, Lacking
<1>2. /\ Hung(T, M, D) /\ T \in Tree /\ M \in SUBSET Node /\ NULL \notin M /\ M \subseteq Pointer
      /\ p \in M /\ x \in Side /\ o \in Side /\ T.kid[x][p] = c /\ c \in M \cup {NULL}
      /\ s \in M /\ s # c /\ s # p /\ T.parent[s] = p /\ s # T.root
      /\ (c # NULL => T.parent[c] = p /\ c # p)
      /\ h \in [Pointer -> Nat] /\ h[NULL] = 0 /\ Level(T, M, h, p, x)
      /\ h[c] \in Nat /\ h[s] = h[c] + 1 /\ h[p] = h[c] + 1 + (IF T.color[p] = "BLACK" THEN 1 ELSE 0)
      /\ T.color \in [Node -> {"RED", "BLACK"}]
      /\ \A a \in M : \A y \in Side : T.kid[y][a] \in M \cup {NULL}
      /\ \A a \in M : \A y \in Side : ~ (T.color[a] = "RED" /\ REDP(T, T.kid[y][a]))
      /\ BLACKP(T, T.root) /\ BLACKP(T, c)
  BY <1>1, LackFacts
<1>3. NearNephew(T, x, p) = IF REDP(T, near) /\ BLACKP(T, far) THEN V ELSE T
  BY DEF NearNephew
<1>4. o # x /\ Other(o) = x /\ \A y \in Side : y = x \/ y = o
  BY <1>2, Sides
<1>5. \A a \in M \cup {NULL} : REDP(T, a) <=> ~ BLACKP(T, a)
  BY <1>2 DEF REDP, BLACKP
<1>6. near \in M \cup {NULL} /\ far \in M \cup {NULL}
  BY <1>2
<1>7. CASE ~ (REDP(T, near) /\ BLACKP(T, far))
  <2>1. REDP(T, far)
    BY <1>4, <1>5, <1>6, <1>7
  <2> QED
    BY <1>3, <1>7, <2>1
<1>8. CASE REDP(T, near) /\ BLACKP(T, far)
  <2>1. near \in M /\ near # NULL /\ T.color[near] = "RED" /\ T.parent[near] = s /\ near # s /\ near # T.root /\ far # near
    <3>1. near \in M /\ near # NULL /\ T.color[near] = "RED"
      BY <1>2, <1>6, <1>8 DEF REDP
    <3>2. Other(x) = o
      OBVIOUS
    <3> HIDE DEF o, s
    <3> QED
      BY <1>2, <3>1, <3>2, KidFacts
  <2>2. near # p /\ near # c
    <3>1. T.parent[p] # s
      <4>1. s \in D[p] /\ (T.parent[p] # NULL => T.parent[p] \notin D[p])
        BY <1>2, KidFacts, ParentFacts
      <4> QED
        BY <1>2, <4>1
    <3> QED
      BY <1>2, <2>1, <3>1
  <2> DEFINE gx == T.kid[x][near]
             go == T.kid[o][near]
  <2>3. /\ gx \in M \cup {NULL} /\ go \in M \cup {NULL} /\ ~ REDP(T, go)
        /\ (go # NULL => T.parent[go] = near /\ go # near /\ go # s)
    <3> HIDE DEF near, s, o
    <3>1. gx \in M \cup {NULL} /\ go \in M \cup {NULL} /\ ~ REDP(T, go)
      BY <1>2, <2>1
    <3>2. go # NULL => T.parent[go] = near /\ go # near
      BY <1>2, <2>1, KidFacts
    <3> HIDE DEF gx, go
    <3> QED
      BY <1>2, <2>2, <3>1, <3>2
  <2>4. \A a \in M : \A y \in Side : T.kid[y][a] # NULL => T.parent[T.kid[y][a]] = a /\ T.kid[y][a] # a
    BY <1>2, KidFacts
  <2>5. h[near] = h[c] /\ h[far] = h[c] /\ h[gx] = h[c] /\ h[go] = h[c]
    <3>1. \A a \in M : \A y \in Side : a # p =>
            h[a] = h[T.kid[y][a]] + (IF T.color[a] = "BLACK" THEN 1 ELSE 0) + 0
      BY <1>2 DEF Level
    <3>2. h[near] \in Nat /\ h[far] \in Nat /\ h[gx] \in Nat /\ h[go] \in Nat
      <4>1. near \in Pointer /\ far \in Pointer /\ gx \in Pointer /\ go \in Pointer
        BY <1>2, <1>6, <2>1, <2>3, Nodes
      <4> HIDE DEF near, far, gx, go
      <4> QED
        BY <1>2, <4>1
    <3>3. h[s] = h[near] + 1 /\ h[s] = h[far] + 1
      <4>1. s \in M /\ s # p /\ T.color[s] = "BLACK" /\ x \in Side /\ o \in Side
        BY <1>1, <1>2
      <4>2. h[s] = h[near] + 1 + 0 /\ h[s] = h[far] + 1 + 0
        BY <3>1, <4>1
      <4> QED
        BY <3>2, <4>2
    <3>4. h[near] = h[gx] /\ h[near] = h[go]
      <4> HIDE DEF near
      <4> QED
          BY <1>2, <2>1, <2>2, <3>1, <3>2
    <3> HIDE DEF near, s, o, far, gx, go
    <3> QED
      BY <1>2, <3>2, <3>3, <3>4
  <2>6. Repainted(T, s, "RED", near, "BLACK", A)
    BY <1>2, <2>1, TwoPainted
  <2> HIDE DEF A
  <2>7. SameShape(T, A) /\ \A a \in Node : A.color[a] = IF a = near THEN "BLACK" ELSE IF a = s THEN "RED" ELSE T.color[a]
    BY <2>6 DEF Repainted
  <2> DEFINE i == [h EXCEPT ![s] = h[c], ![T.kid[Other(o)][s]] = h[s]]
  <2>8. PaintedTurned(T, M, D, o, s, A, V, z) /\ HeightsTurned(T, M, o, s, h, h[c], V, i)
    <3>1. T.kid[Other(o)][s] # NULL
      BY <1>4, <2>1
    <3> HIDE DEF o, s
    <3> QED
      BY <1>1, <1>2, <2>7, <3>1, PaintTurn
  <2> HIDE DEF V, i
  <2>9. PICK E : SearchTree(V, M, E, z)
    BY <2>8 DEF PaintedTurned
  <2>10. /\ V.color = A.color /\ V.root = T.root
         /\ V.kid[o][s] = far /\ V.kid[x][s] = go /\ V.kid[o][near] = s /\ V.kid[x][near] = gx
         /\ \A a \in M \ {s, near} : \A y \in Side : V.kid[y][a] = IF T.kid[y][a] = s THEN near ELSE T.kid[y][a]
    <3> HIDE DEF o, s
    <3> QED
      BY <1>2, <1>4, <2>8 DEF PaintedTurned
  <2>11. /\ i \in [Pointer -> Nat] /\ i[NULL] = 0 /\ i[s] = h[c] /\ i[near] = h[s]
         /\ \A a \in M \ {s, near} : i[a] = h[a] /\ \A y \in Side : i[V.kid[y][a]] = h[T.kid[y][a]]
         /\ i[V.kid[o][s]] = h[far] /\ i[V.kid[x][s]] = h[go] /\ i[V.kid[o][near]] = h[c] /\ i[V.kid[x][near]] = h[gx]
    <3> HIDE DEF o, s
    <3> QED
      BY <1>2, <1>4, <2>8 DEF HeightsTurned
  <2>12. \A a \in M : V.color[a] = IF a = near THEN "BLACK" ELSE IF a = s THEN "RED" ELSE T.color[a]
    <3> HIDE DEF near, s
    <3> QED
      BY <1>2, <2>7, <2>10
  <2>13. V.kid[x][p] = c /\ V.kid[o][p] = near
    BY <1>2, <2>2, <2>10
  <2>14. T.root = NULL \/ T.root \in M
    BY <1>2 DEF Hung, Linked
  <2>15. Other(x) = o
    OBVIOUS
  <2> HIDE DEF o, s, near, far, gx, go
  <2>16. ASSUME NEW a \in M, NEW y \in Side
         PROVE  i[a] = i[V.kid[y][a]] + (IF V.color[a] = "BLACK" THEN 1 ELSE 0) + (IF a = p /\ y = x THEN 1 ELSE 0)
    <3>1. CASE a = s
      BY <1>2, <1>4, <2>1, <2>5, <2>11, <2>12, <3>1
    <3>2. CASE a = near
      BY <1>2, <1>4, <2>1, <2>2, <2>5, <2>11, <2>12, <3>2
    <3>3. CASE a # near /\ a # s
      <4>1. h[a] = h[T.kid[y][a]] + (IF T.color[a] = "BLACK" THEN 1 ELSE 0) + (IF a = p /\ y = x THEN 1 ELSE 0)
        BY <1>2 DEF Level
      <4> QED
        BY <2>11, <2>12, <3>3, <4>1
    <3> QED
      BY <3>1, <3>2, <3>3
  <2>17. Level(V, M, i, p, x)
    BY <2>11, <2>16 DEF Level
  <2>18. NoRedRed(V, M, NULL)
    <3>1. ASSUME NEW a \in M, NEW y \in Side, V.color[a] = "RED", REDP(V, V.kid[y][a]) PROVE FALSE
      <4>0. V.kid[y][a] # NULL /\ V.color[V.kid[y][a]] = "RED"
        BY <3>1 DEF REDP
      <4>1. a # near
        BY <2>12, <3>1
      <4>2. CASE a = s
        <5>1. V.kid[y][a] = far \/ V.kid[y][a] = go
          BY <1>4, <2>10, <4>2
        <5>2. far # NULL => far # s
          BY <1>2, <2>4 DEF far
        <5>3. V.kid[y][a] = far => FALSE
          BY <1>6, <1>8, <2>1, <2>12, <4>0, <5>2 DEF BLACKP
        <5>4. V.kid[y][a] = go => FALSE
          BY <2>3, <2>12, <4>0 DEF REDP
        <5> QED
          BY <5>1, <5>3, <5>4
      <4>3. CASE a # s
        <5> DEFINE k == T.kid[y][a]
        <5>1. T.color[a] = "RED" /\ ~ REDP(T, k) /\ k \in M \cup {NULL}
          BY <1>2, <2>12, <3>1, <4>1, <4>3
        <5>2. V.kid[y][a] # near
          BY <2>1, <2>12, <4>0
        <5>3. V.kid[y][a] = k /\ k # s
          BY <2>10, <4>1, <4>3, <5>2
        <5> QED
          BY <2>1, <2>12, <4>0, <5>1, <5>2, <5>3 DEF REDP
      <4> QED
        BY <4>1, <4>2, <4>3
    <3>2. BLACKP(V, V.root)
      <4>1. V.root = T.root /\ T.root # s /\ T.root # near /\ BLACKP(T, T.root)
        BY <1>2, <2>1, <2>10
      <4> QED
        BY <2>12, <2>14, <4>1 DEF BLACKP
    <3> QED
      BY <3>1, <3>2 DEF NoRedRed
  <2>19. BLACKP(V, c)
    BY <1>2, <2>2, <2>12 DEF BLACKP
  <2>20. Lacking(V, M, E, i, p, c, z)
    BY <1>1, <1>2, <2>9, <2>13, <2>17, <2>18, <2>19 DEF Lacking
  <2>21. SideOf(V, p, c) = x
    <3>1. p \in M /\ x \in Side
      BY <1>2
    <3> QED
      BY <2>9, <2>13, <2>17, <3>1, LackChild
  <2>22. V.color[near] = "BLACK" /\ REDP(V, s) /\ V.kid[o][p] = near /\ V.kid[o][near] = s
    BY <1>2, <2>1, <2>10, <2>12, <2>13 DEF REDP
  <2>23. Ready(V, M, E, i, p, c, z, x)
    BY <1>1, <1>2, <2>15, <2>20, <2>21, <2>22 DEF Ready
  <2>24. (\E F, j : Ready(V, M, F, j, p, c, z, x)) /\ REDP(V, V.kid[o][V.kid[o][p]])
    BY <2>22, <2>23
  <2>25. NearNephew(T, x, p) = V
    BY <1>3, <1>8
  <2> QED
    BY <2>15, <2>24, <2>25
<1> QED
  BY <1>7, <1>8

\* Case 8.
LEMMA FarDone ==
    ASSUME NEW T, NEW M, NEW D, NEW h, NEW p, NEW c, NEW z, NEW x, Ready(T, M, D, h, p, c, z, x),
           REDP(T, T.kid[Other(x)][T.kid[Other(x)][p]])
    PROVE  BalancedBut(FarNephew(T, x, p), M, z)
<1> DEFINE o == Other(x)
           s == T.kid[o][p]
           near == T.kid[x][s]
           far == T.kid[o][s]
           C == Paint(Paint(T, s, T.color[p]), p, "BLACK")
           A == Paint(C, far, "BLACK")
           V == rotate(A, x, p)
           H == h[c]
           j == [h EXCEPT ![far] = H + 1]
<1>1. /\ Lacking(T, M, D, h, p, c, z) /\ p # NULL /\ x = SideOf(T, p, c) /\ T.color[s] = "BLACK"
      /\ SearchTree(T, M, D, z)
  BY DEF Ready, Lacking
<1>2. /\ Hung(T, M, D) /\ T \in Tree /\ M \in SUBSET Node /\ NULL \notin M /\ M \subseteq Pointer
      /\ p \in M /\ x \in Side /\ o \in Side /\ T.kid[x][p] = c /\ c \in M \cup {NULL}
      /\ s \in M /\ s # c /\ s # p /\ T.parent[s] = p /\ s # T.root
      /\ (c # NULL => T.parent[c] = p /\ c # p)
      /\ h \in [Pointer -> Nat] /\ h[NULL] = 0 /\ Level(T, M, h, p, x)
      /\ H \in Nat /\ h[s] = H + 1 /\ h[p] = H + 1 + (IF T.color[p] = "BLACK" THEN 1 ELSE 0)
      /\ T.color \in [Node -> {"RED", "BLACK"}]
      /\ \A a \in M : \A y \in Side : T.kid[y][a] \in M \cup {NULL}
      /\ \A a \in M : \A y \in Side : ~ (T.color[a] = "RED" /\ REDP(T, T.kid[y][a]))
      /\ BLACKP(T, T.root) /\ BLACKP(T, c)
  BY <1>1, LackFacts
<1>3. FarNephew(T, x, p) = V
  BY DEF FarNephew
<1>4. o # x /\ Other(o) = x /\ (\A y \in Side : y = x \/ y = o) /\ Other(x) = o
  BY <1>2, Sides
<1>5. \A a \in M : \A y \in Side : T.kid[y][a] # NULL => T.parent[T.kid[y][a]] = a /\ T.kid[y][a] # a /\ T.kid[y][a] # T.root
  BY <1>2, KidFacts
<1>6. far \in M /\ far # NULL /\ T.color[far] = "RED" /\ T.parent[far] = s /\ far # s /\ far # T.root /\ far # near
  <2>1. far \in M /\ far # NULL /\ T.color[far] = "RED"
    BY <1>2 DEF REDP
  <2> HIDE DEF o, s
  <2> QED
    BY <1>2, <1>4, <1>5, <2>1, KidFacts
<1>7. far # p /\ far # c /\ near \in M \cup {NULL}
  <2>1. T.parent[p] # s
    <3>1. s \in D[p] /\ (T.parent[p] # NULL => T.parent[p] \notin D[p])
      BY <1>2, KidFacts, ParentFacts
    <3> QED
      BY <1>2, <3>1
  <2> QED
    BY <1>2, <1>6, <2>1
<1>8. SameShape(T, A) /\ \A a \in Node : A.color[a] = IF a = far \/ a = p THEN "BLACK" ELSE IF a = s THEN T.color[p] ELSE T.color[a]
  <2>1. p \in Node /\ s \in Node /\ far \in Node /\ T.color[p] \in {"RED", "BLACK"}
    BY <1>2, <1>6
  <2> HIDE DEF s, far
  <2>2. Repainted(T, s, T.color[p], p, "BLACK", C)
    BY <1>2, <2>1, TwoPainted
  <2> HIDE DEF C
  <2>3. SameShape(T, C) /\ C \in Tree /\ \A a \in Node : C.color[a] = IF a = p THEN "BLACK" ELSE IF a = s THEN T.color[p] ELSE T.color[a]
    BY <2>2 DEF Repainted, SameShape
  <2>4. Painted(C, far, "BLACK", A)
    BY <2>1, <2>3, PaintParts
  <2> HIDE DEF A
  <2>5. SameShape(C, A) /\ A.color = [C.color EXCEPT ![far] = "BLACK"] /\ C.color \in [Node -> {"RED", "BLACK"}]
    BY <2>3, <2>4, TreeParts DEF Painted
  <2>6. SameShape(T, A)
    BY <2>3, <2>5 DEF SameShape
  <2> QED
    BY <2>1, <2>3, <2>5, <2>6
<1> HIDE DEF C, A
<1>9. M \subseteq Node /\ (T.root = NULL \/ T.root \in M)
  BY <1>2 DEF Hung, Linked
<1> HIDE DEF far, near, H
<1>10. j \in [Pointer -> Nat] /\ \A a \in Pointer : j[a] = IF a = far THEN H + 1 ELSE h[a]
  BY <1>2, <1>6
<1> HIDE DEF j
<1> DEFINE i == [j EXCEPT ![p] = H + 1, ![T.kid[Other(x)][p]] = j[p]]
<1>11. PaintedTurned(T, M, D, x, p, A, V, z) /\ HeightsTurned(T, M, x, p, j, H + 1, V, i)
  <2>1. T.kid[Other(x)][p] # NULL /\ H + 1 \in Nat
    BY <1>2
  <2> HIDE DEF s, o
  <2> QED
    BY <1>1, <1>2, <1>8, <1>10, <2>1, PaintTurn
<1> HIDE DEF V, i
<1>12. PICK E : SearchTree(V, M, E, z)
  BY <1>11 DEF PaintedTurned
<1> HIDE DEF s, o
<1>13. /\ V.color = A.color /\ V.root = (IF T.root = p THEN s ELSE T.root)
       /\ V.kid[x][p] = c /\ V.kid[o][p] = near /\ V.kid[x][s] = p /\ V.kid[o][s] = far
       /\ \A a \in M \ {p, s} : \A y \in Side : V.kid[y][a] = IF T.kid[y][a] = p THEN s ELSE T.kid[y][a]
  BY <1>2, <1>11 DEF PaintedTurned, s, near, far, o
<1>14. /\ i \in [Pointer -> Nat] /\ i[NULL] = j[NULL] /\ i[p] = H + 1 /\ i[s] = j[p]
       /\ \A a \in M \ {p, s} : i[a] = j[a] /\ \A y \in Side : i[V.kid[y][a]] = j[T.kid[y][a]]
       /\ i[V.kid[x][p]] = j[c] /\ i[V.kid[o][p]] = j[near] /\ i[V.kid[x][s]] = H + 1 /\ i[V.kid[o][s]] = j[far]
  BY <1>2, <1>11 DEF HeightsTurned, s, near, far, o
<1>15. j[c] = H /\ j[near] = H /\ j[far] = H + 1 /\ j[p] = h[p] /\ j[NULL] = 0
  <2>1. c \in Pointer /\ near \in Pointer /\ far \in Pointer /\ p \in Pointer /\ NULL \in Pointer
    BY <1>2, <1>6, <1>7, Nodes
  <2>2. h[s] = h[near] + 1 + 0
    BY <1>1, <1>2 DEF Level, near
  <2>3. h[near] = H
    BY <1>2, <2>1, <2>2
  <2> QED
    BY <1>2, <1>6, <1>7, <1>10, <2>1, <2>3 DEF H
<1>16. \A a \in M : V.color[a] = IF a = far \/ a = p THEN "BLACK" ELSE IF a = s THEN T.color[p] ELSE T.color[a]
  BY <1>8, <1>9, <1>13
<1>17. ASSUME NEW a \in M, NEW y \in Side
       PROVE  i[a] = i[V.kid[y][a]] + (IF V.color[a] = "BLACK" THEN 1 ELSE 0)
  <2>1. CASE a = p
    BY <1>2, <1>4, <1>14, <1>15, <1>16, <2>1
  <2>2. CASE a = s
    BY <1>2, <1>4, <1>6, <1>14, <1>15, <1>16, <2>2
  <2>3. CASE a # p /\ a # s
    <3> DEFINE k == T.kid[y][a]
    <3>1. h[a] = h[k] + (IF T.color[a] = "BLACK" THEN 1 ELSE 0) + 0
      BY <1>2, <2>3 DEF Level
    <3>2. k \in Pointer /\ k # far
      <4>1. k \in M \cup {NULL} /\ (k # NULL => T.parent[k] = a)
        BY <1>2, <1>5
      <4> HIDE DEF k
      <4> QED
        BY <1>2, <1>6, <2>3, <4>1, Nodes
    <3>3. i[a] = j[a] /\ i[V.kid[y][a]] = j[k] /\ a \in Pointer
      BY <1>2, <1>14, <2>3
    <3> HIDE DEF k
    <3>4. j[k] = h[k] /\ h[k] \in Nat
      BY <1>2, <1>10, <3>2
    <3>5. CASE a = far
      <4>1. h[far] = H
        <5>1. h[s] = h[far] + 1 + 0
          BY <1>1, <1>2 DEF Level, far
        <5>2. far \in Pointer
          BY <1>2, <1>6
        <5> QED
          BY <1>2, <5>1, <5>2
      <4> QED
        BY <1>2, <1>6, <1>15, <1>16, <3>1, <3>3, <3>4, <3>5, <4>1
    <3>6. CASE a # far
      BY <1>10, <1>16, <2>3, <3>1, <3>3, <3>4, <3>6
    <3> QED
      BY <3>5, <3>6
  <2> QED
    BY <2>1, <2>2, <2>3
<1>18. Even(V, M, i)
  BY <1>14, <1>15, <1>17 DEF Even
<1>19. NoRedRed(V, M, NULL)
  <2>1. ASSUME NEW a \in M, NEW y \in Side, V.color[a] = "RED", REDP(V, V.kid[y][a]) PROVE FALSE
    <3>1. V.kid[y][a] # NULL /\ V.color[V.kid[y][a]] = "RED" /\ a # p /\ a # far
      BY <1>16, <2>1 DEF REDP
    <3>2. CASE a = s
      BY <1>2, <1>4, <1>6, <1>13, <1>16, <3>1, <3>2
    <3>3. CASE a # s
      <4> DEFINE k == T.kid[y][a]
      <4>1. T.color[a] = "RED" /\ ~ REDP(T, k) /\ k \in M \cup {NULL} /\ (k # NULL => T.parent[k] = a)
        BY <1>2, <1>5, <1>16, <2>1, <3>1, <3>3
      <4>2. V.kid[y][a] = IF k = p THEN s ELSE k
        BY <1>13, <3>1, <3>3
      <4> HIDE DEF k
      <4>3. k # p
        BY <1>2, <1>16, <3>1, <4>1, <4>2 DEF REDP
      <4>4. k # NULL /\ k # s /\ k # far /\ V.color[k] = "RED"
        BY <1>2, <1>6, <3>1, <3>3, <4>1, <4>2, <4>3
      <4> QED
        BY <1>16, <4>1, <4>3, <4>4 DEF REDP
    <3> QED
      BY <3>2, <3>3
  <2>2. BLACKP(V, V.root)
    BY <1>2, <1>6, <1>9, <1>13, <1>16 DEF BLACKP
  <2> QED
    BY <2>1, <2>2 DEF NoRedRed
<1> QED
  BY <1>3, <1>12, <1>18, <1>19 DEF BalancedBut

\* Cases 3 to 8, when case 5 is over.
LEMMA RefillBalanced ==
    ASSUME NEW T, NEW M, NEW D, NEW h, NEW p, NEW c, NEW z, Lacking(T, M, D, h, p, c, z), ~ AllBlack(T, p, c)
    PROVE  BalancedBut(Refill(T, p, c), M, z)
<1> DEFINE x == SideOf(T, p, c)
           V == RedSibling(T, x, p)
           s == V.kid[Other(x)][p]
<1>1. Refill(T, p, c) = IF p = NULL THEN T
                        ELSE IF \A y \in Side : BLACKP(V, V.kid[y][s])
                               THEN Paint(Paint(V, p, "BLACK"), s, "RED")
                               ELSE FarNephew(NearNephew(V, x, p), x, p)
  BY DEF Refill
<1>2. CASE p = NULL
  BY <1>1, <1>2 DEF Lacking, BalancedBut
<1>3. CASE p # NULL
  <2>1. PICK E, i : Ready(V, M, E, i, p, c, z, x)
    BY <1>3, RedSiblingReady
  <2> HIDE DEF V, x
  <2>2. CASE \A y \in Side : BLACKP(V, V.kid[y][s])
    BY <1>1, <1>3, <2>1, <2>2, NoRedNear
  <2>3. CASE ~ \A y \in Side : BLACKP(V, V.kid[y][s])
    <3> DEFINE W == NearNephew(V, x, p)
    <3>1. (\E F, j : Ready(W, M, F, j, p, c, z, x)) /\ REDP(W, W.kid[Other(x)][W.kid[Other(x)][p]])
      BY <2>1, <2>3, NearReady
    <3> HIDE DEF W
    <3>2. BalancedBut(FarNephew(W, x, p), M, z)
      BY <3>1, FarDone
    <3> QED
      BY <1>1, <1>3, <2>3, <3>2 DEF W
  <2> QED
    BY <2>2, <2>3
<1> QED
  BY <1>2, <1>3

\* The loop of case 5, and what comes after it.
LEMMA RecurBalanced ==
    ASSUME NEW T0, NEW M, NEW D, NEW h0, NEW p0, NEW c0, NEW z, Lacking(T0, M, D, h0, p0, c0, z)
    PROVE  BalancedBut(Recur(T0, p0, c0), M, z)
<1> DEFINE body == [x \in Tree \X Pointer \X Pointer |->
                      IF AllBlack(x[1], x[2], x[3]) THEN PassUp(x[1], x[2], x[3]) ELSE x]
           s == Iterate(body, <<T0, p0, c0>>)
           State(k) == {x \in Tree \X Pointer \X Pointer :
                          /\ \E h : Lacking(x[1], M, D, h, x[2], x[3], z)
                          /\ AllBlack(x[1], x[2], x[3]) => Size(D, x[2]) > k}
           G == [k \in 0..NKeys |-> State(k)]
<1>1. /\ Hung(T0, M, D) /\ T0 \in Tree /\ M \in SUBSET Node /\ c0 \in Pointer
      /\ (p0 # NULL => p0 \in M) /\ p0 \in Pointer
  <2>1. Hung(T0, M, D) /\ c0 \in M \cup {NULL} /\ (p0 # NULL => p0 \in M)
    BY DEF Lacking, SearchTree
  <2>2. T0 \in Tree /\ M \in SUBSET Node
    BY <2>1 DEF Hung, Linked
  <2> QED
    BY <2>1, <2>2, Nodes
<1>2. \A n \in M : Size(D, n) \in 0..NKeys /\ Size(D, n) > 0
  BY <1>1, Sizes, Nodes
<1>3. NKeys \in Nat /\ 0 \in 0..NKeys /\ NKeys \in 0..NKeys
  BY Nodes
<1>4. <<T0, p0, c0>> \in G[0]
  <2> DEFINE x == <<T0, p0, c0>>
  <2>1. x \in Tree \X Pointer \X Pointer /\ x[1] = T0 /\ x[2] = p0 /\ x[3] = c0
    BY <1>1
  <2>2. AllBlack(T0, p0, c0) => Size(D, p0) > 0
    BY <1>1, <1>2 DEF AllBlack
  <2>3. x \in State(0)
    <3> HIDE DEF x
    <3> QED
      BY <2>1, <2>2
  <2> QED
    BY <1>3, <2>3
<1>5. ASSUME NEW k \in 0..NKeys, NEW x \in G[k], k < NKeys PROVE body[x] \in G[k + 1]
  <2>1. /\ x \in Tree \X Pointer \X Pointer /\ AllBlack(x[1], x[2], x[3]) => Size(D, x[2]) > k
        /\ k + 1 \in 0..NKeys
    BY <1>3, <1>5
  <2>2. PICK h : Lacking(x[1], M, D, h, x[2], x[3], z)
    BY <1>5
  <2>3. body[x] \in State(k + 1)
    <3>1. CASE ~ AllBlack(x[1], x[2], x[3])
      BY <2>1, <2>2, <3>1
    <3>2. CASE AllBlack(x[1], x[2], x[3])
      <4> DEFINE y == PassUp(x[1], x[2], x[3])
      <4>1. body[x] = y
        BY <2>1, <3>2
      <4>2. /\ \E i : Lacking(y[1], M, D, i, y[2], y[3], z)
            /\ y \in Tree \X Pointer \X Pointer
            /\ y[2] # NULL => Size(D, x[2]) < Size(D, y[2])
        BY <2>2, <3>2, PassUpLacks
      <4> HIDE DEF y, body
      <4>3. x[2] \in M /\ (y[2] # NULL => y[2] \in M) /\ (AllBlack(y[1], y[2], y[3]) => y[2] # NULL)
        BY <2>2, <3>2, <4>2 DEF Lacking, AllBlack
      <4>4. AllBlack(y[1], y[2], y[3]) => Size(D, y[2]) > k + 1
        <5>1. SUFFICES ASSUME AllBlack(y[1], y[2], y[3]) PROVE Size(D, y[2]) > k + 1
          OBVIOUS
        <5>2. Size(D, x[2]) \in Nat /\ Size(D, y[2]) \in Nat /\ Size(D, x[2]) > k /\ Size(D, x[2]) < Size(D, y[2])
          BY <1>2, <2>1, <3>2, <4>2, <4>3, <5>1
        <5> QED
          BY <1>3, <5>2
      <4> QED
        BY <4>1, <4>2, <4>4
    <3> QED
      BY <3>1, <3>2
  <2> QED
    BY <2>1, <2>3
<1>6. s \in G[NKeys]
  <2> HIDE DEF body, G
  <2> QED
    BY <1>4, <1>5, LoopReaches
<1>7. s \in State(NKeys)
  BY <1>3, <1>6
<1>8. PICK h : Lacking(s[1], M, D, h, s[2], s[3], z)
  BY <1>7
<1>9. ~ AllBlack(s[1], s[2], s[3])
  <2>1. SUFFICES ASSUME AllBlack(s[1], s[2], s[3]) PROVE FALSE
    OBVIOUS
  <2>2. s[2] \in M
    BY <1>8, <2>1 DEF Lacking, AllBlack
  <2>3. ~(Size(D, s[2]) > NKeys)
    BY <1>2, <1>3, <2>2
  <2> QED
    BY <1>7, <2>1, <2>3
<1>10. Recur(T0, p0, c0) = Refill(s[1], s[2], s[3])
  BY DEF Recur
<1> HIDE DEF s
<1> QED
  BY <1>8, <1>9, <1>10, RefillBalanced

\* Taking out a node with at most one child.
LEMMA DeleteOne ==
    ASSUME NEW T, NEW M, NEW z, Loose(T, M, z), z \in M, NEW s \in Side, T.kid[Other(s)][z] = NULL
    PROVE  BalancedBut(delete_node1(T, z, T.kid[s][z]), M \ {z}, z)
<1>1. PICK D, h : /\ Hung(T, M, D) /\ SortedBut(T, M, D, z) /\ Cleared(T, M, NULL) /\ Keyed(T)
                  /\ Even(T, M, h) /\ NoRedRed(T, M, NULL)
  BY DEF Loose
<1> DEFINE c == T.kid[s][z]
           U == replace_node(T, z, c)
           E == BelowCut(D, z)
           N == M \ {z}
<1>2. T \in Tree /\ z \in Node /\ c \in Pointer /\ T.color[z] \in {"RED", "BLACK"}
  <2>1. T \in Tree /\ M \in SUBSET Node
    BY <1>1 DEF Hung, Linked
  <2> QED
    BY <2>1, TreeParts
<1>3. delete_node1(T, z, c) = IF REDP(T, z) THEN U ELSE IF REDP(U, c) THEN Paint(U, c, "BLACK")
                              ELSE Recur(U, T.parent[z], c)
  BY DEF delete_node1
<1>4. Replaced(T, z, c, U)
  BY <1>2, ReplaceParts
<1> HIDE DEF U
<1>5. SearchTree(U, N, E, z) /\ KidsCut(T, M, z, c, U)
  BY <1>1, <1>4, CutOut
<1> HIDE DEF E
<1>6. /\ T.color[z] = "RED" => Even(U, N, h) /\ NoRedRed(U, N, NULL)
      /\ T.color[z] = "BLACK" /\ REDP(U, c) => BalancedBut(Paint(U, c, "BLACK"), N, z)
      /\ T.color[z] = "BLACK" /\ BLACKP(U, c) => Lacking(U, N, E, h, T.parent[z], c, z)
  BY <1>1, <1>5, CutLevels
<1>7. REDP(T, z) <=> T.color[z] = "RED"
  BY <1>2, Nodes DEF REDP
<1>8. ~ REDP(U, c) => BLACKP(U, c)
  <2>1. U.color = T.color /\ (c # NULL => c \in Node)
    BY <1>2, <1>5 DEF KidsCut, Pointer
  <2> QED
    BY <1>2, <2>1, TreeParts DEF REDP, BLACKP
<1> HIDE DEF c, N
<1>9. CASE T.color[z] = "RED"
  BY <1>3, <1>5, <1>6, <1>7, <1>9 DEF BalancedBut, c, N
<1>10. CASE T.color[z] = "BLACK" /\ REDP(U, c)
  BY <1>3, <1>6, <1>7, <1>10 DEF c, N
<1>11. CASE T.color[z] = "BLACK" /\ ~ REDP(U, c)
  <2>1. BalancedBut(Recur(U, T.parent[z], c), N, z)
    BY <1>6, <1>8, <1>11, RecurBalanced
  <2> QED
    BY <1>3, <1>7, <1>11, <2>1 DEF c, N
<1> QED
  BY <1>2, <1>9, <1>10, <1>11

\* What is left of a node that was taken out is cleared.
LEMMA ClearBalanced ==
    ASSUME NEW T, NEW M, NEW z \in Node, z \notin M, BalancedBut(T, M, z)
    PROVE  Balanced(clear_node(T, z), M)
<1>1. PICK D, h : SearchTree(T, M, D, z) /\ Even(T, M, h) /\ NoRedRed(T, M, NULL)
  BY DEF BalancedBut
<1> DEFINE U == clear_node(T, z)
<1>2. /\ T \in Tree /\ M \in SUBSET Node /\ Linked(T, M) /\ Branching(T, M, D) /\ Sorted(T, M, D)
      /\ Cleared(T, M, z) /\ Keyed(T)
  BY <1>1 DEF SearchTree, Hung, Linked
<1>3. T.key[z] \in Key /\ NULL \in Pointer /\ z # NULL /\ NULL \notin M
  BY <1>2, Nodes, TreeParts
<1>4. NodeMade(T, z, NULL, T.key[z], U)
  BY <1>2, <1>3, ChildlessParts
<1> HIDE DEF U
<1>5. /\ U \in Tree /\ U.root = T.root /\ U.key = [T.key EXCEPT ![z] = T.key[z]]
      /\ U.color = [T.color EXCEPT ![z] = "RED"] /\ U.parent = [T.parent EXCEPT ![z] = NULL]
      /\ \A x \in Side : \A a \in Node : U.kid[x][a] = IF a = z THEN NULL ELSE T.kid[x][a]
  BY <1>4 DEF NodeMade
<1>6. /\ T.color \in [Node -> {"RED", "BLACK"}] /\ T.parent \in [Node -> Pointer] /\ T.key \in [Node -> Key]
  BY <1>2, TreeParts
<1>7. \A a \in M : /\ U.color[a] = T.color[a] /\ U.parent[a] = T.parent[a] /\ a # z
                   /\ \A x \in Side : U.kid[x][a] = T.kid[x][a]
  BY <1>2, <1>5, <1>6
<1>8. U.parent[z] = NULL /\ \A x \in Side : U.kid[x][z] = NULL
  BY <1>5, <1>6
<1>9. Linked(U, M)
  <2>1. /\ T.root # NULL => T.root \in M /\ T.parent[T.root] = NULL
        /\ \A n \in M : \A x \in Side :
             T.kid[x][n] # NULL =>
               /\ T.kid[x][n] \in M /\ T.parent[T.kid[x][n]] = n
               /\ T.kid[Other(x)][n] # T.kid[x][n]
        /\ \A n \in M : n # T.root => T.parent[n] \in M /\ \E x \in Side : T.kid[x][T.parent[n]] = n
    BY <1>2 DEF Linked
  <2>2. U.root # NULL => U.root \in M /\ U.parent[U.root] = NULL
    BY <1>5, <1>7, <2>1
  <2>3. ASSUME NEW n \in M, NEW x \in Side, U.kid[x][n] # NULL
        PROVE  U.kid[x][n] \in M /\ U.parent[U.kid[x][n]] = n /\ U.kid[Other(x)][n] # U.kid[x][n]
    BY <1>7, <2>1, <2>3, Sides
  <2>4. ASSUME NEW n \in M, n # U.root PROVE U.parent[n] \in M /\ \E x \in Side : U.kid[x][U.parent[n]] = n
    BY <1>5, <1>7, <2>1, <2>4
  <2> QED
    BY <1>2, <1>5, <2>2, <2>3, <2>4 DEF Linked
<1>10. Branching(U, M, D)
  <2>1. "left" \in Side /\ "right" \in Side
    BY Sides
  <2> QED
    BY <1>2, <1>5, <1>7, <2>1 DEF Branching
<1>11. Sorted(U, M, D)
  BY <1>2, <1>7 DEF Sorted
<1>12. Cleared(U, M, NULL)
  <2>1. ASSUME NEW n \in Node \ M PROVE node_cleared_p(U, n)
    <3>1. CASE n = z
      BY <1>3, <1>8, <3>1 DEF node_cleared_p
    <3>2. CASE n # z
      <4>1. node_cleared_p(T, n)
        BY <1>2, <3>2 DEF Cleared
      <4> QED
        BY <1>5, <1>6, <3>2, <4>1 DEF node_cleared_p
    <3> QED
      BY <3>1, <3>2
  <2> QED
    BY <2>1 DEF Cleared
<1>13. Keyed(U)
  <2>1. U.key = T.key
    BY <1>5, <1>6
  <2> QED
    BY <1>2, <2>1 DEF Keyed
<1>14. Even(U, M, h)
  BY <1>1, <1>7 DEF Even
<1>15. NoRedRed(U, M, NULL)
  <2>1. T.root # NULL => T.root \in M
    BY <1>2 DEF Linked
  <2>2. \A n \in M : \A x \in Side : T.kid[x][n] # NULL => T.kid[x][n] \in M
    BY <1>2 DEF Linked
  <2>3. BLACKP(U, U.root)
    BY <1>1, <1>5, <1>7, <2>1 DEF NoRedRed, BLACKP
  <2>4. ASSUME NEW n \in M, NEW x \in Side, U.color[n] = "RED", REDP(U, U.kid[x][n]) PROVE FALSE
    BY <1>1, <1>7, <2>2, <2>4 DEF NoRedRed, REDP
  <2> QED
    BY <2>3, <2>4 DEF NoRedRed
<1>16. Balanced(U, M)
  BY <1>9, <1>10, <1>11, <1>12, <1>13, <1>14, <1>15 DEF Balanced, SearchTree, Hung
<1> QED
  BY <1>16 DEF U

\* Deletion.
LEMMA DeleteBalanced ==
    ASSUME NEW T, NEW M, Balanced(T, M), NEW z \in M
    PROVE  Balanced(delete_node(T, z), M \ {z})
<1> DEFINE two == \A x \in Side : T.kid[x][z] # NULL
           T1 == IF two THEN swap_node(T, z, prev_node(T, z)) ELSE T
           left == T1.kid["left"][z]
           right == T1.kid["right"][z]
           child == IF left # NULL THEN left ELSE right
           U == delete_node1(T1, z, child)
<1>1. delete_node(T, z) = clear_node(U, z)
  BY DEF delete_node
<1>2. z \in Node
  BY DEF Balanced, SearchTree, Hung, Linked
<1>3. Loose(T, M, z)
  <2>1. PICK D, h : SearchTree(T, M, D, NULL) /\ Even(T, M, h) /\ NoRedRed(T, M, NULL)
    BY DEF Balanced
  <2>2. SortedBut(T, M, D, z)
    BY <2>1 DEF SearchTree, Sorted, SortedBut
  <2> QED
    BY <2>1, <2>2 DEF SearchTree, Loose
<1>4. Loose(T1, M, z) /\ (left = NULL \/ right = NULL)
  <2>1. CASE two
    BY <2>1, SwapLoose
  <2>2. CASE ~ two
    BY <1>3, <2>2 DEF Side
  <2> QED
    BY <2>1, <2>2
<1> HIDE DEF T1
<1>5. BalancedBut(U, M \ {z}, z)
  <2>1. CASE left # NULL
    <3>1. T1.kid[Other("left")][z] = NULL
      BY <1>4, <2>1, Sides
    <3> QED
      BY <1>4, <2>1, <3>1, DeleteOne, Sides
  <2>2. CASE left = NULL
    <3>1. T1.kid[Other("right")][z] = NULL
      BY <2>2, Sides
    <3> QED
      BY <1>4, <2>2, <3>1, DeleteOne, Sides
  <2> QED
    BY <2>1, <2>2
<1> HIDE DEF U
<1> QED
  BY <1>1, <1>2, <1>5, ClearBalanced

-----------------------------------------------------------------------------
(* What the properties see of a balanced tree.                                 *)

\* The nodes in the tree are those its pointers lead to.
LEMMA InTreeIs ==
    ASSUME NEW M, NEW D, Hung(tree, M, D)
    PROVE  InTree = M
<1> DEFINE body == [R \in SUBSET Node |-> R \cup ({tree.kid[side][n] : side \in Side, n \in R} \ {NULL})]
           start == {tree.root} \ {NULL}
           State(k) == {R \in SUBSET M : /\ tree.root # NULL => tree.root \in R
                                         /\ \A n \in M \ R : Size(D, n) + k < NKeys}
           G == [k \in 0..NKeys |-> State(k)]
<1>1. /\ M \in SUBSET Node /\ NULL \notin M /\ (tree.root # NULL => tree.root \in M)
      /\ \A n \in M : \A x \in Side : tree.kid[x][n] # NULL => tree.kid[x][n] \in M
      /\ \A n \in M : n # tree.root =>
           tree.parent[n] \in M /\ \E x \in Side : tree.kid[x][tree.parent[n]] = n
  BY Nodes DEF Hung, Linked
<1>2. /\ \A n \in M : Size(D, n) \in 0..NKeys
      /\ \A n \in M : n # tree.root => Size(D, n) < Size(D, tree.parent[n])
  <2>1. M \subseteq Pointer
    BY <1>1, Nodes
  <2>2. \A n \in M : n # tree.root => tree.parent[n] # NULL
    BY <1>1
  <2> QED
    BY <2>1, <2>2, Sizes
<1>3. NKeys \in Nat /\ 0 \in 0..NKeys /\ NKeys \in 0..NKeys
  BY Nodes
<1>4. start \in G[0]
  <2>1. ASSUME NEW n \in M \ start PROVE Size(D, n) + 0 < NKeys
    <3>1. n # tree.root
      BY <1>1, <2>1
    <3>2. tree.parent[n] \in M /\ Size(D, n) < Size(D, tree.parent[n])
      BY <1>1, <1>2, <3>1
    <3> QED
      BY <1>2, <1>3, <3>2
  <2>2. start \in State(0)
    BY <1>1, <2>1
  <2> QED
    BY <1>3, <2>2
<1>5. ASSUME NEW k \in 0..NKeys, NEW R \in G[k], k < NKeys PROVE body[R] \in G[k + 1]
  <2>1. /\ R \in SUBSET M /\ (tree.root # NULL => tree.root \in R) /\ k + 1 \in 0..NKeys
        /\ \A n \in M \ R : Size(D, n) + k < NKeys
    BY <1>3, <1>5
  <2>2. R \in SUBSET Node
    BY <1>1, <2>1
  <2>3. body[R] = R \cup ({tree.kid[side][n] : side \in Side, n \in R} \ {NULL})
    BY <2>2
  <2> HIDE DEF body
  <2>4. body[R] \subseteq M
    BY <1>1, <2>1, <2>3
  <2>5. ASSUME NEW n \in M \ body[R] PROVE Size(D, n) + (k + 1) < NKeys
    <3>1. n \notin R /\ n # tree.root
      BY <1>1, <2>1, <2>3
    <3>2. PICK x \in Side : tree.parent[n] \in M /\ tree.kid[x][tree.parent[n]] = n
      BY <1>1, <3>1
    <3>3. tree.parent[n] \notin R
      BY <1>1, <2>3, <3>2
    <3>4. Size(D, tree.parent[n]) + k < NKeys /\ Size(D, n) < Size(D, tree.parent[n])
      BY <1>2, <2>1, <3>1, <3>2, <3>3
    <3> QED
      BY <1>2, <1>3, <3>2, <3>4
  <2>6. body[R] \in State(k + 1)
    BY <2>1, <2>3, <2>4, <2>5
  <2> QED
    BY <2>1, <2>6
<1>6. Iterate(body, start) \in G[NKeys]
  <2> HIDE DEF body, start, G
  <2> QED
    BY <1>4, <1>5, LoopReaches
<1>7. InTree \in State(NKeys)
  <2>1. InTree = Iterate(body, start)
    BY DEF InTree
  <2>2. Iterate(body, start) \in State(NKeys)
    <3> HIDE DEF body, start
    <3> QED
      BY <1>3, <1>6
  <2> HIDE DEF body, start, State
  <2> QED
    BY <2>1, <2>2
<1>8. ASSUME NEW n \in M PROVE n \in InTree
  BY <1>2, <1>3, <1>7
<1> QED
  BY <1>7, <1>8

\* The number of black nodes on a path is the same on every path.
LEMMA BlackHeightIs ==
    ASSUME NEW M, NEW D, Hung(tree, M, D), NEW h, Even(tree, M, h)
    PROVE  BlackHeight = {h[tree.root]}
<1> DEFINE Higher(H) ==
             [n \in Pointer |->
                IF n = NULL THEN {0}
                ELSE {i + (IF BLACKP(tree, n) THEN 1 ELSE 0) :
                        i \in H[tree.kid["left"][n]] \cup H[tree.kid["right"][n]]}]
           body == [H \in [Pointer -> SUBSET Nat] |-> Higher(H)]
           start == [n \in Pointer |-> {0}]
           State(k) == {H \in [Pointer -> SUBSET Nat] : \A n \in M \cup {NULL} : Size(D, n) <= k => H[n] = {h[n]}}
           G == [k \in 0..NKeys |-> State(k)]
<1>1. /\ tree \in Tree /\ M \in SUBSET Node /\ NULL \notin M /\ tree.root \in M \cup {NULL}
      /\ \A n \in M : \A x \in Side : tree.kid[x][n] \in M \cup {NULL}
      /\ M \subseteq Pointer /\ NULL \in Pointer
  BY Nodes DEF Hung, Linked
<1>2. /\ \A n \in M \cup {NULL} : Size(D, n) \in 0..NKeys
      /\ \A n \in M : Size(D, n) > 0
      /\ \A n \in M : \A x \in Side : Size(D, tree.kid[x][n]) < Size(D, n)
  BY <1>1, Sizes
<1>3. NKeys \in Nat /\ 0 \in 0..NKeys /\ NKeys \in 0..NKeys
  BY Nodes
<1>4. /\ h \in [Pointer -> Nat] /\ h[NULL] = 0
      /\ \A n \in M : \A x \in Side : h[n] = h[tree.kid[x][n]] + (IF BLACKP(tree, n) THEN 1 ELSE 0)
  BY <1>1 DEF Even, BLACKP
<1>5. "left" \in Side /\ "right" \in Side /\ \A n \in Node : \A x \in Side : tree.kid[x][n] \in Pointer
  BY <1>1, TreeParts, Sides
<1>6. start \in G[0]
  <2>1. start \in [Pointer -> SUBSET Nat]
    OBVIOUS
  <2>2. \A n \in M \cup {NULL} : Size(D, n) <= 0 => start[n] = {h[n]}
    BY <1>1, <1>2, <1>4
  <2>3. start \in State(0)
    BY <2>1, <2>2
  <2> QED
    BY <1>3, <2>3
<1>7. ASSUME NEW k \in 0..NKeys, NEW H \in G[k], k < NKeys PROVE body[H] \in G[k + 1]
  <2>1. /\ H \in [Pointer -> SUBSET Nat] /\ k + 1 \in 0..NKeys
        /\ \A n \in M \cup {NULL} : Size(D, n) <= k => H[n] = {h[n]}
    BY <1>3, <1>7
  <2> DEFINE I == body[H]
  <2>2. I = Higher(H)
    BY <2>1
  <2>3. ASSUME NEW n \in Pointer PROVE I[n] \in SUBSET Nat
    <3>1. CASE n = NULL
      BY <2>2, <3>1
    <3>2. CASE n # NULL
      <4>1. n \in Node
        BY <3>2 DEF Pointer
      <4>2. H[tree.kid["left"][n]] \in SUBSET Nat /\ H[tree.kid["right"][n]] \in SUBSET Nat
        BY <1>5, <2>1, <4>1
      <4>3. I[n] = {i + (IF BLACKP(tree, n) THEN 1 ELSE 0) : i \in H[tree.kid["left"][n]] \cup H[tree.kid["right"][n]]}
        BY <2>2, <3>2
      <4> HIDE DEF I
      <4> QED
        BY <4>2, <4>3
    <3> QED
      BY <3>1, <3>2
  <2>4. ASSUME NEW n \in M \cup {NULL}, Size(D, n) <= k + 1 PROVE I[n] = {h[n]}
    <3>1. CASE n = NULL
      BY <1>1, <1>4, <2>2, <3>1
    <3>2. CASE n # NULL
      <4>1. n \in M /\ n \in Pointer
        BY <1>1, <3>2
      <4>2. \A x \in Side : H[tree.kid[x][n]] = {h[tree.kid[x][n]]}
        <5>1. ASSUME NEW x \in Side PROVE Size(D, tree.kid[x][n]) <= k
          BY <1>1, <1>2, <2>4, <4>1
        <5> QED
          BY <1>1, <2>1, <4>1, <5>1
      <4>3. \A x \in Side : h[n] = h[tree.kid[x][n]] + (IF BLACKP(tree, n) THEN 1 ELSE 0)
        BY <1>4, <4>1
      <4>4. h[tree.kid["left"][n]] \in Nat /\ h[tree.kid["right"][n]] \in Nat
        BY <1>1, <1>4, <1>5, <4>1
      <4>5. h[tree.kid["left"][n]] = h[tree.kid["right"][n]]
        BY <1>5, <4>3, <4>4
      <4>6. H[tree.kid["left"][n]] \cup H[tree.kid["right"][n]] = {h[tree.kid["left"][n]]}
        BY <1>5, <4>2, <4>5
      <4>7. I[n] = {i + (IF BLACKP(tree, n) THEN 1 ELSE 0) : i \in H[tree.kid["left"][n]] \cup H[tree.kid["right"][n]]}
        BY <2>2, <3>2, <4>1
      <4>8. I[n] = {h[tree.kid["left"][n]] + (IF BLACKP(tree, n) THEN 1 ELSE 0)}
        <5> DEFINE v == h[tree.kid["left"][n]]
                   S == H[tree.kid["left"][n]] \cup H[tree.kid["right"][n]]
        <5>1. S = {v}
          BY <4>6
        <5> HIDE DEF S, v
        <5>2. {i + (IF BLACKP(tree, n) THEN 1 ELSE 0) : i \in S} = {v + (IF BLACKP(tree, n) THEN 1 ELSE 0)}
          BY <5>1
        <5> QED
          BY <4>7, <5>2 DEF S, v
      <4> QED
        BY <1>5, <4>3, <4>8
    <3> QED
      BY <3>1, <3>2
  <2>5. I \in [Pointer -> SUBSET Nat]
    <3>1. I = [n \in Pointer |-> I[n]]
      BY <2>2
    <3> HIDE DEF I
    <3> QED
      BY <2>3, <3>1
  <2>6. I \in State(k + 1)
    <3> HIDE DEF I
    <3> QED
      BY <2>4, <2>5
  <2> QED
    BY <2>1, <2>6
<1>8. Iterate(body, start) \in G[NKeys]
  <2> HIDE DEF body, start, G
  <2> QED
    BY <1>6, <1>7, LoopReaches
<1>9. Iterate(body, start)[tree.root] = {h[tree.root]}
  <2> HIDE DEF body, start
  <2> QED
    BY <1>1, <1>2, <1>3, <1>8
<1> QED
  BY <1>9 DEF BlackHeight

\* A balanced tree has the properties.
LEMMA BalancedShape ==
    ASSUME NEW M, Balanced(tree, M)
    PROVE  /\ tree \in Tree /\ M \in SUBSET Node /\ InTree = M
           /\ BLACKP(tree, tree.root)
           /\ \A n \in InTree : REDP(tree, n) => \A side \in Side : BLACKP(tree, tree.kid[side][n])
           /\ Cardinality(BlackHeight) = 1
           /\ tree.root # NULL => tree.parent[tree.root] = NULL
           /\ \A n \in InTree : \A side \in Side :
                tree.kid[side][n] # NULL => tree.parent[tree.kid[side][n]] = n
           /\ \A n \in InTree : tree.parent[n] \in InTree \cup {NULL}
           /\ \A n \in Node \ InTree : node_cleared_p(tree, n)
           /\ tree.key = [n \in Node |-> n]
<1>1. PICK D, h : SearchTree(tree, M, D, NULL) /\ Even(tree, M, h) /\ NoRedRed(tree, M, NULL)
  BY DEF Balanced
<1>2. Hung(tree, M, D) /\ Cleared(tree, M, NULL) /\ Keyed(tree)
  BY <1>1 DEF SearchTree
<1>3. /\ tree \in Tree /\ M \in SUBSET Node /\ NULL \notin M
      /\ \A n \in M : \A x \in Side : tree.kid[x][n] \in M \cup {NULL}
      /\ (tree.root # NULL => tree.root \in M /\ tree.parent[tree.root] = NULL)
      /\ \A n \in M : \A x \in Side : tree.kid[x][n] # NULL => tree.parent[tree.kid[x][n]] = n
      /\ \A n \in M : n # tree.root => tree.parent[n] \in M
  BY <1>2, Nodes DEF Hung, Linked
<1>4. InTree = M
  BY <1>2, InTreeIs
<1>5. Cardinality(BlackHeight) = 1
  <2>1. BlackHeight = {h[tree.root]}
    BY <1>1, <1>2, BlackHeightIs
  <2> QED
    BY <2>1, FS_Singleton
<1>6. tree.color \in [Node -> {"RED", "BLACK"}]
  BY <1>3, TreeParts
<1>7. BLACKP(tree, tree.root)
  BY <1>1 DEF NoRedRed, BLACKP
<1>8. ASSUME NEW n \in M, REDP(tree, n), NEW x \in Side PROVE BLACKP(tree, tree.kid[x][n])
  <2>1. ~ REDP(tree, tree.kid[x][n])
    BY <1>1, <1>8 DEF NoRedRed, REDP
  <2> QED
    BY <1>3, <1>6, <2>1 DEF BLACKP, REDP
<1>9. \A n \in M : tree.parent[n] \in M \cup {NULL}
  BY <1>3
<1>10. \A n \in Node \ M : node_cleared_p(tree, n)
  BY <1>2, Nodes DEF Cleared
<1>11. tree.key = [n \in Node |-> n]
  BY <1>2 DEF Keyed
<1> QED
  BY <1>3, <1>4, <1>5, <1>7, <1>8, <1>9, <1>10, <1>11

-----------------------------------------------------------------------------
(* What the operations find in a balanced tree.                                *)

\* There is no key between a node without a child on one side and a key that would be hung there.
LEMMA NothingBetween ==
    ASSUME NEW T, NEW M, NEW D, SearchTree(T, M, D, NULL), NEW e, NEW k \in Node, k \notin M,
           Fits(T, M, D, k, e), NEW t \in Side, T.kid[t][e] = NULL, Sided(t, e, k),
           NEW b \in M, Sided(t, e, b)
    PROVE  Sided(t, k, b)
<1>1. /\ Hung(T, M, D) /\ Keyed(T) /\ T \in Tree /\ M \in SUBSET Node /\ e \in M /\ e \in Node /\ b \in Node
      /\ Sorted(T, M, D) /\ D[NULL] = {} /\ D \in [Pointer -> SUBSET M]
  BY DEF SearchTree, Hung, Linked, Branching, Fits
<1> DEFINE U == [new_node(T, k, e, k) EXCEPT !.kid[t][e] = k]
           E == BelowHooked(D, e, k)
<1>2. Hooked(T, M, e, t, k, U)
  BY <1>1, HookParts
<1> HIDE DEF U
<1>3. SearchTree(U, M \cup {k}, E, NULL)
  BY <1>2, HookedTree
<1>4. E[e] = D[e] \cup {k} /\ e \in D[e]
  <2>1. e \in D[e] /\ e \in Pointer /\ e # k
    BY <1>1, Branches
  <2> QED
    BY <2>1 DEF BelowHooked
<1>5. b \notin D[e]
  <2>1. D[e] = {e} \cup D[T.kid[t][e]] \cup D[T.kid[Other(t)][e]]
    BY <1>1, Branches
  <2>2. \A c \in D[T.kid[Other(t)][e]] : Sided(Other(t), e, c)
    BY <1>1, Sides DEF Sorted
  <2>3. ~ Sided(Other(t), e, b) /\ b # e
    BY <1>1, SidedFacts
  <2> QED
    BY <1>1, <2>1, <2>2, <2>3
<1> HIDE DEF E
<1>6. PICK x \in Side : Sided(x, b, e) /\ Sided(x, b, k)
  <2>1. Hung(U, M \cup {k}, E) /\ Sorted(U, M \cup {k}, E)
    BY <1>3 DEF SearchTree
  <2>2. b \notin E[e] /\ e \in M \cup {k} /\ b \in M \cup {k}
    BY <1>1, <1>4, <1>5
  <2>3. \E x \in Side : \A c \in E[e] : Sided(x, b, c)
    BY <2>1, <2>2, Outside
  <2> QED
    BY <1>4, <2>3
<1>7. x = Other(t)
  <2>1. x = t \/ x = Other(t)
    BY Sides
  <2>2. ~ (Sided(t, e, b) /\ Sided(t, b, e))
    BY <1>1, SidedFacts
  <2> QED
    BY <1>6, <2>1, <2>2
<1> QED
  BY <1>1, <1>6, <1>7, SidedFacts

\* The entries in the tree.
Entries ==
    /\ DOMAIN live \subseteq Key /\ live = [k \in DOMAIN live |-> k]
    /\ Balanced(tree, DOMAIN live)
    /\ num_entries = Cardinality(DOMAIN live)

\* The search for a key.
LEMMA Searches ==
    ASSUME NEW M, Balanced(tree, M), NEW k \in Key
    PROVE  /\ Found(k) <=> k \in M
           /\ Get(k) = IF k \in M THEN k ELSE NULL
           /\ tree.root = NULL <=> M = {}
           /\ M = {} => Reach(k) = NULL
           /\ k \in M => Reach(k) = k
           /\ M # {} => Reach(k) \in M /\ Reach(k) = Descend(tree, tree.root, k)
<1>1. PICK D, h : SearchTree(tree, M, D, NULL) /\ Even(tree, M, h) /\ NoRedRed(tree, M, NULL)
  BY DEF Balanced
<1>2. /\ M \in SUBSET Node /\ NULL \notin M /\ D[NULL] = {} /\ D[tree.root] = M /\ Keyed(tree)
      /\ tree.root # NULL => tree.root \in M
  BY <1>1, Nodes DEF SearchTree, Hung, Linked, Branching
<1>3. tree.root = NULL <=> M = {}
  BY <1>2
<1>4. CASE M = {}
  BY <1>3, <1>4 DEF Found, Get, Reach
<1>5. CASE M # {}
  <2> DEFINE e == Descend(tree, tree.root, k)
  <2>1. Fits(tree, M, D, k, e) /\ (e = k <=> k \in M)
    BY <1>1, <1>3, <1>5, DescendFits
  <2>2. Reach(k) = e
    BY <1>3, <1>5 DEF Reach
  <2> HIDE DEF e
  <2>3. e \in M /\ tree.key[e] = e /\ e # NULL
    BY <1>2, <2>1 DEF Fits, Keyed
  <2> QED
    BY <1>3, <1>5, <2>1, <2>2, <2>3 DEF Found, Get, e
<1> QED
  BY <1>4, <1>5

\* The ends of the tree, the neighbours of a node, and what looks cleared.
LEMMA Finds ==
    ASSUME NEW M, Balanced(tree, M)
    PROVE  /\ \A side \in Side : M # {} => Last(side, M, Bound(side))
           /\ \A side \in Side : M = {} => Bound(side) = NULL
           /\ \A side \in Side : \A n \in M : Nearest(side, M, n, Neighbour(tree, side, n))
           /\ \A n \in Node : node_cleared_p(tree, n) <=> n \notin M \/ M = {n}
           /\ M \in SUBSET Node /\ NULL \notin M
<1>1. PICK D, h : SearchTree(tree, M, D, NULL) /\ Even(tree, M, h) /\ NoRedRed(tree, M, NULL)
  BY DEF Balanced
<1>2. /\ M \in SUBSET Node /\ NULL \notin M /\ D[NULL] = {} /\ D[tree.root] = M /\ tree \in Tree
      /\ tree.root # NULL => tree.root \in M /\ tree.parent[tree.root] = NULL
      /\ Hung(tree, M, D) /\ Sorted(tree, M, D) /\ Cleared(tree, M, NULL)
      /\ \A n \in M : \A x \in Side : tree.kid[x][n] # NULL => tree.kid[x][n] \in M
  BY <1>1, Nodes DEF SearchTree, Hung, Linked, Branching
<1>3. ASSUME NEW side \in Side, M # {} PROVE Last(side, M, Bound(side))
  <2>1. tree.root # NULL /\ tree.root \in M
    BY <1>2, <1>3
  <2>2. Last(side, D[tree.root], Most(tree, side, tree.root))
    BY <1>2, <2>1, MostIs
  <2> QED
    BY <1>2, <2>1, <2>2 DEF Bound
<1>4. ASSUME NEW side \in Side, M = {} PROVE Bound(side) = NULL
  BY <1>2, <1>4 DEF Bound
<1>5. ASSUME NEW side \in Side, NEW n \in M PROVE Nearest(side, M, n, Neighbour(tree, side, n))
  BY <1>2, NeighbourIs
<1>6. ASSUME NEW n \in Node PROVE node_cleared_p(tree, n) <=> n \notin M \/ M = {n}
  <2>1. n \notin M => node_cleared_p(tree, n)
    BY <1>2, Nodes DEF Cleared
  <2>2. ASSUME M = {n} PROVE node_cleared_p(tree, n)
    <3>1. tree.root = n /\ n # NULL
      BY <1>2, <2>2
    <3>2. ASSUME NEW x \in Side PROVE tree.kid[x][n] = NULL
      BY <1>2, <2>2, KidFacts
    <3> QED
      BY <1>2, <3>1, <3>2 DEF node_cleared_p
  <2>3. ASSUME n \in M, node_cleared_p(tree, n) PROVE M = {n}
    <3>1. tree.parent[n] = NULL /\ \A x \in Side : tree.kid[x][n] = NULL
      BY <2>3 DEF node_cleared_p
    <3>2. n = tree.root
      BY <1>2, <2>3, <3>1, ParentFacts
    <3>3. D[n] = {n} \cup D[tree.kid["left"][n]] \cup D[tree.kid["right"][n]]
      BY <1>2, <2>3 DEF Hung, Branching
    <3> QED
      BY <1>2, <3>1, <3>2, <3>3, Sides
  <2> QED
    BY <2>1, <2>2, <2>3
<1> QED
  BY <1>2, <1>3, <1>4, <1>5, <1>6

\* The entry next to a key on one side.
NearOn(k, side) ==
    IF Reach(k) = NULL THEN NULL
    ELSE IF ~ Found(k) /\ TowardsKey(tree, Reach(k), k) = Other(side) THEN Reach(k)
    ELSE Neighbour(tree, side, Reach(k))

\* It is the nearest entry, whether or not there is one with the key.
LEMMA NearOnIs ==
    ASSUME NEW M, Balanced(tree, M), NEW k \in Key, NEW side \in Side
    PROVE  Nearest(side, M, k, NearOn(k, side))
<1> DEFINE e == Reach(k)
           t == TowardsKey(tree, e, k)
<1>1. /\ Found(k) <=> k \in M
      /\ M = {} => e = NULL
      /\ k \in M => e = k
      /\ M # {} => e \in M /\ e = Descend(tree, tree.root, k) /\ tree.root # NULL
  BY Searches
<1>2. M \in SUBSET Node /\ NULL \notin M /\ \A n \in M : Nearest(side, M, n, Neighbour(tree, side, n))
  BY Finds
<1>3. NearOn(k, side) = IF e = NULL THEN NULL ELSE IF k \notin M /\ t = Other(side) THEN e ELSE Neighbour(tree, side, e)
  BY <1>1 DEF NearOn
<1>4. CASE M = {}
  BY <1>1, <1>3, <1>4 DEF Nearest
<1>5. CASE k \in M
  BY <1>1, <1>2, <1>3, <1>5
<1>6. CASE M # {} /\ k \notin M
  <2>1. PICK D, h : SearchTree(tree, M, D, NULL) /\ Even(tree, M, h) /\ NoRedRed(tree, M, NULL)
    BY DEF Balanced
  <2>2. Fits(tree, M, D, k, e) /\ e # k /\ Down(tree, e, k) = NULL /\ e \in M
    BY <1>1, <1>6, <2>1, DescendFits
  <2> HIDE DEF e
  <2>3. Sided(t, e, k) /\ t \in Side /\ tree.kid[t][e] = NULL
    BY <2>1, <2>2, DownFits DEF Down
  <2> HIDE DEF t
  <2>4. e \in Node /\ k \in Node /\ e # NULL
    BY <1>2, <2>2, Nodes
  <2>5. \A b \in M : Sided(t, e, b) => Sided(t, k, b)
    BY <1>6, <2>1, <2>2, <2>3, <2>4, NothingBetween
  <2>6. CASE t = Other(side)
    <3>1. NearOn(k, side) = e
      BY <1>3, <1>6, <2>4, <2>6
    <3>2. Other(t) = side
      BY <2>6, Sides
    <3>3. Sided(side, k, e)
      BY <2>3, <2>4, <3>2, SidedFacts
    <3>4. ASSUME NEW b \in M, Sided(side, k, b), b # e PROVE Sided(side, e, b)
      <4>1. b \in Node
        BY <1>2
      <4>2. ~ Sided(t, k, b)
        BY <2>3, <2>4, <3>2, <3>4, <4>1, SidedFacts
      <4>3. ~ Sided(t, e, b)
        BY <2>5, <4>2
      <4> QED
        BY <2>3, <2>4, <3>2, <3>4, <4>1, <4>3, SidedFacts
    <3> QED
      BY <2>2, <2>4, <3>1, <3>3, <3>4 DEF Nearest
  <2>7. CASE t # Other(side)
    <3>1. t = side /\ NearOn(k, side) = Neighbour(tree, side, e)
      BY <1>3, <2>3, <2>4, <2>7, Sides
    <3> DEFINE m == Neighbour(tree, side, e)
    <3>2. Nearest(side, M, e, m)
      BY <1>2, <2>2
    <3> HIDE DEF m
    <3>3. ASSUME NEW b \in M PROVE Sided(side, k, b) <=> Sided(side, e, b)
      <4>1. b \in Node
        BY <1>2
      <4> QED
        BY <2>3, <2>4, <2>5, <3>1, <4>1, SidedFacts
    <3>4. Nearest(side, M, k, m)
      BY <3>2, <3>3 DEF Nearest
    <3> QED
      BY <3>1, <3>4 DEF m
  <2> QED
    BY <2>6, <2>7
<1> QED
  BY <1>4, <1>5, <1>6

-----------------------------------------------------------------------------
(* The invariant.                                                              *)

\* An iteration at c has the next entry on one side in a, and on the other in b, also when c
\* is deleted; past an end, or where nothing was visited yet, it may know the ends.
Walks(side, M, c, a, b) ==
    /\ c # NULL => Nearest(side, M, c, a) /\ Nearest(Other(side), M, c, b)
    /\ c = NULL => /\ a # NULL => Last(Other(side), M, a)
                   /\ b # NULL => Last(side, M, b)

Iteration(it, M) ==
    /\ it \in [on : BOOLEAN, c : Pointer, n : Pointer, p : Pointer]
    /\ it.on => Walks("right", M, it.c, it.n, it.p)

Answers(r) == r \in {<<>>} \cup {<<n>> : n \in Pointer} \cup Pointer \X Pointer \X Pointer

TInv == Entries /\ Iteration(iter, DOMAIN live) /\ Answers(result)

\* The forms of a result.
LEMMA OneAnswer ==
    ASSUME NEW a \in Pointer
    PROVE  Answers(<<a>>)
  BY DEF Answers

LEMMA ThreeAnswers ==
    ASSUME NEW a \in Pointer, NEW b \in Pointer, NEW c \in Pointer
    PROVE  Answers(<<a, b, c>>)
  BY DEF Answers

LEMMA NoAnswer ==
    Answers(<<>>)
  BY DEF Answers

\* Without an iterator there is nothing to say.
LEMMA NoIterWalks ==
    ASSUME NEW M
    PROVE  Iteration(NoIter, M) /\ NoIter.on = FALSE
  BY Nodes DEF Iteration, NoIter

\* What is found is a pointer.
LEMMA FoundPointers ==
    ASSUME NEW M, M \in SUBSET Node, NEW side \in Side, NEW n, NEW m
    PROVE  /\ Nearest(side, M, n, m) => m \in M \cup {NULL} /\ m \in Pointer
           /\ Last(side, M, m) => m \in M /\ m \in Pointer
  BY Nodes DEF Nearest, Last

\* The iteration can be seen from both sides.
LEMMA WalksBack ==
    ASSUME NEW M, NEW c, NEW a, NEW b, NEW side \in Side
    PROVE  Walks(side, M, c, a, b) <=> Walks(Other(side), M, c, b, a)
<1>1. Other(Other(side)) = side
  BY Sides
<1> QED
  BY <1>1 DEF Walks

\* One step of an iteration.
LEMMA Steps ==
    ASSUME NEW M, Balanced(tree, M), NEW side \in Side, NEW c \in Pointer, NEW a, NEW b, Walks(side, M, c, a, b)
    PROVE  /\ Walks(side, M, a, Beyond(side, a), IF node_cleared_p(tree, c) THEN Beyond(Other(side), a) ELSE c)
           /\ a \in M \cup {NULL} /\ Beyond(side, a) \in M \cup {NULL} /\ Beyond(Other(side), a) \in M \cup {NULL}
           /\ ~ node_cleared_p(tree, c) => c \in M \cup {NULL}
<1> DEFINE o == Other(side)
           cl == node_cleared_p(tree, c)
<1>1. o \in Side /\ Other(o) = side /\ M \in SUBSET Node /\ NULL \notin M
  BY Finds, Sides
<1>2. (c # NULL => (cl <=> c \notin M \/ M = {c})) /\ (c = NULL => ~ cl)
  BY Finds DEF Pointer, node_cleared_p
<1>3. a \in M \cup {NULL}
  BY <1>1 DEF Walks, Nearest, Last
<1>4. \A x \in Side : \A n \in M : Nearest(x, M, n, Neighbour(tree, x, n))
  BY Finds
<1>5. \A x \in Side : /\ a # NULL => Nearest(x, M, a, Beyond(x, a))
                      /\ a = NULL => Beyond(x, a) = NULL
                      /\ Beyond(x, a) \in M \cup {NULL}
  <2>1. ASSUME NEW x \in Side, a # NULL PROVE Nearest(x, M, a, Beyond(x, a)) /\ Beyond(x, a) \in M \cup {NULL}
    <3>1. Nearest(x, M, a, Beyond(x, a))
      BY <1>3, <1>4, <2>1 DEF Beyond
    <3> QED
      BY <3>1 DEF Nearest
  <2> QED
    BY <2>1 DEF Beyond
<1>6. ~ cl => c \in M \cup {NULL}
  BY <1>2
<1> HIDE DEF cl, o
<1>7. CASE a = NULL
  <2>1. ASSUME ~ cl, c # NULL PROVE Last(side, M, c)
    <3>1. c \in M /\ \A b2 \in M : ~ Sided(side, c, b2)
      BY <1>2, <1>7, <2>1 DEF Walks, Nearest
    <3>2. \A b2 \in M : b2 = c \/ Sided(o, c, b2)
      BY <1>1, <3>1, SidedFacts DEF o
    <3> QED
      BY <3>1, <3>2 DEF Last, o
  <2>2. Walks(side, M, a, Beyond(side, a), IF cl THEN Beyond(o, a) ELSE c)
    BY <1>1, <1>5, <1>7, <2>1 DEF Walks, o
  <2> QED
    BY <1>1, <1>3, <1>5, <1>6, <2>2 DEF cl, o
<1>8. CASE a # NULL
  <2>1. ASSUME ~ cl PROVE Nearest(o, M, a, c)
    <3>1. CASE c = NULL
      <4>1. \A b2 \in M : b2 = a \/ Sided(side, a, b2)
        BY <1>1, <1>8, <3>1 DEF Walks, Last, o
      <4>2. \A b2 \in M : ~ Sided(o, a, b2)
        <5>1. a \in Node
          BY <1>1, <1>3, <1>8
        <5> QED
          BY <1>1, <4>1, <5>1, SidedFacts
      <4> QED
        BY <3>1, <4>2 DEF Nearest
    <3>2. CASE c # NULL
      <4>1. /\ c \in M /\ a \in M /\ Sided(side, c, a) /\ c \in Node /\ a \in Node
            /\ \A b2 \in M : Sided(side, c, b2) => b2 = a \/ Sided(side, a, b2)
        BY <1>1, <1>2, <1>8, <2>1, <3>2 DEF Walks, Nearest
      <4>2. Sided(o, a, c)
        BY <1>1, <4>1, SidedFacts DEF o
      <4>3. ASSUME NEW b2 \in M, Sided(o, a, b2), b2 # c PROVE Sided(o, c, b2)
        <5>1. b2 \in Node
          BY <1>1
        <5>2. ~ Sided(side, a, b2) /\ b2 # a
          BY <1>1, <4>1, <4>3, <5>1, SidedFacts
        <5>3. ~ Sided(side, c, b2)
          BY <4>1, <5>2
        <5> QED
          BY <1>1, <4>1, <4>3, <5>1, <5>3, SidedFacts DEF o
      <4> QED
        BY <3>2, <4>1, <4>2, <4>3 DEF Nearest
    <3> QED
      BY <3>1, <3>2
  <2>2. Nearest(side, M, a, Beyond(side, a)) /\ Nearest(o, M, a, Beyond(o, a))
    BY <1>1, <1>5, <1>8
  <2>3. Walks(side, M, a, Beyond(side, a), IF cl THEN Beyond(o, a) ELSE c)
    BY <1>8, <2>1, <2>2 DEF Walks, o
  <2> QED
    BY <1>1, <1>3, <1>5, <1>6, <2>3 DEF cl, o
<1> QED
  BY <1>7, <1>8

\* The empty tree is balanced.
LEMMA EmptyBalanced ==
    Balanced(EmptyTree, {})
<1> DEFINE D == [a \in Pointer |-> {}]
           h == [a \in Pointer |-> 0]
<1>1. /\ EmptyTree \in Tree /\ EmptyTree.root = NULL /\ EmptyTree.key = [n \in Node |-> n]
      /\ EmptyTree.parent = [n \in Node |-> NULL] /\ \A x \in Side : EmptyTree.kid[x] = [n \in Node |-> NULL]
  BY Nodes DEF EmptyTree, Tree, Key
<1>2. D \in [Pointer -> SUBSET {}] /\ D[NULL] = {} /\ h \in [Pointer -> Nat] /\ h[NULL] = 0
  BY Nodes
<1> HIDE DEF D, h
<1>3. Hung(EmptyTree, {}, D)
  BY <1>1, <1>2 DEF Hung, Linked, Branching
<1>4. Sorted(EmptyTree, {}, D) /\ Even(EmptyTree, {}, h) /\ NoRedRed(EmptyTree, {}, NULL) /\ Keyed(EmptyTree)
  BY <1>1, <1>2 DEF Sorted, Even, NoRedRed, Keyed
<1>5. Cleared(EmptyTree, {}, NULL)
  <2>1. ASSUME NEW n \in Node PROVE node_cleared_p(EmptyTree, n)
    BY <1>1, Nodes DEF node_cleared_p
  <2> QED
    BY <2>1 DEF Cleared
<1> QED
  BY <1>3, <1>4, <1>5 DEF Balanced, SearchTree

\* The empty tree has the invariant.
LEMMA InitTInv ==
    Init => TInv
<1>1. SUFFICES ASSUME Init PROVE TInv
  OBVIOUS
<1>2. live = [k \in {} |-> NULL] /\ tree = EmptyTree /\ num_entries = 0 /\ iter = NoIter /\ result = <<>>
  BY <1>1 DEF Init
<1>3. DOMAIN live = {} /\ live = [k \in DOMAIN live |-> k]
  BY <1>2
<1>4. Cardinality({}) = 0
  BY FS_EmptySet
<1>5. Entries
  BY <1>2, <1>3, <1>4, EmptyBalanced DEF Entries
<1> QED
  BY <1>2, <1>5, NoIterWalks, NoAnswer DEF TInv

\* What is known in every state.
LEMMA StateFacts ==
    ASSUME TInv
    PROVE  /\ Balanced(tree, DOMAIN live) /\ DOMAIN live \in SUBSET Node /\ NULL \notin DOMAIN live
           /\ live = [k \in DOMAIN live |-> k] /\ (\A k \in DOMAIN live : live[k] = k)
           /\ num_entries = Cardinality(DOMAIN live) /\ IsFiniteSet(DOMAIN live)
           /\ DOMAIN live \subseteq Key /\ Key = Node
           /\ iter \in [on : BOOLEAN, c : Pointer, n : Pointer, p : Pointer]
           /\ iter.on => Walks("right", DOMAIN live, iter.c, iter.n, iter.p)
<1>1. IsFiniteSet(DOMAIN live)
  <2>1. IsFiniteSet(Node)
    BY Nodes, FS_Interval
  <2> QED
    BY <2>1, FS_Subset, Nodes DEF TInv, Entries
<1> QED
  BY <1>1, Nodes DEF TInv, Entries, Iteration

\* Deletion.
LEMMA RemoveKeeps ==
    ASSUME TInv, NEW n \in DOMAIN live, Remove(n)
    PROVE  /\ Entries' /\ Iteration(iter, DOMAIN live)'
           /\ DOMAIN live' = DOMAIN live \ {n} /\ \A k \in DOMAIN live' : live'[k] = k
<1> DEFINE M == DOMAIN live
<1>1. /\ Balanced(tree, M) /\ M \in SUBSET Node /\ (\A k \in M : live[k] = k) /\ num_entries = Cardinality(M)
      /\ IsFiniteSet(M) /\ M \subseteq Key /\ NULL \notin M
      /\ iter \in [on : BOOLEAN, c : Pointer, n : Pointer, p : Pointer]
      /\ iter.on => Walks("right", M, iter.c, iter.n, iter.p)
  BY StateFacts
<1>2. /\ tree' = delete_node(tree, n) /\ num_entries' = num_entries - 1
      /\ iter' = IF iter.on /\ iter.c # n THEN NoIter ELSE iter
      /\ live' = [j \in {i \in M : live[i] # n} |-> live[j]]
  BY DEF Remove
<1>3. {i \in M : live[i] # n} = M \ {n}
  BY <1>1
<1>4. DOMAIN live' = M \ {n} /\ (\A k \in DOMAIN live' : live'[k] = k) /\ live' = [k \in DOMAIN live' |-> k]
  BY <1>1, <1>2, <1>3
<1>5. Balanced(tree', DOMAIN live')
  BY <1>1, <1>2, <1>4, DeleteBalanced
<1>6. num_entries' = Cardinality(DOMAIN live')
  <2>1. Cardinality(M \ {n}) = Cardinality(M) - 1
    BY <1>1, FS_RemoveElement
  <2> QED
    BY <1>1, <1>2, <1>4, <2>1
<1> HIDE DEF M
<1>7. Entries'
  BY <1>1, <1>4, <1>5, <1>6 DEF Entries
<1>8. Iteration(iter', M \ {n})
  <2>1. CASE iter.on /\ iter.c # n
    BY <1>2, <2>1, NoIterWalks
  <2>2. CASE ~ iter.on
    BY <1>1, <1>2, <2>2 DEF Iteration
  <2>3. CASE iter.on /\ iter.c = n
    <3>1. n # NULL /\ n \in Node
      BY <1>1 DEF M
    <3>2. Nearest("right", M, n, iter.n) /\ Nearest(Other("right"), M, n, iter.p)
      BY <1>1, <2>3, <3>1 DEF Walks
    <3>3. ASSUME NEW x \in Side, NEW m, Nearest(x, M, n, m) PROVE Nearest(x, M \ {n}, n, m)
      <4>1. ~ Sided(x, n, n)
        BY <3>1, SidedFacts
      <4> QED
        BY <3>3, <4>1 DEF Nearest
    <3>4. Walks("right", M \ {n}, iter.c, iter.n, iter.p)
      BY <2>3, <3>1, <3>2, <3>3, Sides DEF Walks
    <3> QED
      BY <1>1, <1>2, <2>3, <3>4 DEF Iteration
  <2> QED
    BY <2>1, <2>2, <2>3
<1> QED
  BY <1>4, <1>7, <1>8 DEF M

\* A new entry.
LEMMA CreateKeeps ==
    ASSUME TInv, NEW k \in Key, Create(k), k \notin DOMAIN live
    PROVE  TInv' /\ DOMAIN live' = DOMAIN live \cup {k} /\ (\A j \in DOMAIN live' : live'[j] = j)
           /\ result' = <<k>> /\ iter' = NoIter
<1> DEFINE M == DOMAIN live
<1>1. /\ Balanced(tree, M) /\ M \in SUBSET Node /\ (\A j \in M : live[j] = j) /\ num_entries = Cardinality(M)
      /\ IsFiniteSet(M) /\ M \subseteq Key
  BY StateFacts
<1>2. /\ Found(k) <=> k \in M
      /\ tree.root = NULL <=> M = {}
      /\ M = {} => Reach(k) = NULL
      /\ M # {} => Reach(k) \in M /\ Reach(k) = Descend(tree, tree.root, k)
  BY <1>1, Searches
<1> DEFINE e == Reach(k)
           T == new_node(tree, k, e, k)
<1>3. /\ tree' = IF e = NULL THEN Paint([T EXCEPT !.root = k], k, "BLACK")
                 ELSE balance_tree([T EXCEPT !.kid[TowardsKey(tree, e, k)][e] = k], k)
      /\ result' = <<k>> /\ num_entries' = num_entries + 1 /\ iter' = NoIter
      /\ live' = [j \in M \cup {k} |-> IF j = k THEN k ELSE live[j]]
  BY <1>2 DEF Create
<1>4. /\ DOMAIN live' = M \cup {k} /\ (\A j \in DOMAIN live' : live'[j] = j) /\ live' = [j \in DOMAIN live' |-> j]
  BY <1>1, <1>3
<1>5. Balanced(tree', DOMAIN live')
  <2>1. CASE M = {}
    <3>1. e = NULL /\ tree.root = NULL
      BY <1>2, <2>1
    <3>2. Balanced(Paint([new_node(tree, k, NULL, k) EXCEPT !.root = k], k, "BLACK"), {k})
      BY <1>1, <3>1, FirstBalanced
    <3> QED
      BY <1>3, <1>4, <2>1, <3>1, <3>2
  <2>2. CASE M # {}
    <3>1. e # NULL /\ tree.root # NULL /\ e = Descend(tree, tree.root, k)
      BY <1>1, <1>2, <2>2, Nodes
    <3>2. Balanced(balance_tree([T EXCEPT !.kid[TowardsKey(tree, e, k)][e] = k], k), M \cup {k})
      BY <1>1, <3>1, InsertBalanced
    <3> QED
      BY <1>3, <1>4, <3>1, <3>2
  <2> QED
    BY <2>1, <2>2
<1>6. num_entries' = Cardinality(DOMAIN live')
  <2>1. Cardinality(M \cup {k}) = Cardinality(M) + 1
    BY <1>1, FS_AddElement
  <2> QED
    BY <1>1, <1>3, <1>4, <2>1
<1>7. Entries'
  <2>1. DOMAIN live' \subseteq Key
    BY <1>1, <1>4
  <2> QED
    BY <1>4, <1>5, <1>6, <2>1 DEF Entries
<1>8. Iteration(iter, DOMAIN live)'
  BY <1>3, NoIterWalks
<1>9. Answers(result')
  <2>1. k \in Pointer
    BY Nodes
  <2> QED
    BY <1>3, <2>1, OneAnswer
<1> QED
  BY <1>3, <1>4, <1>7, <1>8, <1>9 DEF TInv

\* An operation that only looks.
LEMMA LookKeeps ==
    ASSUME TInv, UNCHANGED <<tree, num_entries, iter, live>>, Answers(result')
    PROVE  TInv'
<1>1. Entries'
  BY DEF TInv, Entries
<1> QED
  BY <1>1 DEF TInv

\* An operation that only moves the iterator.
LEMMA WalkKeeps ==
    ASSUME TInv, UNCHANGED <<tree, num_entries, live>>, Answers(result'), Iteration(iter', DOMAIN live)
    PROVE  TInv'
<1>1. Entries'
  BY DEF TInv, Entries
<1> QED
  BY <1>1 DEF TInv

\* Every operation leaves a tree of this kind, and an iteration that knows where it is.
LEMMA NextTInv ==
    ASSUME TInv, [Next]_vars
    PROVE  TInv'
<1> DEFINE M == DOMAIN live
<1>1. /\ Balanced(tree, M) /\ M \in SUBSET Node /\ NULL \notin M /\ (\A j \in M : live[j] = j)
      /\ M \subseteq Key /\ Key = Node /\ M \subseteq Pointer /\ NULL \in Pointer
      /\ iter \in [on : BOOLEAN, c : Pointer, n : Pointer, p : Pointer]
      /\ iter.on => Walks("right", M, iter.c, iter.n, iter.p)
  BY StateFacts, Nodes
<1>2. "left" \in Side /\ "right" \in Side /\ Other("left") = "right" /\ Other("right") = "left"
  BY Sides
<1>3. \A k \in Key : /\ Found(k) <=> k \in M
                     /\ Get(k) = (IF k \in M THEN k ELSE NULL) /\ Get(k) \in Pointer
  <2>1. ASSUME NEW k \in Key PROVE (Found(k) <=> k \in M) /\ Get(k) = (IF k \in M THEN k ELSE NULL)
    BY <1>1, Searches
  <2> QED
    BY <1>1, <2>1
<1>4. tree.root = NULL <=> M = {}
  <2>1. 1 \in Key
    BY Nodes
  <2> QED
    BY <1>1, <2>1, Searches
<1>5. \A side \in Side : Bound(side) \in M \cup {NULL} /\ Bound(side) \in Pointer /\ (M # {} => Last(side, M, Bound(side)))
                         /\ (M = {} => Bound(side) = NULL)
  <2>1. ASSUME NEW side \in Side PROVE (M # {} => Last(side, M, Bound(side))) /\ (M = {} => Bound(side) = NULL)
    BY <1>1, Finds
  <2> QED
    BY <1>1, <2>1, FoundPointers
<1>6. CASE UNCHANGED vars
  BY <1>6 DEF vars, TInv, Entries
<1>7. ASSUME NEW k \in Key, Create(k) PROVE TInv'
  <2>1. CASE k \in M
    <3>1. result' = <<Get(k)>> /\ UNCHANGED <<tree, num_entries, iter, live>>
      BY <1>3, <1>7, <2>1 DEF Create
    <3> QED
      BY <1>3, <3>1, OneAnswer, LookKeeps
  <2>2. CASE k \notin M
    BY <1>7, <2>2, CreateKeeps
  <2> QED
    BY <2>1, <2>2
<1>8. ASSUME NEW k \in Key, Delete(k) PROVE TInv'
  <2>1. result' = <<Get(k)>> /\ Answers(result')
    BY <1>3, <1>8, OneAnswer DEF Delete
  <2>2. CASE k \in M
    <3>1. Remove(k)
      BY <1>3, <1>8, <2>2 DEF Delete
    <3> QED
      BY <2>1, <2>2, <3>1, RemoveKeeps DEF TInv
  <2>3. CASE k \notin M
    <3>1. UNCHANGED <<tree, num_entries, iter, live>>
      BY <1>3, <1>8, <2>3 DEF Delete
    <3> QED
      BY <2>1, <3>1, LookKeeps
  <2> QED
    BY <2>2, <2>3
<1>9. ASSUME NEW k \in Key, Near(k) PROVE TInv'
  <2>1. /\ result' = <<Get(k), NearOn(k, "left"), NearOn(k, "right")>>
        /\ UNCHANGED <<tree, num_entries, iter, live>>
    BY <1>9 DEF Near, NearOn
  <2>2. ASSUME NEW side \in Side PROVE NearOn(k, side) \in Pointer
    <3>1. Nearest(side, M, k, NearOn(k, side))
      BY <1>1, NearOnIs
    <3> QED
      BY <1>1, <3>1, FoundPointers
  <2>3. Answers(result')
    BY <1>2, <1>3, <2>1, <2>2, ThreeAnswers
  <2> QED
    BY <2>1, <2>3, LookKeeps
<1>10. ASSUME NEW side \in Side, GetBound(side) PROVE TInv'
  <2>1. result' = <<Bound(side)>> /\ UNCHANGED <<tree, num_entries, iter, live>>
    BY <1>10 DEF GetBound
  <2> QED
    BY <1>5, <2>1, OneAnswer, LookKeeps
<1>11. ASSUME NEW side \in Side, PopBound(side) PROVE TInv'
  <2>1. result' = <<Bound(side)>> /\ Answers(result')
    BY <1>5, <1>11, OneAnswer DEF PopBound
  <2>2. CASE M = {}
    <3>1. UNCHANGED <<tree, num_entries, iter, live>>
      BY <1>4, <1>11, <2>2 DEF PopBound
    <3> QED
      BY <2>1, <3>1, LookKeeps
  <2>3. CASE M # {}
    <3>1. Remove(Bound(side))
      BY <1>4, <1>11, <2>3 DEF PopBound
    <3>2. Bound(side) \in M
      BY <1>5, <2>3 DEF Last
    <3> QED
      BY <2>1, <3>1, <3>2, RemoveKeeps DEF TInv
  <2> QED
    BY <2>2, <2>3
<1>12. CASE Clear
  <2>1. /\ tree' = EmptyTree /\ num_entries' = 0 /\ iter' = NoIter /\ result' = <<>>
        /\ live' = [k \in {} |-> NULL]
    BY <1>12 DEF Clear
  <2>2. DOMAIN live' = {} /\ live' = [k \in DOMAIN live' |-> k]
    BY <2>1
  <2>3. Entries'
    BY <2>1, <2>2, EmptyBalanced, FS_EmptySet DEF Entries
  <2> QED
    BY <2>1, <2>3, NoIterWalks, NoAnswer DEF TInv
<1>13. ASSUME NEW start \in Node \cup {NULL}, IterInit(start) PROVE TInv'
  <2> DEFINE n == IF start # NULL THEN next_node(tree, start) ELSE Bound("left")
             p == IF start # NULL THEN prev_node(tree, start) ELSE Bound("right")
  <2>1. /\ iter' = [on |-> TRUE, c |-> start, n |-> n, p |-> p]
        /\ result' = <<start>> /\ UNCHANGED <<tree, num_entries, live>>
        /\ start # NULL => Get(tree.key[start]) = start
    BY <1>13 DEF IterInit
  <2>2. start # NULL => start \in M
    <3>1. SUFFICES ASSUME start # NULL PROVE start \in M
      OBVIOUS
    <3>2. tree.key[start] \in Key /\ Get(tree.key[start]) = start
      <4>1. tree \in Tree
        BY <1>1, BalancedShape
      <4> QED
        BY <2>1, <3>1, <4>1, TreeParts
    <3> QED
      BY <1>3, <3>1, <3>2
  <2>3. Walks("right", M, start, n, p) /\ n \in Pointer /\ p \in Pointer
    <3>1. CASE start = NULL
      BY <1>1, <1>2, <1>5, <3>1 DEF Walks
    <3>2. CASE start # NULL
      <4>1. /\ Nearest("right", M, start, Neighbour(tree, "right", start))
            /\ Nearest("left", M, start, Neighbour(tree, "left", start))
        BY <1>1, <1>2, <2>2, <3>2, Finds
      <4>2. n = Neighbour(tree, "right", start) /\ p = Neighbour(tree, "left", start)
        BY <3>2 DEF next_node, prev_node
      <4> HIDE DEF n, p
      <4> QED
        BY <1>1, <1>2, <3>2, <4>1, <4>2, FoundPointers DEF Walks
    <3> QED
      BY <3>1, <3>2
  <2> HIDE DEF n, p
  <2>4. Iteration(iter', M)
    BY <2>1, <2>3 DEF Iteration, Pointer
  <2>5. Answers(result')
    BY <2>1, OneAnswer DEF Pointer
  <2> QED
    BY <2>1, <2>4, <2>5, WalkKeeps
<1>14. CASE TreeIterNext
  <2> DEFINE n == Beyond("right", iter.n)
             p == IF node_cleared_p(tree, iter.c) THEN Beyond("left", iter.n) ELSE iter.c
  <2>1. /\ iter.on /\ iter' = [on |-> TRUE, c |-> iter.n, n |-> n, p |-> p]
        /\ result' = <<iter.n>> /\ UNCHANGED <<tree, num_entries, live>>
    BY <1>14 DEF TreeIterNext
  <2>2. /\ Walks("right", M, iter.n, n, p) /\ iter.n \in Pointer /\ n \in Pointer /\ p \in Pointer
    <3>1. Walks("right", M, iter.c, iter.n, iter.p) /\ iter.c \in Pointer
      BY <1>1, <2>1
    <3> QED
      BY <1>1, <1>2, <3>1, Steps
  <2> HIDE DEF n, p
  <2>3. Iteration(iter', M) /\ Answers(result')
    BY <2>1, <2>2, OneAnswer DEF Iteration
  <2> QED
    BY <2>1, <2>3, WalkKeeps
<1>15. CASE TreeIterPrev
  <2> DEFINE p == Beyond("left", iter.p)
             n == IF node_cleared_p(tree, iter.c) THEN Beyond("right", iter.p) ELSE iter.c
  <2>1. /\ iter.on /\ iter' = [on |-> TRUE, c |-> iter.p, n |-> n, p |-> p]
        /\ result' = <<iter.p>> /\ UNCHANGED <<tree, num_entries, live>>
    BY <1>15 DEF TreeIterPrev
  <2>2. /\ Walks("left", M, iter.p, p, n) /\ iter.p \in Pointer /\ n \in Pointer /\ p \in Pointer
    <3>1. Walks("left", M, iter.c, iter.p, iter.n) /\ iter.c \in Pointer
      BY <1>1, <1>2, <2>1, WalksBack
    <3> QED
      BY <1>1, <1>2, <3>1, Steps
  <2> HIDE DEF n, p
  <2>3. Walks("right", M, iter.p, n, p)
    BY <1>2, <2>2, WalksBack
  <2>4. Iteration(iter', M) /\ Answers(result')
    BY <2>1, <2>2, <2>3, OneAnswer DEF Iteration
  <2> QED
    BY <2>1, <2>4, WalkKeeps
<1> QED
  BY <1>6, <1>7, <1>8, <1>9, <1>10, <1>11, <1>12, <1>13, <1>14, <1>15 DEF Next

\* Every reachable state has it.
LEMMA AlwaysTInv ==
    Spec => []TInv
<1>1. TInv /\ [Next]_vars => TInv'
  BY NextTInv
<1> QED
  BY <1>1, InitTInv, PTL DEF Spec

-----------------------------------------------------------------------------
(* Theorems.                                                                   *)

\* Every state is one of the type: the operations never leave a pointer, a count or an
\* iterator outside its range.
THEOREM TypeOK_holds ==
    Spec => []TypeOK
<1>1. TInv => TypeOK
  <2>1. SUFFICES ASSUME TInv PROVE TypeOK
    OBVIOUS
  <2>2. tree \in Tree /\ DOMAIN live \subseteq Node /\ DOMAIN live \subseteq Key
    BY <2>1, StateFacts, BalancedShape
  <2>3. num_entries \in 0 .. NKeys
    <3>1. IsFiniteSet(Node) /\ Cardinality(Node) = NKeys
      <4>1. 1..NKeys = Node /\ NKeys - 1 + 1 = NKeys /\ 1 \in Int /\ NKeys \in Int /\ NKeys > 0
        BY Nodes
      <4> QED
        BY <4>1, FS_Interval
    <3>2. num_entries = Cardinality(DOMAIN live)
      BY <2>1, StateFacts
    <3>3. Cardinality(DOMAIN live) <= NKeys /\ IsFiniteSet(DOMAIN live)
      BY <2>2, <3>1, FS_Subset
    <3>4. Cardinality(DOMAIN live) \in Nat
      BY <3>3, FS_CardinalityType
    <3> QED
      BY <3>2, <3>3, <3>4, Nodes
  <2> QED
    BY <2>1, <2>2, <2>3 DEF TypeOK, TInv, Iteration, Answers
<1> QED
  BY <1>1, AlwaysTInv, PTL

\* balance_tree and delete_node1 keep the tree balanced: a black root, no two red nodes in a
\* row and as many black nodes on every path, and the count is that of the nodes.
THEOREM RedBlackHolds ==
    Spec => []RedBlack
<1>1. TInv => RedBlack
  <2>1. SUFFICES ASSUME TInv PROVE RedBlack
    OBVIOUS
  <2> DEFINE M == DOMAIN live
  <2>2. Balanced(tree, M) /\ num_entries = Cardinality(M)
    BY <2>1, StateFacts
  <2> HIDE DEF M
  <2>3. /\ InTree = M /\ BLACKP(tree, tree.root) /\ Cardinality(BlackHeight) = 1
        /\ \A n \in InTree : REDP(tree, n) => \A side \in Side : BLACKP(tree, tree.kid[side][n])
    BY <2>2, BalancedShape
  <2> QED
    BY <2>2, <2>3 DEF RedBlack
<1> QED
  BY <1>1, AlwaysTInv, PTL

\* rotate, swap_node, replace_node and clear_node set every pointer they have to: parents and
\* children agree, deleted nodes are out of reach and look cleared, and the tree has the entries
\* that were entered and not deleted.
THEOREM LinksExactHolds ==
    Spec => []LinksExact
<1>1. TInv => LinksExact
  <2>1. SUFFICES ASSUME TInv PROVE LinksExact
    OBVIOUS
  <2> DEFINE M == DOMAIN live
  <2>2. Balanced(tree, M) /\ (\A k \in M : live[k] = k) /\ M \in SUBSET Node
    BY <2>1, StateFacts
  <2> HIDE DEF M
  <2>3. /\ InTree = M
        /\ tree.root # NULL => tree.parent[tree.root] = NULL
        /\ \A n \in InTree : \A side \in Side :
             tree.kid[side][n] # NULL => tree.parent[tree.kid[side][n]] = n
        /\ \A n \in InTree : tree.parent[n] \in InTree \cup {NULL}
        /\ \A n \in Node \ InTree : node_cleared_p(tree, n)
        /\ tree.key = [n \in Node |-> n]
    BY <2>2, BalancedShape
  <2>4. InTree = {live[k] : k \in M} /\ \A k \in M : tree.key[live[k]] = k
    BY <2>2, <2>3
  <2> QED
    BY <2>3, <2>4 DEF LinksExact, M
<1> QED
  BY <1>1, AlwaysTInv, PTL

-----------------------------------------------------------------------------
(* The tree is an ordered map.                                                 *)

\* Where an iteration is, in the abstract.
Place(it) ==
    IF ~ it.on THEN -1
    ELSE IF it.c # NULL THEN it.c
    ELSE IF it.n = NULL THEN (IF it.p = NULL THEN -5 ELSE -4)
    ELSE IF it.p = NULL THEN -3 ELSE -2

\* The key of the current entry is that entry.
LEMMA PlaceIs ==
    ASSUME NEW T, NEW M, Balanced(T, M), NEW it, Iteration(it, M)
    PROVE  it.c # NULL => T.key[it.c] = it.c
<1>1. Keyed(T)
  BY DEF Balanced, SearchTree
<1> QED
  BY <1>1 DEF Keyed, Iteration, Pointer

\* Position is Place.
LEMMA PositionIs ==
    /\ TInv => Position = Place(iter)
    /\ TInv' => Position' = Place(iter')
<1>1. ASSUME TInv PROVE Position = Place(iter)
  <2>1. iter.c # NULL => tree.key[iter.c] = iter.c
    BY <1>1, PlaceIs DEF TInv, Entries
  <2> QED
    BY <2>1 DEF Position, Place
<1>2. ASSUME TInv' PROVE Position' = Place(iter')
  <2>1. iter'.c # NULL => tree'.key[iter'.c] = iter'.c
    BY <1>2, PlaceIs DEF TInv, Entries
  <2> QED
    BY <2>1 DEF Position, Place
<1> QED
  BY <1>1, <1>2

\* The last on a side is the least or the greatest.
LEMMA Extremes ==
    ASSUME NEW S, S \in SUBSET Node, NEW m
    PROVE  /\ Last("left", S, m) => Ordered!Min(S) = m /\ m \in S
           /\ Last("right", S, m) => Ordered!Max(S) = m /\ m \in S
<1>1. \A a \in S : a \in Int
  BY Nodes
<1>2. Other("left") = "right" /\ Other("right") = "left"
  BY Sides
<1>3. ASSUME Last("left", S, m) PROVE Ordered!Min(S) = m /\ m \in S
  <2>1. m \in S /\ \A b \in S : m <= b
    BY <1>1, <1>2, <1>3 DEF Last, Sided
  <2> DEFINE c == CHOOSE x \in S : \A y \in S : x <= y
  <2>2. c \in S /\ \A y \in S : c <= y
    BY <2>1
  <2> HIDE DEF c
  <2>3. c = m
    BY <1>1, <2>1, <2>2
  <2> QED
    BY <2>1, <2>3 DEF Ordered!Min, c
<1>4. ASSUME Last("right", S, m) PROVE Ordered!Max(S) = m /\ m \in S
  <2>1. m \in S /\ \A b \in S : m >= b
    BY <1>1, <1>2, <1>4 DEF Last, Sided
  <2> DEFINE c == CHOOSE x \in S : \A y \in S : x >= y
  <2>2. c \in S /\ \A y \in S : c >= y
    BY <2>1
  <2> HIDE DEF c
  <2>3. c = m
    BY <1>1, <2>1, <2>2
  <2> QED
    BY <2>1, <2>3 DEF Ordered!Max, c
<1> QED
  BY <1>3, <1>4

\* The next key on a side is the least above or the greatest below.
LEMMA NextKeys ==
    ASSUME NEW M, M \in SUBSET Node, NEW k \in Node, NEW m
    PROVE  /\ Nearest("right", M, k, m) /\ m = NULL => {j \in M : j > k} = {}
           /\ Nearest("right", M, k, m) /\ m # NULL =>
                m \in M /\ {j \in M : j > k} # {} /\ Ordered!Min({j \in M : j > k}) = m
           /\ Nearest("left", M, k, m) /\ m = NULL => {j \in M : j < k} = {}
           /\ Nearest("left", M, k, m) /\ m # NULL =>
                m \in M /\ {j \in M : j < k} # {} /\ Ordered!Max({j \in M : j < k}) = m
<1>1. Other("left") = "right" /\ Other("right") = "left"
  BY Sides
<1>2. (\A a \in M : a \in Int) /\ k \in Int /\ NULL \notin M
  BY Nodes
<1>3. ASSUME Nearest("right", M, k, m), m = NULL PROVE {j \in M : j > k} = {}
  BY <1>2, <1>3 DEF Nearest, Sided
<1>4. ASSUME Nearest("right", M, k, m), m # NULL
      PROVE  m \in M /\ {j \in M : j > k} # {} /\ Ordered!Min({j \in M : j > k}) = m
  <2> DEFINE S == {j \in M : j > k}
  <2>1. Last("left", S, m)
    BY <1>1, <1>2, <1>4 DEF Nearest, Last, Sided
  <2>2. S \in SUBSET Node
    OBVIOUS
  <2>3. S \subseteq M
    OBVIOUS
  <2> HIDE DEF S
  <2>4. Ordered!Min(S) = m /\ m \in S
    BY <2>1, <2>2, Extremes
  <2> QED
    BY <2>3, <2>4 DEF S
<1>5. ASSUME Nearest("left", M, k, m), m = NULL PROVE {j \in M : j < k} = {}
  BY <1>2, <1>5 DEF Nearest, Sided
<1>6. ASSUME Nearest("left", M, k, m), m # NULL
      PROVE  m \in M /\ {j \in M : j < k} # {} /\ Ordered!Max({j \in M : j < k}) = m
  <2> DEFINE S == {j \in M : j < k}
  <2>1. Last("right", S, m)
    BY <1>1, <1>2, <1>6 DEF Nearest, Last, Sided
  <2>2. S \in SUBSET Node
    OBVIOUS
  <2>3. S \subseteq M
    OBVIOUS
  <2> HIDE DEF S
  <2>4. Ordered!Max(S) = m /\ m \in S
    BY <2>1, <2>2, Extremes
  <2> QED
    BY <2>3, <2>4 DEF S
<1> QED
  BY <1>3, <1>4, <1>5, <1>6

\* The abstract map starts empty.
LEMMA InitMaps ==
    Init => Ordered!MapInit
<1>1. SUFFICES ASSUME Init PROVE Ordered!MapInit
  OBVIOUS
<1>2. live = [k \in {} |-> NULL] /\ result = <<>> /\ iter = NoIter
  BY <1>1 DEF Init
<1>3. Position = -1
  BY <1>2 DEF Position, NoIter
<1> QED
  BY <1>2, <1>3 DEF Ordered!MapInit, Ordered!None, Ordered!NoIteration, NULL

\* An operation that leaves the tree and the iterator alone leaves the map and the place alone.
LEMMA LookMaps ==
    ASSUME UNCHANGED <<tree, num_entries, iter, live>>
    PROVE  live' = live /\ Position' = Position
  BY DEF Position

\* Create enters an entry, or finds the one that is there.
LEMMA CreateMaps ==
    ASSUME TInv, NEW k \in Key, Create(k)
    PROVE  Ordered!MapCreate(k)
<1> DEFINE M == DOMAIN live
<1>1. Balanced(tree, M) /\ M \in SUBSET Node /\ \A j \in M : live[j] = j
  BY StateFacts
<1>2. (Found(k) <=> k \in M) /\ Get(k) = IF k \in M THEN k ELSE NULL
  BY <1>1, Searches
<1>3. CASE k \in M
  <2>1. result' = <<live[k]>> /\ UNCHANGED <<tree, num_entries, iter, live>>
    BY <1>1, <1>2, <1>3 DEF Create
  <2> QED
    BY <1>3, <2>1, LookMaps DEF Ordered!MapCreate, Ordered!Keys
<1>4. CASE k \notin M
  <2>1. TInv' /\ DOMAIN live' = M \cup {k} /\ (\A j \in DOMAIN live' : live'[j] = j) /\ result' = <<k>> /\ iter' = NoIter
    BY <1>4, CreateKeeps
  <2>2. live' = [j \in M \cup {k} |-> IF j = k THEN k ELSE live[j]]
    BY <1>2, <1>4 DEF Create
  <2>3. Position' = -1
    BY <2>1, PositionIs, NoIterWalks DEF Place
  <2>4. k \in Node \ {live[j] : j \in M}
    BY <1>1, <1>4, Nodes
  <2> QED
    BY <1>4, <2>1, <2>2, <2>3, <2>4 DEF Ordered!MapCreate, Ordered!Keys, Ordered!NoIteration
<1> QED
  BY <1>3, <1>4

\* Deleting an entry.
LEMMA RemoveMaps ==
    ASSUME TInv, NEW n \in DOMAIN live, Remove(n), result' = <<n>>
    PROVE  Ordered!MapDelete(n)
<1> DEFINE M == DOMAIN live
<1>1. M \in SUBSET Node /\ NULL \notin M /\ (\A j \in M : live[j] = j) /\ n \in Node
  BY StateFacts
<1>2. TInv'
  <2>1. Answers(result')
    BY <1>1, OneAnswer, Nodes
  <2> QED
    BY <2>1, RemoveKeeps DEF TInv
<1>3. /\ live' = [j \in {i \in M : live[i] # n} |-> live[j]]
      /\ iter' = IF iter.on /\ iter.c # n THEN NoIter ELSE iter
  BY DEF Remove
<1>4. {i \in M : live[i] # n} = M \ {n}
  BY <1>1
<1>5. live' = [j \in M \ {n} |-> live[j]]
  BY <1>3, <1>4
<1>6. Position = Place(iter) /\ Position' = Place(iter')
  BY <1>2, PositionIs
<1>7. Position' = IF Position # n THEN -1 ELSE Position
  <2>1. n # NULL /\ n > 0 /\ n \in Int
    BY <1>1, Nodes
  <2>2. iter.on => (Position = n <=> iter.c = n)
    BY <1>6, <2>1 DEF Place
  <2>3. ~ iter.on => Position = -1 /\ Position' = -1
    BY <1>3, <1>6 DEF Place
  <2>4. CASE iter.on /\ iter.c # n
    BY <1>3, <1>6, <2>2, <2>4, NoIterWalks DEF Place
  <2>5. CASE iter.on /\ iter.c = n
    BY <1>3, <1>6, <2>2, <2>5
  <2>6. CASE ~ iter.on
    BY <2>1, <2>3, <2>6
  <2> QED
    BY <2>4, <2>5, <2>6
<1>8. result' = <<live[n]>>
  BY <1>1
<1> QED
  BY <1>5, <1>7, <1>8 DEF Ordered!MapDelete, Ordered!EntryOf, Ordered!Keys, Ordered!Without, Ordered!NoIteration

\* Delete takes out the entry with the key, if there is one.
LEMMA DeleteMaps ==
    ASSUME TInv, NEW k \in Key, Delete(k)
    PROVE  Ordered!MapDelete(k)
<1> DEFINE M == DOMAIN live
<1>1. Balanced(tree, M) /\ M \in SUBSET Node /\ (\A j \in M : live[j] = j) /\ live = [j \in M |-> j]
  BY StateFacts
<1>2. (Found(k) <=> k \in M) /\ Get(k) = IF k \in M THEN k ELSE NULL
  BY <1>1, Searches
<1>3. CASE k \in M
  <2>1. result' = <<k>> /\ Remove(k)
    BY <1>2, <1>3 DEF Delete
  <2> QED
    BY <1>3, <2>1, RemoveMaps
<1>4. CASE k \notin M
  <2>1. result' = <<NULL>> /\ UNCHANGED <<tree, num_entries, iter, live>>
    BY <1>2, <1>4 DEF Delete
  <2>2. live' = live /\ Position' = Position
    BY <2>1, LookMaps
  <2>3. [j \in M \ {k} |-> live[j]] = live
    <3>1. M \ {k} = M
      BY <1>4
    <3> QED
      BY <1>1, <3>1
  <2> QED
    BY <1>4, <2>1, <2>2, <2>3
      DEF Ordered!MapDelete, Ordered!EntryOf, Ordered!Keys, Ordered!Without, Ordered!NoIteration, Ordered!None, NULL
<1> QED
  BY <1>3, <1>4

\* Looking at both sides of a key.
LEMMA NearMaps ==
    ASSUME TInv, NEW k \in Key, Near(k)
    PROVE  Ordered!MapNear(k)
<1> DEFINE M == DOMAIN live
           l == NearOn(k, "left")
           r == NearOn(k, "right")
<1>1. Balanced(tree, M) /\ M \in SUBSET Node /\ (\A j \in M : live[j] = j) /\ k \in Node
  BY StateFacts
<1>2. Get(k) = IF k \in M THEN k ELSE NULL
  BY <1>1, Searches
<1>3. Nearest("left", M, k, l) /\ Nearest("right", M, k, r)
  BY <1>1, NearOnIs, Sides
<1>4. result' = <<Get(k), l, r>> /\ UNCHANGED <<tree, num_entries, iter, live>>
  BY DEF Near, NearOn
<1> HIDE DEF l, r
<1>5. Get(k) = Ordered!EntryOf(k)
  BY <1>1, <1>2 DEF Ordered!EntryOf, Ordered!Keys, Ordered!None, NULL
<1>6. l = Ordered!Highest(Ordered!Below(k))
  BY <1>1, <1>3, NextKeys DEF Ordered!Highest, Ordered!Below, Ordered!Keys, Ordered!None, NULL
<1>7. r = Ordered!Lowest(Ordered!Above(k))
  BY <1>1, <1>3, NextKeys DEF Ordered!Lowest, Ordered!Above, Ordered!Keys, Ordered!None, NULL
<1>8. live' = live /\ Position' = Position
  BY <1>4, LookMaps
<1> QED
  BY <1>4, <1>5, <1>6, <1>7, <1>8 DEF Ordered!MapNear

\* The ends of the map.
LEMMA GetBoundMaps ==
    ASSUME TInv, NEW side \in Side, GetBound(side)
    PROVE  Ordered!MapGetBound
<1> DEFINE M == DOMAIN live
<1>1. Balanced(tree, M) /\ M \in SUBSET Node /\ (\A j \in M : live[j] = j)
  BY StateFacts
<1>2. result' = <<Bound(side)>> /\ UNCHANGED <<tree, num_entries, iter, live>>
  BY DEF GetBound
<1>3. live' = live /\ Position' = Position
  BY <1>2, LookMaps
<1>4. (M # {} => Last(side, M, Bound(side))) /\ (M = {} => Bound(side) = NULL)
  BY <1>1, Finds
<1>5. CASE side = "left"
  <2>1. Bound(side) = Ordered!Lowest(M)
    BY <1>1, <1>4, <1>5, Extremes DEF Ordered!Lowest, Ordered!None, NULL
  <2> QED
    BY <1>2, <1>3, <2>1 DEF Ordered!MapGetBound, Ordered!Keys
<1>6. CASE side = "right"
  <2>1. Bound(side) = Ordered!Highest(M)
    BY <1>1, <1>4, <1>6, Extremes DEF Ordered!Highest, Ordered!None, NULL
  <2> QED
    BY <1>2, <1>3, <2>1 DEF Ordered!MapGetBound, Ordered!Keys
<1> QED
  BY <1>5, <1>6 DEF Side

\* PopBound takes out the least or the greatest entry.
LEMMA PopBoundMaps ==
    ASSUME TInv, NEW side \in Side, PopBound(side)
    PROVE  Ordered!MapPop({Ordered!Min(Ordered!Keys)}) \/ Ordered!MapPop({Ordered!Max(Ordered!Keys)})
<1> DEFINE M == DOMAIN live
           e == Bound(side)
<1>1. Balanced(tree, M) /\ M \in SUBSET Node /\ (\A j \in M : live[j] = j)
  BY StateFacts
<1>2. (M # {} => Last(side, M, e)) /\ (M = {} => e = NULL)
  BY <1>1, Finds
<1>3. tree.root = NULL <=> M = {}
  <2>1. 1 \in Key
    BY Nodes
  <2> QED
    BY <1>1, <2>1, Searches
<1>4. result' = <<e>> /\ IF tree.root = NULL THEN UNCHANGED <<tree, num_entries, iter, live>> ELSE Remove(e)
  BY DEF PopBound
<1> HIDE DEF e
<1>5. CASE M = {}
  <2>1. result' = <<NULL>> /\ UNCHANGED <<tree, num_entries, iter, live>>
    BY <1>2, <1>3, <1>4, <1>5
  <2>2. live' = live /\ Position' = Position
    BY <2>1, LookMaps
  <2> QED
    BY <1>5, <2>1, <2>2 DEF Ordered!MapPop, Ordered!Keys, Ordered!None, NULL
<1>6. CASE M # {}
  <2>1. e \in M /\ Remove(e)
    BY <1>2, <1>3, <1>4, <1>6 DEF Last
  <2>2. Ordered!MapDelete(e)
    BY <1>4, <2>1, RemoveMaps
  <2>3. e = Ordered!Min(M) \/ e = Ordered!Max(M)
    BY <1>1, <1>2, <1>6, Extremes DEF Side
  <2> QED
    BY <1>6, <2>2, <2>3 DEF Ordered!MapPop, Ordered!Keys
<1> QED
  BY <1>5, <1>6

\* Clear empties the map.
LEMMA ClearMaps ==
    ASSUME Clear
    PROVE  Ordered!MapClear
<1>1. live' = [k \in {} |-> NULL] /\ result' = <<>> /\ iter' = NoIter
  BY DEF Clear
<1>2. Position' = -1
  BY <1>1 DEF Position, NoIter
<1> QED
  BY <1>1, <1>2 DEF Ordered!MapClear, Ordered!None, Ordered!NoIteration, NULL

\* Beginning an iteration.
LEMMA IterInitMaps ==
    ASSUME TInv, TInv', NEW start \in Node \cup {NULL}, IterInit(start)
    PROVE  Ordered!MapIterate(Ordered!Start) \/ \E k \in Key : Ordered!MapIterate(k)
<1> DEFINE M == DOMAIN live
           n == IF start # NULL THEN next_node(tree, start) ELSE Bound("left")
           p == IF start # NULL THEN prev_node(tree, start) ELSE Bound("right")
<1>1. Balanced(tree, M) /\ M \in SUBSET Node /\ NULL \notin M /\ (\A j \in M : live[j] = j) /\ Key = Node
  BY StateFacts
<1>2. /\ iter' = [on |-> TRUE, c |-> start, n |-> n, p |-> p]
      /\ result' = <<start>> /\ UNCHANGED <<tree, num_entries, live>>
      /\ start # NULL => Get(tree.key[start]) = start
  BY DEF IterInit
<1>3. Position' = Place(iter')
  BY PositionIs
<1>4. CASE start # NULL
  <2>1. start \in Node /\ start \in M
    <3>1. start \in Node /\ tree.key[start] \in Key
      <4>1. tree \in Tree
        BY <1>1, BalancedShape
      <4> QED
        BY <1>4, <4>1, TreeParts
    <3>2. Get(tree.key[start]) = IF tree.key[start] \in M THEN tree.key[start] ELSE NULL
      BY <1>1, <3>1, Searches
    <3> QED
      BY <1>2, <1>4, <3>1, <3>2
  <2>2. Position' = start
    BY <1>2, <1>3, <1>4 DEF Place
  <2>3. start # -2
    BY <2>1, Nodes
  <2>4. Ordered!MapIterate(start)
    BY <1>1, <1>2, <2>1, <2>2, <2>3 DEF Ordered!MapIterate, Ordered!Start, Ordered!Keys, Ordered!EntryOf
  <2> QED
    BY <1>1, <2>1, <2>4
<1>5. CASE start = NULL
  <2>1. n = Bound("left") /\ p = Bound("right")
    BY <1>5
  <2> HIDE DEF n, p
  <2>2. M = {} => n = NULL /\ p = NULL
    BY <1>1, <2>1, Finds, Sides
  <2>3. M # {} => n # NULL /\ p # NULL
    <3>1. M # {} => Last("left", M, n) /\ Last("right", M, p)
      BY <1>1, <2>1, Finds, Sides
    <3> QED
      BY <1>1, <3>1 DEF Last
  <2>4. Position' = IF M = {} THEN -5 ELSE -2
    BY <1>2, <1>3, <1>5, <2>2, <2>3 DEF Place
  <2>5. Ordered!MapIterate(-2)
    BY <1>2, <1>5, <2>4 DEF Ordered!MapIterate, Ordered!Start, Ordered!Over, Ordered!Keys, Ordered!None, NULL
  <2> QED
    BY <2>5 DEF Ordered!Start
<1> QED
  BY <1>4, <1>5

\* What an iteration that goes on knows of the place it leaves.
LEMMA Leaves ==
    ASSUME TInv, iter.on
    PROVE  LET M == DOMAIN live
           IN  /\ iter.c # NULL =>
                    /\ Position = iter.c /\ iter.c \in Node
                    /\ node_cleared_p(tree, iter.c) <=> iter.c \notin M \/ M = {iter.c}
                    /\ Nearest("right", M, iter.c, iter.n) /\ Nearest("left", M, iter.c, iter.p)
               /\ iter.c = NULL =>
                    /\ ~ node_cleared_p(tree, iter.c)
                    /\ iter.n = NULL <=> Position \in {-4, -5}
                    /\ iter.n # NULL <=> Position \in {-2, -3}
                    /\ iter.p = NULL <=> Position \in {-3, -5}
                    /\ iter.p # NULL <=> Position \in {-2, -4}
                    /\ iter.n # NULL => Last("left", M, iter.n)
                    /\ iter.p # NULL => Last("right", M, iter.p)
<1> DEFINE M == DOMAIN live
<1>1. /\ Balanced(tree, M) /\ Walks("right", M, iter.c, iter.n, iter.p) /\ iter.c \in Pointer
      /\ Position = Place(iter) /\ Other("right") = "left"
  BY StateFacts, PositionIs, Sides
<1>2. CASE iter.c # NULL
  <2>1. iter.c \in Node
    BY <1>1, <1>2 DEF Pointer
  <2>2. Position = iter.c
    BY <1>1, <1>2 DEF Place
  <2>3. node_cleared_p(tree, iter.c) <=> iter.c \notin M \/ M = {iter.c}
    BY <1>1, <2>1, Finds
  <2> QED
    BY <1>1, <1>2, <2>1, <2>2, <2>3 DEF Walks
<1>3. CASE iter.c = NULL
  <2>1. Position = IF iter.n = NULL THEN (IF iter.p = NULL THEN -5 ELSE -4) ELSE IF iter.p = NULL THEN -3 ELSE -2
    BY <1>1, <1>3 DEF Place
  <2>2. ~ node_cleared_p(tree, iter.c)
    BY <1>3 DEF node_cleared_p
  <2>3. (iter.n # NULL => Last("left", M, iter.n)) /\ (iter.p # NULL => Last("right", M, iter.p))
    BY <1>1, <1>3 DEF Walks
  <2> QED
    BY <1>3, <2>1, <2>2, <2>3
<1> QED
  BY <1>2, <1>3

\* A step to the next entry.
LEMMA NextMaps ==
    ASSUME TInv, TInv', TreeIterNext
    PROVE  Ordered!MapNext
<1> DEFINE M == DOMAIN live
           cl == node_cleared_p(tree, iter.c)
           n == Beyond("right", iter.n)
           p == IF cl THEN Beyond("left", iter.n) ELSE iter.c
           pos == Position
<1>1. M \in SUBSET Node /\ NULL \notin M /\ (\A j \in M : live[j] = j)
  BY StateFacts
<1>2. /\ iter.on /\ iter' = [on |-> TRUE, c |-> iter.n, n |-> n, p |-> p]
      /\ result' = <<iter.n>> /\ UNCHANGED <<tree, num_entries, live>>
  BY DEF TreeIterNext
<1>3. Position' = Place(iter')
  BY PositionIs
<1>4. iter.n # NULL => Position' = iter.n
  BY <1>2, <1>3 DEF Place
<1>5. iter.n = NULL => Position' = IF cl \/ iter.c = NULL THEN -5 ELSE -4
  <2>1. SUFFICES ASSUME iter.n = NULL PROVE Position' = IF cl \/ iter.c = NULL THEN -5 ELSE -4
    OBVIOUS
  <2>2. n = NULL /\ p = IF cl THEN NULL ELSE iter.c
    BY <2>1 DEF Beyond
  <2> HIDE DEF n, p, cl
  <2> QED
    BY <1>2, <1>3, <2>1, <2>2 DEF Place
<1>6. CASE iter.c # NULL
  <2>1. /\ pos = iter.c /\ iter.c \in Node /\ (cl <=> iter.c \notin M \/ M = {iter.c})
        /\ Nearest("right", M, iter.c, iter.n)
    BY <1>2, <1>6, Leaves
  <2> HIDE DEF cl, n, p, pos
  <2>2. pos > 0 /\ pos \in Int
    BY <2>1, Nodes
  <2> DEFINE above == {j \in M : j > pos}
  <2>3. CASE iter.n = NULL
    <3>1. above = {}
      BY <1>1, <2>1, <2>3, NextKeys
    <3>2. Position' = IF pos \notin M \/ M = {pos} THEN -5 ELSE -4
      BY <1>5, <1>6, <2>1, <2>3
    <3> QED
      BY <1>2, <2>2, <2>3, <3>1, <3>2
        DEF Ordered!MapNext, Ordered!MapAdvance, Ordered!Above, Ordered!Keys, Ordered!None, Ordered!Over, Ordered!Start,
            Ordered!PastMin, Ordered!PastMax, Ordered!NoIteration, NULL, pos
  <2>4. CASE iter.n # NULL
    <3>1. above # {} /\ Ordered!Min(above) = iter.n /\ iter.n \in M
      BY <1>1, <2>1, <2>4, NextKeys
    <3>2. Position' = iter.n /\ live[iter.n] = iter.n
      BY <1>1, <1>4, <2>4, <3>1
    <3> QED
      BY <1>2, <2>2, <3>1, <3>2
        DEF Ordered!MapNext, Ordered!MapAdvance, Ordered!Above, Ordered!Keys, Ordered!None, Ordered!Over, Ordered!Start,
            Ordered!PastMin, Ordered!PastMax, Ordered!NoIteration, pos
  <2> QED
    BY <2>3, <2>4
<1>7. CASE iter.c = NULL
  <2>1. /\ iter.n = NULL <=> pos \in {-4, -5}
        /\ iter.n # NULL <=> pos \in {-2, -3}
        /\ iter.n # NULL => Last("left", M, iter.n)
    BY <1>2, <1>7, Leaves
  <2> HIDE DEF cl, n, p, pos
  <2>2. CASE iter.n = NULL
    <3>1. Position' = -5 /\ pos \in {-4, -5}
      BY <1>5, <1>7, <2>1, <2>2
    <3> QED
      BY <1>2, <2>2, <3>1
        DEF Ordered!MapNext, Ordered!MapAdvance, Ordered!Above, Ordered!Keys, Ordered!None, Ordered!Over, Ordered!Start,
            Ordered!PastMin, Ordered!PastMax, Ordered!NoIteration, NULL, pos
  <2>3. CASE iter.n # NULL
    <3>1. Ordered!Min(M) = iter.n /\ iter.n \in M /\ pos \in {-2, -3}
      BY <1>1, <2>1, <2>3, Extremes
    <3>2. Position' = iter.n /\ live[iter.n] = iter.n /\ M # {}
      BY <1>1, <1>4, <2>3, <3>1
    <3> QED
      BY <1>2, <3>1, <3>2
        DEF Ordered!MapNext, Ordered!MapAdvance, Ordered!Above, Ordered!Keys, Ordered!None, Ordered!Over, Ordered!Start,
            Ordered!PastMin, Ordered!PastMax, Ordered!NoIteration, pos
  <2> QED
    BY <2>2, <2>3
<1> QED
  BY <1>6, <1>7

\* A step to the previous entry.
LEMMA PrevMaps ==
    ASSUME TInv, TInv', TreeIterPrev
    PROVE  Ordered!MapPrev
<1> DEFINE M == DOMAIN live
           cl == node_cleared_p(tree, iter.c)
           p == Beyond("left", iter.p)
           n == IF cl THEN Beyond("right", iter.p) ELSE iter.c
           pos == Position
<1>1. M \in SUBSET Node /\ NULL \notin M /\ (\A j \in M : live[j] = j)
  BY StateFacts
<1>2. /\ iter.on /\ iter' = [on |-> TRUE, c |-> iter.p, n |-> n, p |-> p]
      /\ result' = <<iter.p>> /\ UNCHANGED <<tree, num_entries, live>>
  BY DEF TreeIterPrev
<1>3. Position' = Place(iter')
  BY PositionIs
<1>4. iter.p # NULL => Position' = iter.p
  BY <1>2, <1>3 DEF Place
<1>5. iter.p = NULL => Position' = IF cl \/ iter.c = NULL THEN -5 ELSE -3
  <2>1. SUFFICES ASSUME iter.p = NULL PROVE Position' = IF cl \/ iter.c = NULL THEN -5 ELSE -3
    OBVIOUS
  <2>2. p = NULL /\ n = IF cl THEN NULL ELSE iter.c
    BY <2>1 DEF Beyond
  <2> HIDE DEF n, p, cl
  <2> QED
    BY <1>2, <1>3, <2>1, <2>2 DEF Place
<1>6. CASE iter.c # NULL
  <2>1. /\ pos = iter.c /\ iter.c \in Node /\ (cl <=> iter.c \notin M \/ M = {iter.c})
        /\ Nearest("left", M, iter.c, iter.p)
    BY <1>2, <1>6, Leaves
  <2> HIDE DEF cl, n, p, pos
  <2>2. pos > 0 /\ pos \in Int
    BY <2>1, Nodes
  <2> DEFINE below == {j \in M : j < pos}
  <2>3. CASE iter.p = NULL
    <3>1. below = {}
      BY <1>1, <2>1, <2>3, NextKeys
    <3>2. Position' = IF pos \notin M \/ M = {pos} THEN -5 ELSE -3
      BY <1>5, <1>6, <2>1, <2>3
    <3> QED
      BY <1>2, <2>2, <2>3, <3>1, <3>2
        DEF Ordered!MapPrev, Ordered!MapAdvance, Ordered!Below, Ordered!Keys, Ordered!None, Ordered!Over, Ordered!Start,
            Ordered!PastMin, Ordered!PastMax, Ordered!NoIteration, NULL, pos
  <2>4. CASE iter.p # NULL
    <3>1. below # {} /\ Ordered!Max(below) = iter.p /\ iter.p \in M
      BY <1>1, <2>1, <2>4, NextKeys
    <3>2. Position' = iter.p /\ live[iter.p] = iter.p
      BY <1>1, <1>4, <2>4, <3>1
    <3> QED
      BY <1>2, <2>2, <3>1, <3>2
        DEF Ordered!MapPrev, Ordered!MapAdvance, Ordered!Below, Ordered!Keys, Ordered!None, Ordered!Over, Ordered!Start,
            Ordered!PastMin, Ordered!PastMax, Ordered!NoIteration, pos
  <2> QED
    BY <2>3, <2>4
<1>7. CASE iter.c = NULL
  <2>1. /\ iter.p = NULL <=> pos \in {-3, -5}
        /\ iter.p # NULL <=> pos \in {-2, -4}
        /\ iter.p # NULL => Last("right", M, iter.p)
    BY <1>2, <1>7, Leaves
  <2> HIDE DEF cl, n, p, pos
  <2>2. CASE iter.p = NULL
    <3>1. Position' = -5 /\ pos \in {-3, -5}
      BY <1>5, <1>7, <2>1, <2>2
    <3> QED
      BY <1>2, <2>2, <3>1
        DEF Ordered!MapPrev, Ordered!MapAdvance, Ordered!Below, Ordered!Keys, Ordered!None, Ordered!Over, Ordered!Start,
            Ordered!PastMin, Ordered!PastMax, Ordered!NoIteration, NULL, pos
  <2>3. CASE iter.p # NULL
    <3>1. Ordered!Max(M) = iter.p /\ iter.p \in M /\ pos \in {-2, -4}
      BY <1>1, <2>1, <2>3, Extremes
    <3>2. Position' = iter.p /\ live[iter.p] = iter.p /\ M # {}
      BY <1>1, <1>4, <2>3, <3>1
    <3> QED
      BY <1>2, <3>1, <3>2
        DEF Ordered!MapPrev, Ordered!MapAdvance, Ordered!Below, Ordered!Keys, Ordered!None, Ordered!Over, Ordered!Start,
            Ordered!PastMin, Ordered!PastMax, Ordered!NoIteration, pos
  <2> QED
    BY <2>2, <2>3
<1> QED
  BY <1>6, <1>7

\* Every step is one of the ordered map, or none.
LEMMA NextMapsAll ==
    ASSUME TInv, TInv', [Next]_vars
    PROVE  [Ordered!MapStep]_(Ordered!mapVars)
<1>1. CASE UNCHANGED vars
  <2>1. live' = live /\ result' = result /\ Position' = Position
    BY <1>1 DEF vars, Position
  <2> QED
    BY <2>1 DEF Ordered!mapVars
<1>2. ASSUME NEW k \in Key, Create(k) PROVE Ordered!MapStep
  <2>1. Ordered!MapCreate(k)
    BY <1>2, CreateMaps
  <2> QED
    BY <2>1 DEF Ordered!MapStep
<1>3. ASSUME NEW k \in Key, Delete(k) PROVE Ordered!MapStep
  <2>1. Ordered!MapDelete(k)
    BY <1>3, DeleteMaps
  <2> QED
    BY <2>1 DEF Ordered!MapStep
<1>4. ASSUME NEW k \in Key, Near(k) PROVE Ordered!MapStep
  <2>1. Ordered!MapNear(k)
    BY <1>4, NearMaps
  <2> QED
    BY <2>1 DEF Ordered!MapStep
<1>5. ASSUME NEW side \in Side, GetBound(side) PROVE Ordered!MapStep
  <2>1. Ordered!MapGetBound
    BY <1>5, GetBoundMaps
  <2> QED
    BY <2>1 DEF Ordered!MapStep
<1>6. ASSUME NEW side \in Side, PopBound(side) PROVE Ordered!MapStep
  <2>1. Ordered!MapPop({Ordered!Min(Ordered!Keys)}) \/ Ordered!MapPop({Ordered!Max(Ordered!Keys)})
    BY <1>6, PopBoundMaps
  <2> QED
    BY <2>1 DEF Ordered!MapStep
<1>7. ASSUME Clear PROVE Ordered!MapStep
  <2>1. Ordered!MapClear
    BY <1>7, ClearMaps
  <2> QED
    BY <2>1 DEF Ordered!MapStep
<1>8. ASSUME NEW start \in Node \cup {NULL}, IterInit(start) PROVE Ordered!MapStep
  <2>1. Ordered!MapIterate(Ordered!Start) \/ \E k \in Key : Ordered!MapIterate(k)
    BY <1>8, IterInitMaps
  <2> QED
    BY <2>1 DEF Ordered!MapStep
<1>9. ASSUME TreeIterNext PROVE Ordered!MapStep
  <2>1. Ordered!MapNext
    BY <1>9, NextMaps
  <2> QED
    BY <2>1 DEF Ordered!MapStep
<1>10. ASSUME TreeIterPrev PROVE Ordered!MapStep
  <2>1. Ordered!MapPrev
    BY <1>10, PrevMaps
  <2> QED
    BY <2>1 DEF Ordered!MapStep
<1>11. Next \/ UNCHANGED vars
  OBVIOUS
<1>12. Next => Ordered!MapStep
  BY <1>2, <1>3, <1>4, <1>5, <1>6, <1>7, <1>8, <1>9, <1>10 DEF Next
<1> QED
  BY <1>1, <1>11, <1>12

\* core_ref, core_bound and the iterator implement an ordered map: they return what the map
\* would, an entry stays the same object, and an iteration goes on from an entry it deleted.
THEOREM TreeIsOrderedMap ==
    Spec => ImplementsOrderedMap
<1>1. TInv /\ TInv' /\ [Next]_vars => [Ordered!MapStep]_(Ordered!mapVars)
  BY NextMapsAll
<1>2. Spec => Ordered!MapSpec
  BY <1>1, InitMaps, AlwaysTInv, PTL DEF Spec, Ordered!MapSpec
<1> QED
  BY <1>2 DEF ImplementsOrderedMap
=============================================================================
