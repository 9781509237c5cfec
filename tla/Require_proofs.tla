--------------------------- MODULE Require_proofs ---------------------------
(* Proofs about Require, for any threads, features and dependencies between    *)
(* the feature files, and any number of require calls.                         *)
EXTENDS Require, TLAPS

\* ldinfo.providing has one entry per feature.
UniqueKeys ==
    \A i, j \in 1..Len(providing) :
        providing[i].feature = providing[j].feature => i = j

\* Every entry of ldinfo.providing stands for a file in the load stack of its
\* thread ...
EntriesLoading ==
    \A i \in 1..Len(providing) :
        \E k \in 1..Len(stack[providing[i].thread]) :
            stack[providing[i].thread][k] = providing[i].feature

\* ... and every file in the load stack of a thread has its entry.
LoadsEntered ==
    \A t \in Threads : \A k \in 1..Len(stack[t]) :
        \E i \in 1..Len(providing) :
            providing[i].feature = stack[t][k] /\ providing[i].thread = t

\* No thread is in the middle of loading a file twice.
StacksUnique ==
    \A t \in Threads : \A j, k \in 1..Len(stack[t]) : stack[t][j] = stack[t][k] => j = k

\* Who sleeps waits for a feature, and ldinfo.providing has an entry for it that
\* another thread has made.
SleepersHaveEntry ==
    \A t \in asleep :
        \E i \in 1..Len(providing) :
            providing[i].feature = waiting[t] /\ providing[i].thread # t

\* The lists mirror each other.
Mirror == UniqueKeys /\ EntriesLoading /\ LoadsEntered /\ StacksUnique

\* The entries of one thread are in ldinfo.providing in the order of its load
\* stack, innermost file first.
EntriesOrdered ==
    \A t \in Threads : \A j, k \in 1..Len(stack[t]) : \A i, m \in 1..Len(providing) :
        j < k /\ providing[i].feature = stack[t][j] /\ providing[m].feature = stack[t][k]
            => i < m

Inv == TypeOK /\ Mirror /\ EntriesOrdered /\ SleepersHaveEntry

-----------------------------------------------------------------------------
(* The association list.                                                       *)

\* What an entry consists of.
LEMMA EntryType ==
    ASSUME TypeOK, NEW i \in 1..Len(providing)
    PROVE  providing[i].feature \in Features /\ providing[i].thread \in Threads
<1>1. providing[i] \in Entry
  BY DEF TypeOK
<1> QED
  BY <1>1 DEF Entry

\* Scm_Assoc finds the one entry for a key.
LEMMA KeyIndexUnique ==
    ASSUME TypeOK, UniqueKeys, NEW f, NEW k \in 1..Len(providing),
           providing[k].feature = f
    PROVE  KeyIndex(f, providing) = k /\ HasKey(f, providing)
<1>1. \A j \in 1..(k - 1) : providing[j].feature # f
  BY DEF UniqueKeys, TypeOK
<1>2. \A i \in 1..Len(providing) : providing[i].feature = f => i = k
  BY DEF UniqueKeys
<1> QED
  BY <1>1, <1>2 DEF KeyIndex, HasKey

\* Scm_AssocDeleteX takes out that entry and keeps the others, in their order.
LEMMA AssocDeleteEntry ==
    ASSUME TypeOK, UniqueKeys, NEW f, NEW k \in 1..Len(providing),
           providing[k].feature = f
    PROVE  LET new == AssocDelete(f, providing)
               old(i) == IF i < k THEN i ELSE i + 1
           IN  /\ new \in Seq(Entry)
               /\ Len(new) = Len(providing) - 1
               /\ \A i \in 1..Len(new) : new[i] = providing[old(i)]
<1> DEFINE n == Len(providing) - 1
<1>1. n \in Nat /\ providing \in Seq(Entry)
  BY DEF TypeOK
<1>2. AssocDelete(f, providing) =
          [i \in 1..n |-> IF i < k THEN providing[i] ELSE providing[i + 1]]
  BY KeyIndexUnique DEF AssocDelete
<1>3. \A i \in 1..n : (IF i < k THEN providing[i] ELSE providing[i + 1]) \in Entry
  BY <1>1
<1>4. [i \in 1..n |-> IF i < k THEN providing[i] ELSE providing[i + 1]] \in Seq(Entry)
  BY <1>1, <1>3
<1>5. Len([i \in 1..n |-> IF i < k THEN providing[i] ELSE providing[i + 1]]) = n
  BY <1>1
<1> QED
  BY <1>1, <1>2, <1>4, <1>5

-----------------------------------------------------------------------------
(* do_require.                                                                 *)

\* A thread that starts to load a file makes an entry and a stack frame for it.
LEMMA StartLoadingMirror ==
    ASSUME TypeOK, Mirror, NEW t \in Threads, NEW f \in Features, StartLoading(t, f)
    PROVE  /\ Mirror'
           /\ providing' \in Seq(Entry)
           /\ stack' \in [Threads -> Seq(Features)]
           /\ \A i \in 1..Len(providing) :
                  i + 1 \in 1..Len(providing') /\ providing'[i + 1] = providing[i]
<1> USE DEF Mirror
<1> DEFINE e == [feature |-> f, thread |-> t, explicit |-> FALSE]
<1>0. /\ providing \in Seq(Entry) /\ stack \in [Threads -> Seq(Features)]
      /\ Len(providing) \in Nat
  BY DEF TypeOK
<1>1. e \in Entry /\ e.feature = f /\ e.thread = t
  BY Zenon DEF Entry
<1> HIDE DEF e
<1>2. /\ providing' = <<e>> \o providing
      /\ stack' = [stack EXCEPT ![t] = <<f>> \o stack[t]]
      /\ \A i \in 1..Len(providing) : providing[i].feature # f
  BY DEF StartLoading, Acons, HasKey, e
<1>3. /\ providing' \in Seq(Entry) /\ Len(providing') = Len(providing) + 1
      /\ providing'[1] = e
      /\ \A i \in 1..Len(providing) : providing'[i + 1] = providing[i]
  BY <1>0, <1>1, <1>2
<1>4. /\ stack' \in [Threads -> Seq(Features)]
      /\ \A u \in Threads : u # t => stack'[u] = stack[u]
      /\ stack[t] \in Seq(Features) /\ stack'[t] = <<f>> \o stack[t]
  BY <1>0, <1>2
<1>5. /\ Len(stack'[t]) = Len(stack[t]) + 1 /\ stack'[t][1] = f
      /\ \A k \in 1..Len(stack[t]) : stack'[t][k + 1] = stack[t][k]
  BY <1>4
<1>6. \A u \in Threads : Len(stack[u]) \in Nat
  BY <1>0
<1>7. \A u \in Threads : \A k \in 1..Len(stack[u]) : stack[u][k] # f
  <2> SUFFICES ASSUME NEW u \in Threads, NEW k \in 1..Len(stack[u]), stack[u][k] = f
               PROVE  FALSE
    OBVIOUS
  <2>1. \E i \in 1..Len(providing) : providing[i].feature = stack[u][k]
    BY DEF LoadsEntered
  <2> QED
    BY <1>2, <2>1
<1>8. UniqueKeys'
  <2> SUFFICES ASSUME NEW i \in 1..Len(providing'), NEW j \in 1..Len(providing'),
                      providing'[i].feature = providing'[j].feature
               PROVE  i = j
    BY DEF UniqueKeys
  <2>1. \A m \in 1..Len(providing') : m # 1 =>
            m - 1 \in 1..Len(providing) /\ providing'[m] = providing[m - 1]
    BY <1>0, <1>3
  <2>2. CASE i = 1 /\ j = 1
    BY <2>2
  <2>3. CASE i = 1 /\ j # 1
    BY <1>1, <1>2, <1>3, <2>1, <2>3
  <2>4. CASE i # 1 /\ j = 1
    BY <1>1, <1>2, <1>3, <2>1, <2>4
  <2>5. CASE i # 1 /\ j # 1
    <3>0. /\ i - 1 \in 1..Len(providing) /\ j - 1 \in 1..Len(providing)
          /\ providing[i - 1].feature = providing[j - 1].feature
      BY <2>1, <2>5
    <3>1. i - 1 = j - 1
      BY <3>0, Zenon DEF UniqueKeys
    <3> QED
      BY <1>0, <1>3, <3>1
  <2> QED
    BY <2>2, <2>3, <2>4, <2>5
<1>9. EntriesLoading'
  <2> SUFFICES ASSUME NEW i \in 1..Len(providing')
               PROVE  \E k \in 1..Len(stack'[providing'[i].thread]) :
                          stack'[providing'[i].thread][k] = providing'[i].feature
    BY DEF EntriesLoading
  <2>1. CASE i = 1
    <3>1. 1 \in 1..Len(stack'[t])
      BY <1>5, <1>6
    <3> QED
      BY <1>1, <1>3, <1>5, <2>1, <3>1
  <2>2. CASE i # 1
    <3>1. i - 1 \in 1..Len(providing) /\ providing'[i] = providing[i - 1]
      BY <1>0, <1>3, <2>2
    <3> DEFINE u == providing[i - 1].thread
    <3>2. u \in Threads
      BY <3>1, EntryType
    <3>3. PICK k \in 1..Len(stack[u]) : stack[u][k] = providing[i - 1].feature
      BY <3>1 DEF EntriesLoading
    <3>4. CASE u = t
      <4>1. k + 1 \in 1..Len(stack'[t]) /\ stack'[t][k + 1] = stack[t][k]
        BY <1>5, <1>6, <3>3, <3>4
      <4> QED
        BY <3>1, <3>3, <3>4, <4>1
    <3>5. CASE u # t
      BY <1>4, <3>1, <3>2, <3>3, <3>5
    <3> QED
      BY <3>4, <3>5
  <2> QED
    BY <2>1, <2>2
<1>10. LoadsEntered'
  <2> SUFFICES ASSUME NEW u \in Threads, NEW k \in 1..Len(stack'[u])
               PROVE  \E i \in 1..Len(providing') :
                          providing'[i].feature = stack'[u][k] /\ providing'[i].thread = u
    BY DEF LoadsEntered
  <2>1. CASE u = t /\ k = 1
    <3>1. 1 \in 1..Len(providing')
      BY <1>0, <1>3
    <3> QED
      BY <1>1, <1>3, <1>5, <2>1, <3>1
  <2>2. CASE ~(u = t /\ k = 1)
    <3>1. PICK m \in 1..Len(stack[u]) : stack'[u][k] = stack[u][m]
      <4>1. CASE u = t
        <5>1. k - 1 \in 1..Len(stack[t]) /\ stack'[t][k] = stack[t][k - 1]
          BY <1>5, <1>6, <2>2, <4>1
        <5> QED
          BY <4>1, <5>1
      <4>2. CASE u # t
        BY <1>4, <4>2
      <4> QED
        BY <4>1, <4>2
    <3>2. PICK i \in 1..Len(providing) :
              providing[i].feature = stack[u][m] /\ providing[i].thread = u
      BY DEF LoadsEntered
    <3>3. i + 1 \in 1..Len(providing') /\ providing'[i + 1] = providing[i]
      BY <1>0, <1>3
    <3> QED
      BY <3>1, <3>2, <3>3
  <2> QED
    BY <2>1, <2>2
<1>11. StacksUnique'
  <2> SUFFICES ASSUME NEW u \in Threads,
                      NEW j \in 1..Len(stack'[u]), NEW k \in 1..Len(stack'[u]),
                      stack'[u][j] = stack'[u][k]
               PROVE  j = k
    BY DEF StacksUnique
  <2>1. CASE u # t
    BY <1>4, <2>1 DEF StacksUnique
  <2>2. CASE u = t
    <3>1. \A m \in 1..Len(stack'[t]) : m # 1 =>
              m - 1 \in 1..Len(stack[t]) /\ stack'[t][m] = stack[t][m - 1]
      BY <1>5, <1>6
    <3>2. CASE j = 1 \/ k = 1
      BY <1>5, <1>7, <2>2, <3>1, <3>2, SMTT(30)
    <3>3. CASE j # 1 /\ k # 1
      <4>1. j - 1 = k - 1
        BY <2>2, <3>1, <3>3 DEF StacksUnique
      <4> QED
        BY <1>5, <1>6, <2>2, <4>1
    <3> QED
      BY <3>2, <3>3
  <2> QED
    BY <2>1, <2>2
<1> QED
  BY <1>0, <1>3, <1>4, <1>8, <1>9, <1>10, <1>11

\* When a load ends, its entry and its stack frame go together.
LEMMA EndLoadingMirror ==
    ASSUME TypeOK, Mirror, NEW t \in Threads, stack[t] # <<>>,
           providing' = AssocDelete(Head(stack[t]), providing),
           stack' = [stack EXCEPT ![t] = Tail(stack[t])]
    PROVE  /\ Mirror'
           /\ providing' \in Seq(Entry)
           /\ stack' \in [Threads -> Seq(Features)]
<1> USE DEF Mirror
<1> DEFINE f == Head(stack[t])
           old(i, k) == IF i < k THEN i ELSE i + 1
<1>0. /\ providing \in Seq(Entry) /\ stack \in [Threads -> Seq(Features)]
      /\ Len(providing) \in Nat /\ \A u \in Threads : Len(stack[u]) \in Nat
  BY DEF TypeOK
<1>1. stack[t] \in Seq(Features) /\ 1 \in 1..Len(stack[t]) /\ stack[t][1] = f
  BY <1>0
<1>2. PICK k \in 1..Len(providing) :
          providing[k].feature = f /\ providing[k].thread = t
  BY <1>1 DEF LoadsEntered
<1>3. /\ providing' \in Seq(Entry) /\ Len(providing') = Len(providing) - 1
      /\ \A i \in 1..Len(providing') : providing'[i] = providing[old(i, k)]
  BY <1>2, AssocDeleteEntry
<1>4. \A i \in 1..Len(providing') :
          old(i, k) \in 1..Len(providing) /\ old(i, k) # k
  BY <1>0, <1>3
<1>5. \A j \in 1..Len(providing) : j # k =>
          \E i \in 1..Len(providing') : providing'[i] = providing[j]
  <2> SUFFICES ASSUME NEW j \in 1..Len(providing), j # k
               PROVE  \E i \in 1..Len(providing') : providing'[i] = providing[j]
    OBVIOUS
  <2>1. CASE j < k
    <3>1. j \in 1..Len(providing') /\ old(j, k) = j
      BY <1>0, <1>3, <2>1
    <3> QED
      BY <1>3, <3>1
  <2>2. CASE j > k
    <3>1. j - 1 \in 1..Len(providing') /\ old(j - 1, k) = j
      BY <1>0, <1>3, <2>2
    <3> QED
      BY <1>3, <3>1
  <2> QED
    BY <2>1, <2>2
<1>6. /\ stack' \in [Threads -> Seq(Features)]
      /\ \A u \in Threads : u # t => stack'[u] = stack[u]
      /\ stack'[t] = Tail(stack[t])
  BY <1>0, <1>1
<1>7. /\ Len(stack'[t]) = Len(stack[t]) - 1
      /\ \A m \in 1..Len(stack'[t]) :
             m + 1 \in 1..Len(stack[t]) /\ stack'[t][m] = stack[t][m + 1]
  BY <1>1, <1>6
<1>8. UniqueKeys'
  <2> SUFFICES ASSUME NEW i \in 1..Len(providing'), NEW j \in 1..Len(providing'),
                      providing'[i].feature = providing'[j].feature
               PROVE  i = j
    BY DEF UniqueKeys
  <2>1. old(i, k) = old(j, k)
    BY <1>3, <1>4, ZenonT(60) DEF UniqueKeys
  <2> QED
    BY <1>0, <1>3, <2>1
<1>9. EntriesLoading'
  <2> SUFFICES ASSUME NEW i \in 1..Len(providing')
               PROVE  \E m \in 1..Len(stack'[providing'[i].thread]) :
                          stack'[providing'[i].thread][m] = providing'[i].feature
    BY DEF EntriesLoading
  <2> DEFINE j == old(i, k)
             u == providing[j].thread
  <2>1. j \in 1..Len(providing) /\ j # k /\ providing'[i] = providing[j]
    BY <1>3, <1>4
  <2> HIDE DEF j
  <2>2. u \in Threads
    BY <2>1, EntryType
  <2>3. PICK m \in 1..Len(stack[u]) : stack[u][m] = providing[j].feature
    BY <2>1 DEF EntriesLoading
  <2>4. CASE u # t
    BY <1>6, <2>1, <2>2, <2>3, <2>4
  <2>5. CASE u = t
    <3>1. providing[j].feature # f
      BY <1>2, <2>1 DEF UniqueKeys
    <3>2. m # 1
      BY <1>1, <2>3, <2>5, <3>1
    <3>3. m - 1 \in 1..Len(stack'[t])
      BY <1>0, <1>7, <2>3, <2>5, <3>2
    <3>4. stack'[t][m - 1] = stack[t][m]
      BY <1>7, <3>3
    <3> QED
      BY <2>1, <2>3, <2>5, <3>3, <3>4
  <2> QED
    BY <2>4, <2>5
<1>10. LoadsEntered'
  <2> SUFFICES ASSUME NEW u \in Threads, NEW m \in 1..Len(stack'[u])
               PROVE  \E i \in 1..Len(providing') :
                          providing'[i].feature = stack'[u][m] /\ providing'[i].thread = u
    BY DEF LoadsEntered
  <2>1. PICK n \in 1..Len(stack[u]) : stack'[u][m] = stack[u][n] /\ (u = t => n # 1)
    <3>1. CASE u # t
      BY <1>6, <3>1
    <3>2. CASE u = t
      BY <1>7, <3>2
    <3> QED
      BY <3>1, <3>2
  <2>2. PICK j \in 1..Len(providing) :
            providing[j].feature = stack[u][n] /\ providing[j].thread = u
    BY DEF LoadsEntered
  <2>3. j # k
    BY <1>1, <1>2, <2>1, <2>2 DEF StacksUnique
  <2>4. PICK i \in 1..Len(providing') : providing'[i] = providing[j]
    BY <1>5, <2>3
  <2> QED
    BY <2>1, <2>2, <2>4
<1>11. StacksUnique'
  <2> SUFFICES ASSUME NEW u \in Threads,
                      NEW m \in 1..Len(stack'[u]), NEW n \in 1..Len(stack'[u]),
                      stack'[u][m] = stack'[u][n]
               PROVE  m = n
    BY DEF StacksUnique
  <2>1. CASE u # t
    BY <1>6, <2>1 DEF StacksUnique
  <2>2. CASE u = t
    <3>1. m + 1 = n + 1
      BY <1>7, <2>2 DEF StacksUnique
    <3> QED
      BY <1>0, <1>7, <2>2, <3>1
  <2> QED
    BY <2>1, <2>2
<1> QED
  BY <1>3, <1>6, <1>8, <1>9, <1>10, <1>11

-----------------------------------------------------------------------------
(* The order of the entries.                                                   *)

\* EntriesOrdered for one pair of files and their entries.
LEMMA OrderedPair ==
    ASSUME EntriesOrdered, NEW t \in Threads,
           NEW j \in 1..Len(stack[t]), NEW k \in 1..Len(stack[t]),
           NEW i \in 1..Len(providing), NEW m \in 1..Len(providing),
           j < k, providing[i].feature = stack[t][j], providing[m].feature = stack[t][k]
    PROVE  i < m
  BY Zenon DEF EntriesOrdered

\* A new entry is the first one, as the new file is the innermost.
LEMMA StartLoadingOrder ==
    ASSUME TypeOK, Mirror, EntriesOrdered,
           NEW t \in Threads, NEW f \in Features, StartLoading(t, f)
    PROVE  EntriesOrdered'
<1> DEFINE e == [feature |-> f, thread |-> t, explicit |-> FALSE]
<1>0. /\ providing \in Seq(Entry) /\ stack \in [Threads -> Seq(Features)]
      /\ Len(providing) \in Nat /\ \A u \in Threads : Len(stack[u]) \in Nat
  BY DEF TypeOK
<1>1. e \in Entry /\ e.feature = f
  BY Zenon DEF Entry
<1> HIDE DEF e
<1>2. /\ providing' = <<e>> \o providing
      /\ stack' = [stack EXCEPT ![t] = <<f>> \o stack[t]]
      /\ \A i \in 1..Len(providing) : providing[i].feature # f
  BY DEF StartLoading, Acons, HasKey, e
<1>3. /\ Len(providing') = Len(providing) + 1
      /\ providing'[1] = e
      /\ \A i \in 1..Len(providing') : i # 1 =>
             i - 1 \in 1..Len(providing) /\ providing'[i] = providing[i - 1]
  BY <1>0, <1>1, <1>2
<1>4. /\ \A u \in Threads : u # t => stack'[u] = stack[u]
      /\ stack[t] \in Seq(Features) /\ stack'[t] = <<f>> \o stack[t]
  BY <1>0, <1>2
<1>5. /\ Len(stack'[t]) = Len(stack[t]) + 1 /\ stack'[t][1] = f
      /\ \A k \in 1..Len(stack'[t]) : k # 1 =>
             k - 1 \in 1..Len(stack[t]) /\ stack'[t][k] = stack[t][k - 1]
  BY <1>0, <1>4
<1>6. ASSUME NEW u \in Threads, NEW k \in 1..Len(stack[u]) PROVE stack[u][k] # f
  <2>1. \E i \in 1..Len(providing) : providing[i].feature = stack[u][k]
    BY DEF Mirror, LoadsEntered
  <2> QED
    BY <1>2, <2>1
<1>7. SUFFICES ASSUME NEW u \in Threads,
                      NEW j \in 1..Len(stack'[u]), NEW k \in 1..Len(stack'[u]),
                      NEW i \in 1..Len(providing'), NEW m \in 1..Len(providing'),
                      j < k, providing'[i].feature = stack'[u][j],
                      providing'[m].feature = stack'[u][k]
               PROVE  i < m
  BY DEF EntriesOrdered
<1>8. PICK k0 \in 1..Len(stack[u]) : stack'[u][k] = stack[u][k0] /\ (u = t => k0 = k - 1)
                                     /\ (u # t => k0 = k)
  <2>1. CASE u = t
    <3>1. k # 1
      BY <1>0, <1>5, <1>7, <2>1
    <3> QED
      BY <1>5, <2>1, <3>1
  <2>2. CASE u # t
    BY <1>4, <2>2
  <2> QED
    BY <2>1, <2>2
<1>9. m # 1
  BY <1>1, <1>3, <1>6, <1>7, <1>8
<1>10. m - 1 \in 1..Len(providing) /\ providing'[m] = providing[m - 1]
  BY <1>3, <1>9
<1>11. CASE i = 1
  BY <1>0, <1>3, <1>9, <1>11
<1>12. CASE i # 1
  <2>1. i - 1 \in 1..Len(providing) /\ providing'[i] = providing[i - 1]
    BY <1>3, <1>12
  <2>2. PICK j0 \in 1..Len(stack[u]) : stack'[u][j] = stack[u][j0] /\ j0 < k0
    <3>1. CASE u = t
      <4>1. j # 1
        BY <1>2, <1>5, <1>7, <2>1, <3>1
      <4>2. j - 1 \in 1..Len(stack[t]) /\ stack'[t][j] = stack[t][j - 1]
        BY <1>5, <3>1, <4>1
      <4>3. j - 1 < k0
        BY <1>0, <1>5, <1>7, <1>8, <3>1
      <4> QED
        BY <3>1, <4>2, <4>3
    <3>2. CASE u # t
      BY <1>4, <1>7, <1>8, <3>2
    <3> QED
      BY <3>1, <3>2
  <2>3. /\ providing[i - 1].feature = stack[u][j0]
        /\ providing[m - 1].feature = stack[u][k0]
    BY <1>7, <1>8, <1>10, <2>1, <2>2
  <2>4. i - 1 < m - 1
    <3> DEFINE a == i - 1  b == m - 1
    <3>1. /\ a \in 1..Len(providing) /\ b \in 1..Len(providing)
          /\ providing[a].feature = stack[u][j0]
          /\ providing[b].feature = stack[u][k0]
      BY <1>10, <2>1, <2>3
    <3> HIDE DEF a, b
    <3>2. a < b
      BY <2>2, <3>1, OrderedPair
    <3> QED
      BY <3>2 DEF a, b
  <2> QED
    BY <1>0, <1>3, <2>4
<1> QED
  BY <1>11, <1>12

\* Taking out the entry of the innermost file keeps the order of the others.
LEMMA EndLoadingOrder ==
    ASSUME TypeOK, Mirror, EntriesOrdered, NEW t \in Threads, stack[t] # <<>>,
           providing' = AssocDelete(Head(stack[t]), providing),
           stack' = [stack EXCEPT ![t] = Tail(stack[t])]
    PROVE  EntriesOrdered'
<1> DEFINE f == Head(stack[t])
           old(i, k) == IF i < k THEN i ELSE i + 1
<1>0. /\ providing \in Seq(Entry) /\ stack \in [Threads -> Seq(Features)]
      /\ Len(providing) \in Nat /\ \A u \in Threads : Len(stack[u]) \in Nat
  BY DEF TypeOK
<1>1. stack[t] \in Seq(Features) /\ 1 \in 1..Len(stack[t]) /\ stack[t][1] = f
  BY <1>0
<1>2. PICK x \in 1..Len(providing) : providing[x].feature = f
  BY <1>1 DEF Mirror, LoadsEntered
<1>3. /\ Len(providing') = Len(providing) - 1
      /\ \A i \in 1..Len(providing') : providing'[i] = providing[old(i, x)]
  BY <1>2, AssocDeleteEntry DEF Mirror
<1>4. \A i \in 1..Len(providing') : old(i, x) \in 1..Len(providing)
  BY <1>0, <1>3
<1>5. \A i, m \in 1..Len(providing') : old(i, x) < old(m, x) => i < m
  BY <1>0, <1>3
<1>6. /\ stack' \in [Threads -> Seq(Features)]
      /\ \A u \in Threads : u # t => stack'[u] = stack[u]
      /\ stack'[t] = Tail(stack[t])
  BY <1>0, <1>1
<1>7. /\ Len(stack'[t]) = Len(stack[t]) - 1
      /\ \A m \in 1..Len(stack'[t]) :
             m + 1 \in 1..Len(stack[t]) /\ stack'[t][m] = stack[t][m + 1]
  BY <1>1, <1>6
<1> USE DEF EntriesOrdered
<1> TAKE u \in Threads
<1> TAKE j, k \in 1..Len(stack'[u])
<1> TAKE i, m \in 1..Len(providing')
<1> HIDE DEF EntriesOrdered
<1>8. HAVE j < k /\ providing'[i].feature = stack'[u][j]
                /\ providing'[m].feature = stack'[u][k]
<1>9. PICK j0 \in 1..Len(stack[u]), k0 \in 1..Len(stack[u]) :
          stack'[u][j] = stack[u][j0] /\ stack'[u][k] = stack[u][k0] /\ j0 < k0
  <2>1. CASE u = t
    BY <1>0, <1>7, <1>8, <2>1
  <2>2. CASE u # t
    BY <1>6, <1>8, <2>2
  <2> QED
    BY <2>1, <2>2
<1>10. old(i, x) < old(m, x)
  <2>1. /\ old(i, x) \in 1..Len(providing) /\ old(m, x) \in 1..Len(providing)
        /\ providing[old(i, x)].feature = stack[u][j0]
        /\ providing[old(m, x)].feature = stack[u][k0]
    BY <1>3, <1>4, <1>8, <1>9
  <2> HIDE DEF old
  <2> QED
    BY <1>9, <2>1, OrderedPair, ZenonT(60)
<1> QED
  BY <1>5, <1>10

\* "We know that the first matching entry is the current one": the first entry of
\* a thread is that of the innermost file it loads.
LEMMA FirstIsCurrent ==
    ASSUME TypeOK, Mirror, EntriesOrdered, NEW t \in Threads
    PROVE  /\ stack[t] = <<>> => FirstOf(t, providing) = 0
           /\ stack[t] # <<>> =>
                  /\ FirstOf(t, providing) \in 1..Len(providing)
                  /\ providing[FirstOf(t, providing)].feature = Head(stack[t])
<1>0. /\ providing \in Seq(Entry) /\ Len(providing) \in Nat
      /\ stack[t] \in Seq(Features) /\ Len(stack[t]) \in Nat
  BY DEF TypeOK
<1>1. ASSUME NEW i \in 1..Len(providing), providing[i].thread = t
      PROVE  \E k \in 1..Len(stack[t]) : stack[t][k] = providing[i].feature
  BY <1>1 DEF Mirror, EntriesLoading
<1>2. CASE stack[t] = <<>>
  <2>1. ~ \E i \in 1..Len(providing) : providing[i].thread = t
    BY <1>1, <1>2
  <2> QED
    BY <1>2, <2>1 DEF FirstOf
<1>3. CASE stack[t] # <<>>
  <2>1. 1 \in 1..Len(stack[t]) /\ stack[t][1] = Head(stack[t])
    BY <1>0, <1>3
  <2>2. PICK x \in 1..Len(providing) :
            providing[x].feature = stack[t][1] /\ providing[x].thread = t
    BY <2>1 DEF Mirror, LoadsEntered
  <2>3. ASSUME NEW i \in 1..Len(providing), providing[i].thread = t, i # x
        PROVE  x < i
    <3>1. PICK k \in 1..Len(stack[t]) : stack[t][k] = providing[i].feature
      BY <1>1, <2>3
    <3>2. k # 1
      BY <2>2, <2>3, <3>1 DEF Mirror, UniqueKeys
    <3>3. 1 < k
      BY <1>0, <3>2
    <3> QED
      BY <2>1, <2>2, <3>1, <3>3, OrderedPair
  <2>4. \A j \in 1..(x - 1) : providing[j].thread # t
    <3> SUFFICES ASSUME NEW j \in 1..(x - 1), providing[j].thread = t PROVE FALSE
      OBVIOUS
    <3>1. j \in 1..Len(providing) /\ j # x /\ ~(x < j)
      BY <1>0
    <3> QED
      BY <2>3, <3>1
  <2>5. \A i \in 1..Len(providing) :
            providing[i].thread = t /\ (\A j \in 1..(i - 1) : providing[j].thread # t)
                => i = x
    <3> SUFFICES ASSUME NEW i \in 1..Len(providing), providing[i].thread = t, i # x,
                        \A j \in 1..(i - 1) : providing[j].thread # t
                 PROVE  FALSE
      OBVIOUS
    <3>1. x < i
      BY <2>3
    <3>2. x \in 1..(i - 1)
      BY <1>0, <3>1
    <3> QED
      BY <2>2, <3>2
  <2>6. FirstOf(t, providing) = x
    BY <2>2, <2>4, <2>5 DEF FirstOf
  <2> QED
    BY <1>3, <2>1, <2>2, <2>6
<1> QED
  BY <1>2, <1>3

-----------------------------------------------------------------------------
(* The invariant.                                                              *)

\* One turn of do_require's loop, by a thread that does not sleep.
LEMMA CheckListsStep ==
    ASSUME Inv, RequireAssumption, NEW t \in Threads, t \notin asleep,
           NEW f \in Features, CheckLists(t, f), calls' \in [Threads -> Nat]
    PROVE  Inv'
<1>0. /\ provided' \subseteq Features /\ providing \in Seq(Entry)
      /\ waiting \in [Threads -> Features \cup {NoFeature}]
      /\ asleep \subseteq Threads /\ stack \in [Threads -> Seq(Features)]
  BY DEF Inv, TypeOK, CheckLists
<1>1. CASE (AlreadyProvided(t, f) \/ LoopError(t, f))
  <2>1. UNCHANGED <<providing, asleep, stack>> /\ waiting' = [waiting EXCEPT ![t] = NoFeature]
    BY <1>1 DEF AlreadyProvided, LoopError
  <2>2. TypeOK'
    BY <1>0, <2>1 DEF TypeOK
  <2>3. Mirror' /\ EntriesOrdered'
    BY <2>1 DEF Inv, Mirror, UniqueKeys, EntriesLoading, LoadsEntered, StacksUnique,
                EntriesOrdered
  <2>4. SleepersHaveEntry'
    BY <1>0, <2>1 DEF Inv, SleepersHaveEntry
  <2> QED
    BY <2>2, <2>3, <2>4 DEF Inv
<1>2. CASE StartLoading(t, f)
  <2>1. UNCHANGED asleep /\ waiting' = [waiting EXCEPT ![t] = NoFeature]
    BY <1>2 DEF StartLoading
  <2>2. /\ Mirror' /\ providing' \in Seq(Entry) /\ stack' \in [Threads -> Seq(Features)]
        /\ \A i \in 1..Len(providing) :
               i + 1 \in 1..Len(providing') /\ providing'[i + 1] = providing[i]
    BY <1>2, StartLoadingMirror DEF Inv
  <2>3. EntriesOrdered'
    BY <1>2, StartLoadingOrder DEF Inv
  <2>4. TypeOK'
    BY <1>0, <2>1, <2>2 DEF TypeOK
  <2>5. SleepersHaveEntry'
    <3> SUFFICES ASSUME NEW u \in asleep
                 PROVE  \E i \in 1..Len(providing') :
                            providing'[i].feature = waiting'[u] /\ providing'[i].thread # u
      BY <2>1 DEF SleepersHaveEntry
    <3>1. PICK i \in 1..Len(providing) :
              providing[i].feature = waiting[u] /\ providing[i].thread # u
      BY DEF Inv, SleepersHaveEntry
    <3>2. waiting'[u] = waiting[u]
      BY <1>0, <2>1
    <3> QED
      BY <2>2, <3>1, <3>2
  <2> QED
    BY <2>2, <2>3, <2>4, <2>5 DEF Inv
<1>3. CASE WaitForIt(t, f)
  <2>1. /\ UNCHANGED <<providing, stack>> /\ waiting' = [waiting EXCEPT ![t] = f]
        /\ asleep' = asleep \cup {t}
    BY <1>3 DEF WaitForIt
  <2>2. TypeOK'
    BY <1>0, <2>1 DEF TypeOK
  <2>3. Mirror' /\ EntriesOrdered'
    BY <2>1 DEF Inv, Mirror, UniqueKeys, EntriesLoading, LoadsEntered, StacksUnique,
                EntriesOrdered
  <2>4. \E i \in 1..Len(providing) :
            providing[i].feature = f /\ providing[i].thread # t
    <3>1. PICK i \in 1..Len(providing) : providing[i].feature = f
      BY <1>3 DEF WaitForIt, HasKey
    <3>2. KeyIndex(f, providing) = i
      BY <3>1, KeyIndexUnique DEF Inv, Mirror
    <3> QED
      BY <1>3, <3>1, <3>2 DEF WaitForIt, LoopDetected
  <2>5. SleepersHaveEntry'
    BY <1>0, <2>1, <2>4 DEF Inv, SleepersHaveEntry
  <2> QED
    BY <2>2, <2>3, <2>5 DEF Inv
<1> QED
  BY <1>1, <1>2, <1>3 DEF CheckLists

\* Scm_Provide changes no entry's feature and thread.
LEMMA ProvideStep ==
    ASSUME Inv, NEW t \in Threads, NEW f \in Features \cup {NoFeature}, Provide(t, f)
    PROVE  Inv'
<1> DEFINE k == FirstOf(t, providing)
<1>0. /\ providing \in Seq(Entry) /\ Len(providing) \in Nat
      /\ provided \subseteq Features /\ asleep \subseteq Threads
      /\ UNCHANGED <<waiting, stack, calls>>
  BY DEF Inv, TypeOK, Provide
<1>1. provided' \subseteq Features
  BY <1>0 DEF Provide
<1>2. asleep' \subseteq asleep
  BY DEF Provide
<1>3. k = 0 \/ k \in 1..Len(providing)
  BY FirstIsCurrent DEF Inv
<1>4. /\ providing' \in Seq(Entry) /\ Len(providing') = Len(providing)
      /\ \A i \in 1..Len(providing) :
             /\ providing'[i].feature = providing[i].feature
             /\ providing'[i].thread = providing[i].thread
  <2>1. CASE k = 0
    BY <1>0, <2>1 DEF Provide
  <2>2. CASE k \in 1..Len(providing)
    <3> DEFINE e == [providing[k] EXCEPT !.explicit = TRUE]
    <3>1. providing[k] \in Entry
      BY <1>0, <2>2
    <3>2. e \in Entry /\ e.feature = providing[k].feature /\ e.thread = providing[k].thread
      BY <3>1 DEF Entry
    <3>3. providing' = [providing EXCEPT ![k] = e]
      BY <1>0, <2>2 DEF Provide
    <3> HIDE DEF e, k
    <3> QED
      BY <1>0, <2>2, <3>2, <3>3
  <2> QED
    BY <1>3, <2>1, <2>2
<1>5. TypeOK'
  BY <1>0, <1>1, <1>2, <1>4 DEF Inv, TypeOK
<1>6. Mirror'
  <2>1. UniqueKeys' /\ StacksUnique'
    BY <1>0, <1>4 DEF Inv, Mirror, UniqueKeys, StacksUnique
  <2>2. EntriesLoading'
    BY <1>0, <1>4 DEF Inv, Mirror, EntriesLoading
  <2>3. LoadsEntered'
    BY <1>0, <1>4 DEF Inv, Mirror, LoadsEntered
  <2> QED
    BY <2>1, <2>2, <2>3 DEF Mirror
<1>7. EntriesOrdered'
  BY <1>0, <1>4 DEF Inv, EntriesOrdered
<1>8. SleepersHaveEntry'
  BY <1>0, <1>2, <1>4 DEF Inv, SleepersHaveEntry
<1> QED
  BY <1>5, <1>6, <1>7, <1>8 DEF Inv

\* The end of a load, successful or not.
LEMMA EndLoadingStep ==
    ASSUME Inv, NEW t \in Threads, LoadSucceeds(t) \/ LoadFails(t)
    PROVE  Inv'
<1>0. /\ stack[t] # <<>> /\ asleep' = {} /\ UNCHANGED <<waiting, calls>>
      /\ providing' = AssocDelete(Head(stack[t]), providing)
      /\ stack' = [stack EXCEPT ![t] = Tail(stack[t])]
  BY DEF LoadSucceeds, LoadFails
<1>1. Mirror' /\ providing' \in Seq(Entry) /\ stack' \in [Threads -> Seq(Features)]
  BY <1>0, EndLoadingMirror DEF Inv
<1>2. EntriesOrdered'
  BY <1>0, EndLoadingOrder DEF Inv
<1>3. provided' \subseteq Features
  <2>1. Head(stack[t]) \in Features
    BY <1>0 DEF Inv, TypeOK
  <2>2. provided' \subseteq provided \cup {Head(stack[t])}
    BY DEF LoadSucceeds, LoadFails
  <2> QED
    BY <2>1, <2>2 DEF Inv, TypeOK
<1>4. TypeOK'
  BY <1>0, <1>1, <1>3 DEF Inv, TypeOK
<1>5. SleepersHaveEntry'
  BY <1>0 DEF SleepersHaveEntry
<1> QED
  BY <1>1, <1>2, <1>4, <1>5 DEF Inv

\* Every step keeps the inductive invariant.
LEMMA InvStep ==
    ASSUME RequireAssumption, Inv, Next
    PROVE  Inv'
<1>1. PICK t \in Threads :
        \/ \E f \in Features : Require(t, f)
        \/ \E f \in Features \cup {NoFeature} : Provide(t, f)
        \/ Resume(t) \/ SpuriousWakeup(t) \/ LoadSucceeds(t) \/ LoadFails(t)
  BY Zenon DEF Next
<1>2. ASSUME NEW f \in Features, Require(t, f) PROVE Inv'
  <2>1. t \notin asleep
    <3> SUFFICES ASSUME t \in asleep PROVE FALSE
      OBVIOUS
    <3>1. PICK i \in 1..Len(providing) : providing[i].feature = waiting[t]
      BY DEF Inv, SleepersHaveEntry
    <3>2. waiting[t] \in Features
      BY <3>1, EntryType DEF Inv
    <3> QED
      BY <1>2, <3>2 DEF Require, Running, RequireAssumption
  <2>2. calls' \in [Threads -> Nat]
    BY <1>2 DEF Require, Inv, TypeOK
  <2> QED
    BY <1>2, <2>1, <2>2, CheckListsStep DEF Require
<1>3. CASE Resume(t)
  <2>1. waiting[t] \in Features
    BY <1>3 DEF Resume, Running, Inv, TypeOK
  <2>2. calls' \in [Threads -> Nat]
    BY <1>3 DEF Resume, Inv, TypeOK
  <2> QED
    BY <1>3, <2>1, <2>2, CheckListsStep DEF Resume
<1>4. CASE SpuriousWakeup(t)
  <2>1. asleep' \subseteq asleep /\ UNCHANGED <<provided, providing, waiting, stack, calls>>
    BY <1>4 DEF SpuriousWakeup
  <2> QED
    BY <2>1 DEF Inv, TypeOK, Mirror, UniqueKeys, EntriesLoading, LoadsEntered,
                StacksUnique, EntriesOrdered, SleepersHaveEntry
<1> QED
  BY <1>1, <1>2, <1>3, <1>4, ProvideStep, EndLoadingStep

\* The inductive invariant: ldinfo.providing and the load stacks mirror each
\* other, in the order of the stacks, and every sleeper has its entry.
THEOREM Invariance == Spec => []Inv
<1>1. Init => Inv
  BY DEF Init, Inv, TypeOK, Mirror, UniqueKeys, EntriesLoading, LoadsEntered,
         StacksUnique, EntriesOrdered, SleepersHaveEntry
<1>2. Inv /\ [Next]_vars => Inv'
  <2>1. Inv /\ Next => Inv'
    BY RequireAssumption, InvStep
  <2>2. Inv /\ UNCHANGED vars => Inv'
    BY DEF vars, Inv, TypeOK, Mirror, UniqueKeys, EntriesLoading, LoadsEntered,
           StacksUnique, EntriesOrdered, SleepersHaveEntry
  <2> QED
    BY <2>1, <2>2
<1> QED
  BY <1>1, <1>2, PTL DEF Spec

\* The bookkeeping of load.c is well-typed.
THEOREM TypeCorrect == Spec => []TypeOK
<1>1. Inv => TypeOK
  BY DEF Inv
<1> QED
  BY <1>1, Invariance, PTL

\* No feature file is loaded by two threads at once, or twice in one thread.
THEOREM LoadsExclusive == Spec => []OneLoader
<1>1. ASSUME Inv PROVE OneLoader
  <2>1. ASSUME NEW t \in Threads, NEW u \in Threads,
               NEW i \in 1..Len(stack[t]), NEW j \in 1..Len(stack[u]),
               stack[t][i] = stack[u][j]
        PROVE  t = u /\ i = j
    <3>1. PICK a \in 1..Len(providing) :
              providing[a].feature = stack[t][i] /\ providing[a].thread = t
      BY <1>1 DEF Inv, Mirror, LoadsEntered
    <3>2. PICK b \in 1..Len(providing) :
              providing[b].feature = stack[u][j] /\ providing[b].thread = u
      BY <1>1 DEF Inv, Mirror, LoadsEntered
    <3>3. a = b
      BY <1>1, <2>1, <3>1, <3>2 DEF Inv, Mirror, UniqueKeys
    <3>4. t = u
      BY <3>1, <3>2, <3>3
    <3> QED
      BY <1>1, <2>1, <3>4 DEF Inv, Mirror, StacksUnique
  <2>2. UniqueKeys
    BY <1>1 DEF Inv, Mirror
  <2> QED
    BY <2>1, <2>2 DEF OneLoader, UniqueKeys
<1> QED
  BY <1>1, Invariance, PTL

\* The entry in which Scm_Provide turns autoprovide off is that of the file the
\* calling thread is in the middle of.
THEOREM CurrentFirst == Spec => []CurrentEntryFirst
<1>1. ASSUME Inv PROVE CurrentEntryFirst
  <2>1. ASSUME NEW t \in Threads
        PROVE  IF stack[t] = <<>>
               THEN FirstOf(t, providing) = 0
               ELSE /\ FirstOf(t, providing) # 0
                    /\ providing[FirstOf(t, providing)].feature = Head(stack[t])
    BY <1>1, FirstIsCurrent DEF Inv
  <2> QED
    BY <2>1 DEF CurrentEntryFirst
<1> QED
  BY <1>1, Invariance, PTL

\* Every thread that sleeps in do_require waits for what another one is loading.
THEOREM NoSleeperLeftBehind == Spec => []SleepersHaveLoader
<1>1. ASSUME Inv PROVE SleepersHaveLoader
  <2> SUFFICES ASSUME NEW t \in asleep
               PROVE  \E u \in Threads \ {t} :
                          \E i \in 1..Len(stack[u]) : stack[u][i] = waiting[t]
    BY DEF SleepersHaveLoader
  <2>1. PICK i \in 1..Len(providing) :
            providing[i].feature = waiting[t] /\ providing[i].thread # t
    BY <1>1 DEF Inv, SleepersHaveEntry
  <2>2. providing[i].thread \in Threads \ {t}
    BY <1>1, <2>1, EntryType DEF Inv
  <2>3. \E k \in 1..Len(stack[providing[i].thread]) :
            stack[providing[i].thread][k] = waiting[t]
    BY <1>1, <2>1 DEF Inv, Mirror, EntriesLoading
  <2> QED
    BY <2>2, <2>3
<1> QED
  BY <1>1, Invariance, PTL
=============================================================================
