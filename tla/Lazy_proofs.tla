----------------------------- MODULE Lazy_proofs -----------------------------
(* Proofs about Lazy, for any number of threads, of forces and of nested       *)
(* forces, of promises, of items and of errors.                                *)
EXTENDS Lazy, Integers, TLAPS

-----------------------------------------------------------------------------
(* The inductive invariant: types.                                             *)

PromiseLabels ==
    {"enter", "switch", "snapshot", "deliver", "apply", "lock", "code", "state", "share",
     "unlock", "not-thunk"}
PairLabels == {"enter", "owned", "wait", "retry", "apply", "desc", "car"}
Settled == {"FORCED", "EXCEPTION"}

FrameRecord ==
    [kind : {"promise", "pair"}, obj : Nat, at : PromiseLabels \cup PairLabels,
     c : Nat, cc : Nat, state : Settled \cup {"UNFORCED", "PROMISE"}, val : Nat]
ContentRecord ==
    [state : Settled \cup {"UNFORCED"}, code : Nat, mutex : Threads \cup {NoThread}]
PairRecord ==
    [owner : Threads \cup {NoThread, Desc}, lazy : BOOLEAN, car : Nat, slot : Nat,
     target : {0, 1}]

\* The force at depth k of thread t.
F(t, k) == stack[t][k]
Depths(t) == 1..Len(stack[t])

TypeInv ==
    /\ stack \in [Threads -> Seq(FrameRecord)]
    /\ \A t \in Threads : Len(stack[t]) <= MaxDepth
    /\ content \in Seq(ContentRecord)
    /\ promise \in Seq(1..Len(content)) /\ Len(promise) <= MaxPromises
    /\ mixed \subseteq 1..Len(promise)
    /\ runs \in 0..MaxRuns
    /\ pair \in Seq(PairRecord)
    /\ produced \in Nat
    /\ failed \in Seq(Nat \X Nat)

\* Scheme code is running in all forces of a thread but the innermost one.
NestInv ==
    \A t \in Threads : \A k \in Depths(t) : k > 1 => F(t, k).at = "apply"

-----------------------------------------------------------------------------
(* The inductive invariant: promises.                                          *)

\* A force that has the mutex of its content.

\* A force that has the mutex of its content.
Locked(f) == f.kind = "promise" /\ f.at \in {"code", "state", "share", "unlock"}

\* A force that has not read the content of its promise, or will read it once more.
Idle == {"enter", "apply", "not-thunk"}

\* Content c is d, or says the same as d for good.
Agrees(c, d, co) ==
    \/ c = d
    \/ co[c].state \in Settled /\ co[d].state = co[c].state /\ co[d].code = co[c].code

\* What a force f of a promise can rely on, of the promises pr with the contents
\* co, the mixed ones of them mi, and the number of thunks run ru.
PromiseFrame(f, pr, co, mi, ru) ==
    /\ f.obj \in 1..Len(pr) /\ f.at \in PromiseLabels
    /\ f.at \in {"apply", "not-thunk"} => f.val \in 1..ru
    /\ f.at \notin Idle => f.c \in 1..Len(co)
    /\ f.at \notin Idle /\ f.obj \notin mi => Agrees(f.c, pr[f.obj], co)
    /\ f.at = "deliver" =>
          /\ f.state \in Settled /\ co[f.c].state \in Settled
          /\ f.state = "FORCED" => co[f.c].state = "FORCED"
    /\ f.at \in {"lock", "code", "state"} =>
          /\ f.state # "UNFORCED"
          /\ f.state \in Settled => f.val \in 1..ru
    /\ f.at \in {"lock", "code", "state", "share"} /\ f.state = "PROMISE" => f.val \in 1..Len(pr)
    /\ f.at \in {"code", "state"} =>
          /\ co[f.c].state = "UNFORCED"
          /\ f.state = "PROMISE" => f.cc \in 1..Len(co)
    /\ f.at = "state" /\ f.state # "PROMISE" => co[f.c].code = f.val
    /\ f.at = "share" => f.state = "PROMISE"
    /\ f.at = "unlock" /\ f.state = "EXCEPTION" => co[f.c].state \in Settled

PromiseFrames ==
    \A t \in Threads : \A k \in Depths(t) :
        F(t, k).kind = "promise" => PromiseFrame(F(t, k), promise, content, mixed, runs)

\* The mutex of a content belongs to the force that has taken it.
MutexInv ==
    \A t \in Threads : stack[t] # <<>> /\ Locked(Top(t)) => content[Top(t).c].mutex = t

\* A promise that is settled has an object, or is mixed.
ContentInv ==
    /\ \A c \in 1..Len(content) : content[c].code \in 0..runs
    /\ \A p \in (1..Len(promise)) \ mixed :
           content[promise[p]].state \in Settled => content[promise[p]].code # 0

PromiseInv == PromiseFrames /\ MutexInv /\ ContentInv

-----------------------------------------------------------------------------
(* The inductive invariant: lazy pairs.                                        *)

\* The generator has failed on pair i, according to fa.
FailedOn(i, fa) == \E n \in 1..Len(fa) : fa[n][1] = i

\* What a force f of one of the lazy pairs pa can rely on: if it has met an owner
\* it will find the pair ready, or the generator has failed on it.
PairFrame(f, pa, fa) ==
    /\ f.obj \in 1..Len(pa)
    /\ f.at \in PairLabels
    /\ f.at \in {"owned", "wait", "retry"} =>
          pa[f.obj].owner # NoThread \/ FailedOn(f.obj, fa)
    /\ f.at = "retry" => ~pa[f.obj].lazy \/ FailedOn(f.obj, fa)

PairFrames ==
    \A t \in Threads : \A k \in Depths(t) :
        F(t, k).kind = "pair" => PairFrame(F(t, k), pair, failed)

\* Returned pairs are pairs, in the sense of ReturnedIsPair.
ReturnedInv == returned \subseteq 1..Len(pair) /\ ReturnedIsPair

PInv == TypeInv /\ NestInv /\ PromiseInv
QInv == PInv /\ PairFrames /\ ReturnedInv

\* A force that has taken its lazy pair, and has its item.
Owns(f) == f.kind = "pair" /\ f.at \in {"apply", "desc", "car"}
OwnsAt(t, k, i) == k \in Depths(t) /\ Owns(F(t, k)) /\ F(t, k).obj = i

\* What such a force f of thread t can rely on.
OwnerFrame(t, f, pa) ==
    /\ f.obj \in 1..Len(pa) /\ pa[f.obj].lazy
    /\ pa[f.obj].owner = IF f.at = "car" THEN Desc ELSE t
    /\ f.at = "apply" => pa[f.obj].slot = f.val

\* No two forces have the same lazy pair, and a pair that is ready stays so.
OwnInv ==
    /\ \A t \in Threads : \A k \in Depths(t) : Owns(F(t, k)) => OwnerFrame(t, F(t, k), pair)
    /\ \A t, u \in Threads : \A k \in Depths(t), j \in Depths(u) :
           Owns(F(t, k)) /\ Owns(F(u, j)) /\ F(t, k).obj = F(u, j).obj => t = u /\ k = j
    /\ \A i \in 1..Len(pair) : ~pair[i].lazy => pair[i].owner = Desc

\* What Item is, with at most one force that has the pair.
ItemInv ==
    \A i \in 1..Len(pair) :
        /\ ~pair[i].lazy => Item(i) = pair[i].car
        /\ \A t \in Threads : \A k \in Depths(t) :
               OwnsAt(t, k, i) => Item(i) = F(t, k).val
        /\ pair[i].lazy /\ (\A t \in Threads : \A k \in Depths(t) : ~OwnsAt(t, k, i))
           => Item(i) = pair[i].slot

\* The generator has been asked for what follows pair i.
Extended(i) ==
    \/ ~pair[i].lazy
    \/ \E t \in Threads : \E k \in Depths(t) : OwnsAt(t, k, i) /\ F(t, k).at # "apply"

\* The items that have been made and were not lost.
Made == (1..produced) \ {failed[n][2] : n \in 1..Len(failed)}

\* The list of the pairs that are made from the generator: at most the last one
\* has not been extended, and every other one leads to the next.
ListInv ==
    /\ \A n \in 1..Len(failed) : failed[n][2] \in 0..produced
    /\ \A i, j \in GeneratorPairs : ~Extended(i) => j <= i
    /\ \A i \in GeneratorPairs :
          Extended(i) => /\ pair[i].slot \in 0..Len(pair)
                         /\ \A j \in GeneratorPairs :
                                pair[i].slot # 0 /\ j > i => pair[i].slot <= j
    /\ \A i, j \in GeneratorPairs : i < j => Item(i) < Item(j)
    /\ {Item(i) : i \in GeneratorPairs} = Made

Inv == QInv /\ OwnInv /\ ListInv

-----------------------------------------------------------------------------
(* The stack of a thread.                                                      *)

\* The innermost force is a frame.
LEMMA TopType ==
    ASSUME TypeInv, NEW t \in Threads, stack[t] # <<>>
    PROVE  /\ Top(t) \in FrameRecord /\ Top(t) = F(t, 1)
           /\ Len(stack[t]) \in Nat /\ 1 \in Depths(t)
  BY DEF TypeInv, Top, F, Depths

\* The innermost force changes.
LEMMA SetEffect ==
    ASSUME TypeInv, NEW t \in Threads, stack[t] # <<>>, NEW frame \in FrameRecord,
           Set(t, frame)
    PROVE  /\ stack' \in [Threads -> Seq(FrameRecord)]
           /\ \A u \in Threads : Len(stack'[u]) = Len(stack[u])
           /\ \A u \in Threads \ {t} : stack'[u] = stack[u]
           /\ stack'[t] # <<>> /\ stack'[t][1] = frame
           /\ \A k \in Depths(t) : k > 1 => stack'[t][k] = stack[t][k]
<1>1. stack[t] \in Seq(FrameRecord) /\ stack \in [Threads -> Seq(FrameRecord)]
  BY DEF TypeInv
<1> DEFINE s == [stack[t] EXCEPT ![1] = frame]
<1>2. Len(stack[t]) \in Nat /\ Len(stack[t]) > 0
  BY <1>1
<1>3. /\ s \in Seq(FrameRecord) /\ Len(s) = Len(stack[t]) /\ s[1] = frame
      /\ \A k \in 1..Len(stack[t]) : k > 1 => s[k] = stack[t][k]
  BY <1>1, <1>2
<1>4. stack' = [stack EXCEPT ![t] = s]
  BY DEF Set
<1> HIDE DEF s
<1>5. /\ stack'[t] = s /\ \A u \in Threads \ {t} : stack'[u] = stack[u]
      /\ stack' \in [Threads -> Seq(FrameRecord)]
  BY <1>1, <1>3, <1>4
<1>6. s # <<>>
  BY <1>2, <1>3
<1> QED
  BY <1>3, <1>5, <1>6 DEF Depths

\* A force is left.
LEMMA LeaveEffect ==
    ASSUME TypeInv, NEW t \in Threads, stack[t] # <<>>, Leave(t)
    PROVE  /\ stack' \in [Threads -> Seq(FrameRecord)]
           /\ Len(stack'[t]) = Len(stack[t]) - 1
           /\ \A u \in Threads \ {t} : stack'[u] = stack[u]
           /\ \A k \in 1..Len(stack'[t]) : /\ stack'[t][k] = stack[t][k + 1]
                                           /\ k + 1 \in Depths(t)
<1>1. stack[t] \in Seq(FrameRecord) /\ stack \in [Threads -> Seq(FrameRecord)]
  BY DEF TypeInv
<1> DEFINE s == Tail(stack[t])
<1>2. /\ s \in Seq(FrameRecord) /\ Len(s) = Len(stack[t]) - 1
      /\ \A k \in 1..Len(s) : s[k] = stack[t][k + 1]
  BY <1>1
<1>3. stack' = [stack EXCEPT ![t] = s]
  BY DEF Leave
<1>4. Len(stack[t]) \in Nat
  BY <1>1
<1> HIDE DEF s
<1> QED
  BY <1>1, <1>2, <1>3, <1>4 DEF Depths

\* A force begins.
LEMMA PushEffect ==
    ASSUME TypeInv, NEW t \in Threads, NEW frame \in FrameRecord, Push(t, frame)
    PROVE  /\ stack' \in [Threads -> Seq(FrameRecord)]
           /\ Len(stack'[t]) = Len(stack[t]) + 1
           /\ \A u \in Threads \ {t} : stack'[u] = stack[u]
           /\ stack'[t] # <<>> /\ stack'[t][1] = frame
           /\ \A k \in 1..Len(stack'[t]) : k > 1 => /\ stack'[t][k] = stack[t][k - 1]
                                                    /\ k - 1 \in Depths(t)
<1>1. stack[t] \in Seq(FrameRecord) /\ stack \in [Threads -> Seq(FrameRecord)]
  BY DEF TypeInv
<1> DEFINE s == <<frame>> \o stack[t]
<1>2. /\ s \in Seq(FrameRecord) /\ Len(s) = Len(stack[t]) + 1 /\ s[1] = frame
      /\ \A k \in 1..Len(s) : k > 1 => s[k] = stack[t][k - 1]
  BY <1>1
<1>3. stack' = [stack EXCEPT ![t] = s]
  BY DEF Push
<1>4. Len(stack[t]) \in Nat
  BY <1>1
<1> HIDE DEF s
<1>5. s # <<>>
  BY <1>2, <1>4
<1> QED
  BY <1>1, <1>2, <1>3, <1>4, <1>5 DEF Depths

-----------------------------------------------------------------------------
(* Frames.                                                                     *)

\* A frame that begins.
LEMMA FrameBegins ==
    ASSUME NEW kind \in {"promise", "pair"}, NEW i \in Nat
    PROVE  LET g == Frame(kind, i)
           IN  g \in FrameRecord /\ g.kind = kind /\ g.obj = i /\ g.at = "enter"
  BY DEF Frame, FrameRecord, PromiseLabels, PairLabels

-----------------------------------------------------------------------------
(* What a step of a thread does to the stacks.                                 *)

\* The innermost force of t is a member of G now, if it is not one that has run
\* Scheme code before; all others of t run Scheme code and have done so before.
Becomes(t, G) ==
    /\ stack' \in [Threads -> Seq(FrameRecord)]
    /\ \A u \in Threads : Len(stack'[u]) <= MaxDepth
    /\ \A u \in Threads \ {t} : stack'[u] = stack[u]
    /\ \A k \in 1..Len(stack'[t]) :
          \/ k = 1 /\ stack'[t][k] \in G
          \/ \E j \in Depths(t) : stack'[t][k] = F(t, j) /\ F(t, j).at = "apply"

LEMMA SetBecomes ==
    ASSUME TypeInv, NestInv, NEW t \in Threads, stack[t] # <<>>, NEW g \in FrameRecord,
           Set(t, g)
    PROVE  Becomes(t, {g})
<1>1. \A u \in Threads : Len(stack[u]) <= MaxDepth
  BY DEF TypeInv
<1>2. /\ stack' \in [Threads -> Seq(FrameRecord)]
      /\ \A u \in Threads : Len(stack'[u]) = Len(stack[u])
      /\ \A u \in Threads \ {t} : stack'[u] = stack[u]
      /\ stack'[t][1] = g
      /\ \A k \in Depths(t) : k > 1 => stack'[t][k] = stack[t][k]
  BY SetEffect
<1>3. ASSUME NEW k \in 1..Len(stack'[t]), k # 1
      PROVE  \E j \in Depths(t) : stack'[t][k] = F(t, j) /\ F(t, j).at = "apply"
  <2>1. k \in Depths(t) /\ k > 1
    BY <1>2, <1>3 DEF Depths
  <2> QED
    BY <1>2, <2>1 DEF NestInv, F
<1> QED
  BY <1>1, <1>2, <1>3 DEF Becomes

LEMMA LeaveBecomes ==
    ASSUME TypeInv, NestInv, NEW t \in Threads, stack[t] # <<>>, Leave(t)
    PROVE  Becomes(t, {})
<1>1. \A u \in Threads : Len(stack[u]) <= MaxDepth /\ Len(stack[u]) \in Nat
  BY DEF TypeInv
<1>2. /\ stack' \in [Threads -> Seq(FrameRecord)]
      /\ Len(stack'[t]) = Len(stack[t]) - 1
      /\ \A u \in Threads \ {t} : stack'[u] = stack[u]
      /\ \A k \in 1..Len(stack'[t]) : /\ stack'[t][k] = stack[t][k + 1]
                                      /\ k + 1 \in Depths(t)
  BY LeaveEffect
<1>3. MaxDepth \in Nat
  BY LazyAssumption
<1>4. ASSUME NEW u \in Threads PROVE Len(stack'[u]) <= MaxDepth
  <2>1. CASE u = t
    BY <1>1, <1>2, <1>3, <2>1
  <2>2. CASE u # t
    BY <1>1, <1>2, <2>2
  <2> QED
    BY <2>1, <2>2
<1>5. ASSUME NEW k \in 1..Len(stack'[t])
      PROVE  \E j \in Depths(t) : stack'[t][k] = F(t, j) /\ F(t, j).at = "apply"
  <2>1. k + 1 \in Depths(t) /\ k + 1 > 1 /\ stack'[t][k] = F(t, k + 1)
    BY <1>2 DEF F
  <2> QED
    BY <2>1 DEF NestInv
<1> QED
  BY <1>2, <1>4, <1>5 DEF Becomes

LEMMA PushBecomes ==
    ASSUME TypeInv, NestInv, NEW t \in Threads, NEW g \in FrameRecord, InScheme(t), Push(t, g)
    PROVE  Becomes(t, {g})
<1>1. \A u \in Threads : Len(stack[u]) <= MaxDepth /\ Len(stack[u]) \in Nat
  BY DEF TypeInv
<1>2. /\ stack' \in [Threads -> Seq(FrameRecord)]
      /\ Len(stack'[t]) = Len(stack[t]) + 1
      /\ \A u \in Threads \ {t} : stack'[u] = stack[u]
      /\ stack'[t][1] = g
      /\ \A k \in 1..Len(stack'[t]) : k > 1 => /\ stack'[t][k] = stack[t][k - 1]
                                               /\ k - 1 \in Depths(t)
  BY PushEffect
<1>3. MaxDepth \in Nat /\ Len(stack[t]) < MaxDepth
  BY LazyAssumption DEF Push
<1>4. ASSUME NEW u \in Threads PROVE Len(stack'[u]) <= MaxDepth
  <2>1. CASE u = t
    BY <1>1, <1>2, <1>3, <2>1
  <2>2. CASE u # t
    BY <1>1, <1>2, <2>2
  <2> QED
    BY <2>1, <2>2
<1>5. ASSUME NEW k \in 1..Len(stack'[t]), k # 1
      PROVE  \E j \in Depths(t) : stack'[t][k] = F(t, j) /\ F(t, j).at = "apply"
  <2>1. k > 1 /\ k - 1 \in Depths(t) /\ stack'[t][k] = F(t, k - 1)
    BY <1>2, <1>5 DEF F
  <2>2. CASE k - 1 > 1
    BY <2>1, <2>2 DEF NestInv
  <2>3. CASE k - 1 = 1
    <3>1. stack[t] # <<>>
      BY <2>1, <1>1 DEF Depths
    <3>2. F(t, 1).at = "apply"
      BY <3>1 DEF InScheme, Top, F
    <3> QED
      BY <2>1, <2>3, <3>2
  <2> QED
    BY <2>1, <2>2, <2>3 DEF Depths
<1> QED
  BY <1>2, <1>4, <1>5 DEF Becomes

LEMMA StayBecomes ==
    ASSUME TypeInv, NestInv, NEW t \in Threads, InScheme(t), UNCHANGED stack
    PROVE  Becomes(t, {})
<1>1. /\ \A u \in Threads : Len(stack[u]) <= MaxDepth /\ Len(stack[u]) \in Nat
      /\ stack \in [Threads -> Seq(FrameRecord)]
  BY DEF TypeInv
<1>2. ASSUME NEW k \in 1..Len(stack[t])
      PROVE  F(t, k).at = "apply"
  <2>1. stack[t] # <<>>
    BY <1>1, <1>2
  <2>2. CASE k > 1
    BY <2>2 DEF NestInv, Depths
  <2>3. CASE k = 1
    BY <2>1, <2>3 DEF InScheme, Top, F
  <2> QED
    BY <2>2, <2>3
<1> QED
  BY <1>1, <1>2 DEF Becomes, Depths, F

\* All forces of a thread but the innermost one run Scheme code again.
LEMMA BecomesNest ==
    ASSUME NestInv, NEW t \in Threads, NEW G, Becomes(t, G)
    PROVE  NestInv'
  BY SMTT(30) DEF NestInv, Becomes, F, Depths

\* What is true of the force that has changed and of all forces that have not
\* is true of all forces.
LEMMA BecomesTop ==
    ASSUME TypeInv, NEW t \in Threads, NEW G, Becomes(t, G), NEW u \in Threads,
           stack'[u] # <<>>
    PROVE  \/ u # t /\ stack[u] # <<>> /\ Top(u)' = Top(u)
           \/ u = t /\ Top(u)' \in G
           \/ Top(u)'.at = "apply"
<1>1. CASE u # t
  BY <1>1 DEF Becomes, Top
<1>2. CASE u = t
  <2>1. stack'[t] \in Seq(FrameRecord)
    BY DEF Becomes
  <2>2. 1 \in 1..Len(stack'[t])
    BY <2>1, <1>2
  <2> QED
    BY <1>2, <2>2 DEF Becomes, Top
<1> QED
  BY <1>1, <1>2

-----------------------------------------------------------------------------
(* The forces of promises that a step leaves alone.                            *)

\* What is settled stays, and nothing is taken away.
Grows ==
    /\ Len(promise') \in Nat /\ Len(promise') >= Len(promise)
    /\ Len(content') \in Nat /\ Len(content') >= Len(content)
    /\ runs' \in Nat /\ runs' >= runs /\ mixed \subseteq mixed'
    /\ \A c \in 1..Len(content) : content[c].state \in Settled =>
           content'[c].state = content[c].state /\ content'[c].code = content[c].code

\* A content that agrees with another one continues to do so.
LEMMA AgreesStable ==
    ASSUME Grows, NEW c \in 1..Len(content), NEW d \in 1..Len(content), Agrees(c, d, content)
    PROVE  Agrees(c, d, content')
  BY DEF Grows, Agrees

\* The promises and the contents are what they are.
LEMMA PromiseRange ==
    ASSUME TypeInv
    PROVE  /\ promise \in Seq(1..Len(content)) /\ content \in Seq(ContentRecord)
           /\ Len(promise) \in Nat /\ Len(content) \in Nat /\ runs \in Nat /\ MaxRuns \in Nat
           /\ \A p \in 1..Len(promise) : promise[p] \in 1..Len(content)
           /\ \A c \in 1..Len(content) : content[c] \in ContentRecord
  BY LazyAssumption, SMTT(30) DEF TypeInv

\* A force that is not disturbed in its mutex, and whose promise continues to
\* agree with its content.
LEMMA FrameStable ==
    ASSUME TypeInv, Grows, NEW f \in FrameRecord, f.kind = "promise",
           PromiseFrame(f, promise, content, mixed, runs),
           Locked(f) => content'[f.c].state = content[f.c].state /\ content'[f.c].code = content[f.c].code,
           f.at \notin Idle /\ f.obj \notin mixed' => Agrees(f.c, promise'[f.obj], content')
    PROVE  PromiseFrame(f, promise', content', mixed', runs')
<1>1. /\ \A n \in 1..runs : n \in 1..runs'
      /\ \A n \in 1..Len(promise) : n \in 1..Len(promise')
      /\ \A n \in 1..Len(content) : n \in 1..Len(content')
  BY PromiseRange DEF Grows
<1>2. f.at = "deliver" => content'[f.c].state = content[f.c].state /\ content[f.c].state \in Settled
  BY DEF PromiseFrame, Grows, Idle
<1>3. f.at \in {"code", "state", "share", "unlock"} =>
          content'[f.c].state = content[f.c].state /\ content'[f.c].code = content[f.c].code
  BY DEF Locked
<1> QED
  BY <1>1, <1>2, <1>3 DEF PromiseFrame

\* If no promise is given another content, that continues.
LEMMA AgreementStable ==
    ASSUME TypeInv, Grows, NEW f, PromiseFrame(f, promise, content, mixed, runs),
           \A p \in 1..Len(promise) : promise'[p] = promise[p]
    PROVE  f.at \notin Idle /\ f.obj \notin mixed' => Agrees(f.c, promise'[f.obj], content')
<1> SUFFICES ASSUME f.at \notin Idle, f.obj \notin mixed'
             PROVE  Agrees(f.c, promise'[f.obj], content')
  OBVIOUS
<1>1. f.obj \in 1..Len(promise) /\ f.c \in 1..Len(content) /\ Agrees(f.c, promise[f.obj], content)
  BY DEF PromiseFrame, Grows
<1>2. promise[f.obj] \in 1..Len(content) /\ promise'[f.obj] = promise[f.obj]
  BY <1>1, PromiseRange
<1> QED
  BY <1>1, <1>2, AgreesStable

\* The innermost force of a thread.
LEMMA TopPromise ==
    ASSUME PInv, NEW u \in Threads, stack[u] # <<>>, Top(u).kind = "promise"
    PROVE  Top(u) \in FrameRecord /\ PromiseFrame(Top(u), promise, content, mixed, runs)
<1>1. Top(u) \in FrameRecord /\ Top(u) = F(u, 1) /\ 1 \in Depths(u)
  BY TopType DEF PInv
<1> QED
  BY <1>1 DEF PInv, PromiseInv, PromiseFrames

\* All forces of promises, after a step of t.
LEMMA PromiseFramesAfter ==
    ASSUME TypeInv, NestInv, PromiseFrames, Grows, NEW t \in Threads, NEW G, Becomes(t, G),
           \A g \in G : g.kind = "promise" =>
                            PromiseFrame(g, promise', content', mixed', runs'),
           \A u \in Threads \ {t} :
               stack[u] # <<>> /\ Top(u).kind = "promise" =>
                   PromiseFrame(Top(u), promise', content', mixed', runs')
    PROVE  PromiseFrames'
<1> SUFFICES ASSUME NEW u \in Threads, NEW k \in 1..Len(stack'[u]),
                    stack'[u][k].kind = "promise"
             PROVE  PromiseFrame(stack'[u][k], promise', content', mixed', runs')
  BY DEF PromiseFrames, F, Depths
<1>1. \A v \in Threads : \A j \in Depths(v) : F(v, j) \in FrameRecord
  BY DEF TypeInv, F, Depths
<1>2. ASSUME NEW v \in Threads, NEW j \in Depths(v), F(v, j).at = "apply",
             F(v, j).kind = "promise"
      PROVE  PromiseFrame(F(v, j), promise', content', mixed', runs')
  <2>1. F(v, j) \in FrameRecord /\ PromiseFrame(F(v, j), promise, content, mixed, runs)
    BY <1>1, <1>2 DEF PromiseFrames
  <2>2. ~Locked(F(v, j)) /\ F(v, j).at \in Idle
    BY <1>2 DEF Locked, Idle
  <2> QED
    BY <1>2, <2>1, <2>2, FrameStable
<1>3. CASE u # t
  <2>1. stack'[u] = stack[u] /\ k \in Depths(u) /\ stack[u] \in Seq(FrameRecord)
    BY <1>3 DEF Becomes, Depths, TypeInv
  <2>2. CASE k = 1
    <3>1. stack[u] # <<>> /\ stack'[u][k] = Top(u)
      BY <2>1, <2>2 DEF Top, Depths
    <3> QED
      BY <3>1, <1>3
  <2>3. CASE k > 1
    <3>1. F(u, k).at = "apply" /\ F(u, k) = stack'[u][k]
      BY <2>1, <2>3 DEF NestInv, F
    <3> QED
      BY <3>1, <1>2, <2>1
  <2> QED
    BY <2>1, <2>2, <2>3 DEF Depths
<1>4. CASE u = t
  <2>1. CASE stack'[t][k] \in G
    BY <2>1, <1>4
  <2>2. CASE \E j \in Depths(t) : stack'[t][k] = F(t, j) /\ F(t, j).at = "apply"
    BY <2>2, <1>4, <1>2
  <2> QED
    BY <1>4, <2>1, <2>2 DEF Becomes
<1> QED
  BY <1>3, <1>4

\* The mutexes, after a step of t.
LEMMA MutexAfter ==
    ASSUME TypeInv, MutexInv, NEW t \in Threads, NEW G, Becomes(t, G),
           \A g \in G : Locked(g) => content'[g.c].mutex = t,
           \A u \in Threads \ {t} :
               stack[u] # <<>> /\ Locked(Top(u)) =>
                   content'[Top(u).c].mutex = content[Top(u).c].mutex
    PROVE  MutexInv'
<1> SUFFICES ASSUME NEW u \in Threads, stack'[u] # <<>>, Locked(Top(u)')
             PROVE  content'[Top(u)'.c].mutex = u
  BY DEF MutexInv, Locked
<1>1. Top(u)'.at # "apply"
  BY DEF Locked
<1>2. CASE u # t /\ stack[u] # <<>> /\ Top(u)' = Top(u)
  BY <1>2 DEF MutexInv
<1>3. CASE u = t /\ Top(u)' \in G
  BY <1>3
<1> QED
  BY <1>1, <1>2, <1>3, BecomesTop

\* A step that changes no promise and no content.
LEMMA QuietStep ==
    ASSUME TypeInv, NestInv, PromiseInv, NEW t \in Threads, NEW G, Becomes(t, G),
           UNCHANGED <<promise, content, mixed>>, runs' \in Nat, runs' >= runs,
           \A g \in G : g.kind = "promise" =>
               PromiseFrame(g, promise, content, mixed, runs'),
           \A g \in G : ~Locked(g)
    PROVE  PromiseInv'
<1>0. Grows /\ PInv
  BY PromiseRange DEF Grows, PInv
<1>1. ASSUME NEW u \in Threads, stack[u] # <<>>, Top(u).kind = "promise"
      PROVE  PromiseFrame(Top(u), promise', content', mixed', runs')
  <2>1. Top(u) \in FrameRecord /\ PromiseFrame(Top(u), promise, content, mixed, runs)
    BY <1>0, <1>1, TopPromise
  <2>2. Top(u).at \notin Idle /\ Top(u).obj \notin mixed' =>
            Agrees(Top(u).c, promise'[Top(u).obj], content')
    BY <1>0, <2>1, AgreementStable
  <2> QED
    BY <1>0, <1>1, <2>1, <2>2, FrameStable
<1>2. PromiseFrames'
  BY <1>0, <1>1, PromiseFramesAfter DEF PromiseInv
<1>3. MutexInv'
  BY MutexAfter DEF PromiseInv
<1>4. ContentInv'
  BY PromiseRange DEF PromiseInv, ContentInv
<1> QED
  BY <1>2, <1>3, <1>4 DEF PromiseInv

\* A step that writes to no promise and no content has types, if the rest has.
LEMMA QuietType ==
    ASSUME TypeInv, NEW t \in Threads, NEW G, Becomes(t, G),
           UNCHANGED <<promise, content, mixed>>, runs' \in 0..MaxRuns,
           pair' \in Seq(PairRecord), produced' \in Nat, failed' \in Seq(Nat \X Nat)
    PROVE  TypeInv'
  BY DEF TypeInv, Becomes

-----------------------------------------------------------------------------
(* The steps of a force of a promise: the quiet ones.                          *)

\* The innermost force, of a promise, changes or is left.
PromiseMoves(t) ==
    /\ stack[t] # <<>> /\ Top(t).kind = "promise"
    /\ Leave(t) \/ \E g \in FrameRecord : g.kind = "promise" /\ Set(t, g)
    /\ UNCHANGED <<pair, produced, failed, returned>>

\* The force that takes a step.
LEMMA AtPromise ==
    ASSUME PInv, NEW t \in Threads, NEW l, At(t, "promise", l)
    PROVE  /\ stack[t] # <<>> /\ Top(t) \in FrameRecord /\ Top(t).at = l
           /\ Top(t).kind = "promise"
           /\ PromiseFrame(Top(t), promise, content, mixed, runs)
           /\ Top(t).obj \in 1..Len(promise)
           /\ promise[Top(t).obj] \in 1..Len(content) /\ promise[Top(t).obj] \in Nat
           /\ l \notin Idle => Top(t).c \in 1..Len(content) /\ content[Top(t).c] \in ContentRecord
           /\ runs \in 0..MaxRuns /\ runs \in Nat
<1>1. /\ stack[t] # <<>> /\ Top(t) \in FrameRecord /\ Top(t) = F(t, 1) /\ 1 \in Depths(t)
      /\ Top(t).at = l /\ Top(t).kind = "promise"
  BY TopType DEF PInv, At
<1>2. PromiseFrame(Top(t), promise, content, mixed, runs)
  BY <1>1, TopPromise
<1>3. Top(t).obj \in 1..Len(promise) /\ (l \notin Idle => Top(t).c \in 1..Len(content))
  BY <1>1, <1>2 DEF PromiseFrame
<1>4. /\ runs \in 0..MaxRuns /\ runs \in Nat /\ Len(content) \in Nat
      /\ promise[Top(t).obj] \in 1..Len(content)
      /\ \A c \in 1..Len(content) : content[c] \in ContentRecord
  BY <1>3, PromiseRange DEF PInv, TypeInv
<1> QED
  BY <1>1, <1>2, <1>3, <1>4

LEMMA QuietKeeps ==
    ASSUME PInv, NEW t \in Threads, NEW g \in FrameRecord, Becomes(t, {g}) \/ Becomes(t, {}),
           UNCHANGED <<promise, content, mixed, pair, produced, failed>>,
           runs' \in 0..MaxRuns, runs' >= runs,
           g.kind = "promise" => PromiseFrame(g, promise, content, mixed, runs'),
           ~Locked(g)
    PROVE  PInv'
<1>1. runs' \in Nat
  BY LazyAssumption
<1>2. PromiseInv'
  <2>1. CASE Becomes(t, {g})
    BY <1>1, <2>1, QuietStep DEF PInv
  <2>2. CASE Becomes(t, {})
    BY <1>1, <2>2, QuietStep DEF PInv
  <2> QED
    BY <2>1, <2>2
<1>3. pair' \in Seq(PairRecord) /\ produced' \in Nat /\ failed' \in Seq(Nat \X Nat)
  BY DEF PInv, TypeInv
<1> QED
  BY <1>2, <1>3, QuietType, BecomesNest DEF PInv

LEMMA ReadContentKeeps ==
    ASSUME PInv, NEW t \in Threads, ReadContent(t)
    PROVE  PInv' /\ PromiseMoves(t)
<1> DEFINE g == [Top(t) EXCEPT !.at = "switch", !.c = promise[Top(t).obj]]
<1>1. At(t, "promise", "enter")
  BY DEF ReadContent
<1>2. /\ stack[t] # <<>> /\ Top(t) \in FrameRecord /\ Top(t).at = "enter"
      /\ Top(t).kind = "promise"
      /\ PromiseFrame(Top(t), promise, content, mixed, runs)
      /\ Top(t).obj \in 1..Len(promise)
      /\ promise[Top(t).obj] \in 1..Len(content) /\ promise[Top(t).obj] \in Nat
      /\ runs \in 0..MaxRuns /\ runs \in Nat
  BY <1>1, AtPromise
<1>3. /\ g \in FrameRecord /\ g.at = "switch" /\ g.c = promise[Top(t).obj]
      /\ g.kind = "promise" /\ g.obj = Top(t).obj
  BY <1>2 DEF FrameRecord, PromiseLabels
<1>4. Set(t, g) /\ UNCHANGED <<promise, content, mixed, pair, produced, failed, runs>>
  BY DEF ReadContent, promiseVars, pairVars
<1> HIDE DEF g
<1>5. Becomes(t, {g})
  BY <1>2, <1>3, <1>4, SetBecomes DEF PInv
<1>6. /\ PromiseFrame(g, promise, content, mixed, runs') /\ ~Locked(g)
  BY <1>2, <1>3, <1>4 DEF PromiseFrame, PromiseLabels, Locked, Agrees, Idle
<1>7. PInv'
  BY <1>2, <1>3, <1>4, <1>5, <1>6, QuietKeeps
<1>8. UNCHANGED <<pair, produced, failed, returned>>
  BY DEF ReadContent, pairVars
<1>9. PromiseMoves(t)
  BY <1>2, <1>4, <1>3, <1>8 DEF PromiseMoves
<1> QED
  BY <1>7, <1>9

LEMMA ReadStateKeeps ==
    ASSUME PInv, NEW t \in Threads, ReadState(t)
    PROVE  PInv' /\ PromiseMoves(t)
<1> DEFINE g == [Top(t) EXCEPT
                   !.at = IF content[Top(t).c].state = "UNFORCED" THEN "snapshot" ELSE "deliver",
                   !.state = content[Top(t).c].state]
<1>1. At(t, "promise", "switch")
  BY DEF ReadState
<1>2. /\ stack[t] # <<>> /\ Top(t) \in FrameRecord /\ Top(t).at = "switch"
      /\ Top(t).kind = "promise"
      /\ PromiseFrame(Top(t), promise, content, mixed, runs)
      /\ Top(t).obj \in 1..Len(promise)
      /\ promise[Top(t).obj] \in 1..Len(content) /\ promise[Top(t).obj] \in Nat
      /\ runs \in 0..MaxRuns /\ runs \in Nat
  BY <1>1, AtPromise
<1>3. Top(t).c \in 1..Len(content) /\ content[Top(t).c] \in ContentRecord
  BY <1>1, AtPromise DEF Idle
<1>4. content[Top(t).c].state \in Settled \cup {"UNFORCED"}
  BY <1>3 DEF ContentRecord
<1>5. /\ g \in FrameRecord /\ g.state = content[Top(t).c].state
      /\ g.at = IF content[Top(t).c].state = "UNFORCED" THEN "snapshot" ELSE "deliver"
      /\ g.kind = "promise" /\ g.obj = Top(t).obj /\ g.c = Top(t).c
  BY <1>2, <1>4 DEF FrameRecord, PromiseLabels
<1>6. Set(t, g) /\ UNCHANGED <<promise, content, mixed, pair, produced, failed, runs>>
  BY DEF ReadState, promiseVars, pairVars
<1> HIDE DEF g
<1>7. Becomes(t, {g})
  BY <1>2, <1>5, <1>6, SetBecomes DEF PInv
<1>8. ~Locked(g)
  BY <1>5 DEF Locked
<1>9. PromiseFrame(g, promise, content, mixed, runs)
  BY <1>2, <1>3, <1>4, <1>5, <1>8 DEF PromiseFrame, PromiseLabels, Idle
<1>10. PInv'
  BY <1>2, <1>5, <1>6, <1>7, <1>8, <1>9, QuietKeeps
<1>11. UNCHANGED <<pair, produced, failed, returned>>
  BY DEF ReadState, pairVars
<1>12. PromiseMoves(t)
  BY <1>2, <1>6, <1>5, <1>11 DEF PromiseMoves
<1> QED
  BY <1>10, <1>12

LEMMA DeliverKeeps ==
    ASSUME PInv, NEW t \in Threads, Deliver(t)
    PROVE  PInv' /\ PromiseMoves(t)
<1> DEFINE g == Top(t)
<1>1. At(t, "promise", "deliver")
  BY DEF Deliver
<1>2. /\ stack[t] # <<>> /\ Top(t) \in FrameRecord /\ Top(t).at = "deliver"
      /\ Top(t).kind = "promise"
      /\ PromiseFrame(Top(t), promise, content, mixed, runs)
      /\ Top(t).obj \in 1..Len(promise)
      /\ promise[Top(t).obj] \in 1..Len(content) /\ promise[Top(t).obj] \in Nat
      /\ runs \in 0..MaxRuns /\ runs \in Nat
  BY <1>1, AtPromise
<1>3. Leave(t) /\ UNCHANGED <<promise, content, mixed, pair, produced, failed, runs>>
  BY DEF Deliver, pairVars
<1>4. Becomes(t, {})
  BY <1>2, <1>3, LeaveBecomes DEF PInv
<1>5. ~Locked(g)
  BY <1>2 DEF Locked
<1>6. runs' >= runs
  BY <1>2, <1>3
<1>7. PInv'
  BY <1>2, <1>3, <1>4, <1>5, <1>6, QuietKeeps
<1>8. UNCHANGED <<pair, produced, failed, returned>>
  BY DEF Deliver, pairVars
<1>9. PromiseMoves(t)
  BY <1>2, <1>3, <1>8 DEF PromiseMoves
<1> QED
  BY <1>7, <1>9

LEMMA SnapshotKeeps ==
    ASSUME PInv, NEW t \in Threads, Snapshot(t)
    PROVE  PInv' /\ PromiseMoves(t)
<1> DEFINE g == IF content[Top(t).c].state = "UNFORCED"
                THEN [Top(t) EXCEPT !.val = runs + 1,
                        !.at = IF content[Top(t).c].code = 0 THEN "apply" ELSE "not-thunk"]
                ELSE [Top(t) EXCEPT !.at = "switch"]
<1>1. At(t, "promise", "snapshot")
  BY DEF Snapshot
<1>2. /\ stack[t] # <<>> /\ Top(t) \in FrameRecord /\ Top(t).at = "snapshot"
      /\ Top(t).kind = "promise"
      /\ PromiseFrame(Top(t), promise, content, mixed, runs)
      /\ Top(t).obj \in 1..Len(promise)
      /\ promise[Top(t).obj] \in 1..Len(content) /\ promise[Top(t).obj] \in Nat
      /\ runs \in 0..MaxRuns /\ runs \in Nat
  BY <1>1, AtPromise
<1>3. Top(t).c \in 1..Len(content)
  BY <1>1, AtPromise DEF Idle
<1>4. runs + 1 \in Nat /\ MaxRuns \in Nat
  BY <1>2, LazyAssumption
<1>5. /\ g \in FrameRecord /\ g.kind = "promise" /\ g.obj = Top(t).obj /\ g.c = Top(t).c
      /\ (g.at \in {"apply", "not-thunk"} /\ g.val = runs + 1) \/ g.at = "switch"
      /\ g.at # "switch" <=> content[Top(t).c].state = "UNFORCED"
  <2>1. CASE content[Top(t).c].state = "UNFORCED"
    BY <1>2, <1>4, <2>1 DEF FrameRecord, PromiseLabels
  <2>2. CASE content[Top(t).c].state # "UNFORCED"
    BY <1>2, <2>2 DEF FrameRecord, PromiseLabels
  <2> QED
    BY <2>1, <2>2
<1>6. /\ Set(t, g) /\ UNCHANGED <<promise, content, mixed, pair, produced, failed>>
      /\ \/ runs' = runs /\ content[Top(t).c].state # "UNFORCED"
         \/ runs' = runs + 1 /\ runs < MaxRuns
  <2>1. CASE content[Top(t).c].state = "UNFORCED"
    BY <2>1 DEF Snapshot, pairVars
  <2>2. CASE content[Top(t).c].state # "UNFORCED"
    BY <2>2 DEF Snapshot, pairVars, Goto
  <2> QED
    BY <2>1, <2>2
<1>7. runs' \in 0..MaxRuns /\ runs' >= runs
  BY <1>2, <1>4, <1>6
<1> HIDE DEF g
<1>8. Becomes(t, {g})
  BY <1>2, <1>5, <1>6, SetBecomes DEF PInv
<1>9. ~Locked(g)
  BY <1>5 DEF Locked
<1>10. g.at \in {"apply", "not-thunk"} => g.val \in 1..runs'
  BY <1>2, <1>5, <1>6
<1>11. PromiseFrame(g, promise, content, mixed, runs')
  BY <1>2, <1>3, <1>5, <1>9, <1>10 DEF PromiseFrame, PromiseLabels, Idle
<1>12. PInv'
  BY <1>2, <1>5, <1>6, <1>7, <1>8, <1>9, <1>11, QuietKeeps
<1>13. UNCHANGED <<pair, produced, failed, returned>>
  BY DEF Snapshot, pairVars
<1>14. PromiseMoves(t)
  BY <1>2, <1>6, <1>5, <1>13 DEF PromiseMoves
<1> QED
  BY <1>12, <1>14

LEMMA ThunkReturnsKeeps ==
    ASSUME PInv, NEW t \in Threads, ThunkReturns(t)
    PROVE  PInv' /\ PromiseMoves(t)
<1> DEFINE g == [Top(t) EXCEPT !.at = "lock", !.state = "FORCED",
                               !.c = promise[Top(t).obj]]
<1>1. At(t, "promise", "apply")
  BY DEF ThunkReturns
<1>2. /\ stack[t] # <<>> /\ Top(t) \in FrameRecord /\ Top(t).at = "apply"
      /\ Top(t).kind = "promise"
      /\ PromiseFrame(Top(t), promise, content, mixed, runs)
      /\ Top(t).obj \in 1..Len(promise)
      /\ promise[Top(t).obj] \in 1..Len(content) /\ promise[Top(t).obj] \in Nat
      /\ runs \in 0..MaxRuns /\ runs \in Nat
  BY <1>1, AtPromise
<1>3. /\ g \in FrameRecord /\ g.at = "lock" /\ g.c = promise[Top(t).obj]
      /\ g.kind = "promise" /\ g.obj = Top(t).obj /\ g.state = "FORCED" /\ g.val = Top(t).val
  BY <1>2 DEF FrameRecord, PromiseLabels, Settled
<1>4. Set(t, g) /\ UNCHANGED <<promise, content, mixed, pair, produced, failed, runs>>
  BY DEF ThunkReturns, promiseVars, pairVars
<1> HIDE DEF g
<1>5. Becomes(t, {g})
  BY <1>2, <1>3, <1>4, SetBecomes DEF PInv
<1>6. ~Locked(g)
  BY <1>3 DEF Locked
<1>7. PromiseFrame(g, promise, content, mixed, runs)
  BY <1>2, <1>3, <1>6 DEF PromiseFrame, PromiseLabels, Settled, Agrees, Idle
<1>8. PInv'
  BY <1>2, <1>3, <1>4, <1>5, <1>6, <1>7, QuietKeeps
<1>9. UNCHANGED <<pair, produced, failed, returned>>
  BY DEF ThunkReturns, pairVars
<1>10. PromiseMoves(t)
  BY <1>2, <1>4, <1>3, <1>9 DEF PromiseMoves
<1> QED
  BY <1>8, <1>10

LEMMA ThunkRaisesKeeps ==
    ASSUME PInv, NEW t \in Threads, ThunkRaises(t)
    PROVE  PInv' /\ PromiseMoves(t)
<1> DEFINE g == [Top(t) EXCEPT !.at = "lock", !.state = "EXCEPTION",
                               !.c = promise[Top(t).obj]]
<1>1. At(t, "promise", "apply") \/ At(t, "promise", "not-thunk")
  BY DEF ThunkRaises
<1>2. /\ stack[t] # <<>> /\ Top(t) \in FrameRecord /\ Top(t).at \in {"apply", "not-thunk"}
      /\ Top(t).kind = "promise"
      /\ PromiseFrame(Top(t), promise, content, mixed, runs)
      /\ Top(t).obj \in 1..Len(promise)
      /\ promise[Top(t).obj] \in 1..Len(content) /\ promise[Top(t).obj] \in Nat
      /\ runs \in 0..MaxRuns /\ runs \in Nat
  BY <1>1, AtPromise
<1>3. /\ g \in FrameRecord /\ g.at = "lock" /\ g.c = promise[Top(t).obj]
      /\ g.kind = "promise" /\ g.obj = Top(t).obj /\ g.state = "EXCEPTION" /\ g.val = Top(t).val
  BY <1>2 DEF FrameRecord, PromiseLabels, Settled
<1>4. Set(t, g) /\ UNCHANGED <<promise, content, mixed, pair, produced, failed, runs>>
  BY DEF ThunkRaises, promiseVars, pairVars
<1> HIDE DEF g
<1>5. Becomes(t, {g})
  BY <1>2, <1>3, <1>4, SetBecomes DEF PInv
<1>6. ~Locked(g)
  BY <1>3 DEF Locked
<1>7. PromiseFrame(g, promise, content, mixed, runs)
  BY <1>2, <1>3, <1>6 DEF PromiseFrame, PromiseLabels, Settled, Agrees, Idle
<1>8. PInv'
  BY <1>2, <1>3, <1>4, <1>5, <1>6, <1>7, QuietKeeps
<1>9. UNCHANGED <<pair, produced, failed, returned>>
  BY DEF ThunkRaises, pairVars
<1>10. PromiseMoves(t)
  BY <1>2, <1>4, <1>3, <1>9 DEF PromiseMoves
<1> QED
  BY <1>8, <1>10

LEMMA ThunkReturnsPromiseKeeps ==
    ASSUME PInv, NEW t \in Threads, NEW p \in 1..MaxPromises, ThunkReturnsPromise(t, p)
    PROVE  PInv' /\ PromiseMoves(t)
<1> DEFINE g == [Top(t) EXCEPT !.at = "lock", !.state = "PROMISE", !.val = p,
                               !.c = promise[Top(t).obj]]
<1>1. At(t, "promise", "apply")
  BY DEF ThunkReturnsPromise
<1>2. /\ stack[t] # <<>> /\ Top(t) \in FrameRecord /\ Top(t).at = "apply"
      /\ Top(t).kind = "promise"
      /\ PromiseFrame(Top(t), promise, content, mixed, runs)
      /\ Top(t).obj \in 1..Len(promise)
      /\ promise[Top(t).obj] \in 1..Len(content) /\ promise[Top(t).obj] \in Nat
      /\ runs \in 0..MaxRuns /\ runs \in Nat
  BY <1>1, AtPromise
<1>0. p \in 1..Len(promise) /\ p \in Nat
  BY PromiseRange, LazyAssumption DEF ThunkReturnsPromise, PInv
<1>3. /\ g \in FrameRecord /\ g.at = "lock" /\ g.c = promise[Top(t).obj]
      /\ g.kind = "promise" /\ g.obj = Top(t).obj /\ g.state = "PROMISE" /\ g.val = p
  BY <1>0, <1>2 DEF FrameRecord, PromiseLabels
<1>4. Set(t, g) /\ UNCHANGED <<promise, content, mixed, pair, produced, failed, runs>>
  BY DEF ThunkReturnsPromise, promiseVars, pairVars
<1> HIDE DEF g
<1>5. Becomes(t, {g})
  BY <1>2, <1>3, <1>4, SetBecomes DEF PInv
<1>6. ~Locked(g)
  BY <1>3 DEF Locked
<1>7. PromiseFrame(g, promise, content, mixed, runs)
  BY <1>0, <1>2, <1>3, <1>6 DEF PromiseFrame, PromiseLabels, Settled, Agrees, Idle
<1>8. PInv'
  BY <1>2, <1>3, <1>4, <1>5, <1>6, <1>7, QuietKeeps
<1>9. UNCHANGED <<pair, produced, failed, returned>>
  BY DEF ThunkReturnsPromise, pairVars
<1>10. PromiseMoves(t)
  BY <1>2, <1>4, <1>3, <1>9 DEF PromiseMoves
<1> QED
  BY <1>8, <1>10

LEMMA CallForceKeeps ==
    ASSUME PInv, NEW t \in Threads, NEW p \in 1..MaxPromises, CallForce(t, p)
    PROVE  PInv'
<1> DEFINE g == Frame("promise", p)
<1>1. p \in Nat /\ p \in 1..Len(promise) /\ runs \in 0..MaxRuns /\ runs \in Nat
  BY LazyAssumption, PromiseRange DEF CallForce, PInv, TypeInv
<1>2. g \in FrameRecord /\ g.kind = "promise" /\ g.obj = p /\ g.at = "enter"
  BY <1>1, FrameBegins
<1>3. /\ InScheme(t) /\ Push(t, g)
      /\ UNCHANGED <<promise, content, mixed, pair, produced, failed, runs>>
  BY DEF CallForce, promiseVars, pairVars
<1> HIDE DEF g
<1>4. Becomes(t, {g})
  BY <1>2, <1>3, PushBecomes DEF PInv
<1>5. /\ PromiseFrame(g, promise, content, mixed, runs) /\ ~Locked(g)
  BY <1>1, <1>2 DEF PromiseFrame, PromiseLabels, Locked, Idle
<1> QED
  BY <1>1, <1>2, <1>3, <1>4, <1>5, QuietKeeps

-----------------------------------------------------------------------------
(* The steps of a force of a promise that write.                               *)

-----------------------------------------------------------------------------
(* The steps of a force of a promise that write.                               *)

\* The mutexes of the other threads, when t takes, has or releases the one of c.
LEMMA MutexesStable ==
    ASSUME PInv, NEW t \in Threads, NEW c, content[c].mutex \in {t, NoThread},
           \A d \in 1..Len(content) : d # c => content'[d] = content[d]
    PROVE  \A u \in Threads \ {t} :
               stack[u] # <<>> /\ Locked(Top(u)) =>
                   /\ Top(u).c \in 1..Len(content) /\ Top(u).c # c
                   /\ content'[Top(u).c] = content[Top(u).c]
<1> SUFFICES ASSUME NEW u \in Threads \ {t}, stack[u] # <<>>, Locked(Top(u))
             PROVE  /\ Top(u).c \in 1..Len(content) /\ Top(u).c # c
                    /\ content'[Top(u).c] = content[Top(u).c]
  OBVIOUS
<1>1. At(u, "promise", Top(u).at) /\ Top(u).at \notin Idle
  BY DEF Locked, At, Idle
<1>2. Top(u).c \in 1..Len(content)
  BY <1>1, AtPromise
<1>3. content[Top(u).c].mutex = u
  BY DEF PInv, PromiseInv, MutexInv
<1>4. Top(u).c # c
  BY <1>3, LazyAssumption
<1> QED
  BY <1>2, <1>4

\* A content that changes.
LEMMA ContentChange ==
    ASSUME PInv, NEW c \in 1..Len(content), NEW r \in ContentRecord,
           content' = [content EXCEPT ![c] = r]
    PROVE  /\ content' \in Seq(ContentRecord) /\ Len(content') = Len(content)
           /\ content'[c] = r
           /\ \A d \in 1..Len(content) : d # c => content'[d] = content[d]
  BY DEF PInv, TypeInv

\* What a content that changes has to keep.
LEMMA ContentGrows ==
    ASSUME PInv, NEW c \in 1..Len(content), NEW r \in ContentRecord,
           content' = [content EXCEPT ![c] = r],
           content[c].state \in Settled => r.state = content[c].state /\ r.code = content[c].code,
           UNCHANGED <<promise, runs>>, mixed \subseteq mixed'
    PROVE  Grows
<1>1. /\ Len(content') = Len(content) /\ content'[c] = r
      /\ \A d \in 1..Len(content) : d # c => content'[d] = content[d]
  BY ContentChange
<1>2. Len(promise) \in Nat /\ Len(content) \in Nat /\ runs \in Nat
  BY PromiseRange DEF PInv
<1> QED
  BY <1>1, <1>2 DEF Grows

\* A step that changes one content c, whose mutex is not another thread's.
LEMMA ContentStep ==
    ASSUME PInv, NEW t \in Threads, NEW g \in FrameRecord, Becomes(t, {g}),
           NEW c \in 1..Len(content), NEW r \in ContentRecord,
           content' = [content EXCEPT ![c] = r], content[c].mutex \in {t, NoThread}, Grows,
           UNCHANGED <<promise, runs, pair, produced, failed>>,
           mixed' \subseteq 1..Len(promise),
           PromiseFrame(g, promise', content', mixed', runs'),
           Locked(g) => g.c = c /\ r.mutex = t,
           r.code \in 0..runs,
           r.state \in Settled /\ r.code = 0 =>
               \A p \in 1..Len(promise) : promise[p] = c => p \in mixed'
    PROVE  PInv'
<1>1. /\ content' \in Seq(ContentRecord) /\ Len(content') = Len(content)
      /\ content'[c] = r
      /\ \A d \in 1..Len(content) : d # c => content'[d] = content[d]
  BY ContentChange
<1>2. TypeInv'
  BY <1>1 DEF PInv, TypeInv, Becomes
<1>3. NestInv'
  BY BecomesNest DEF PInv
<1>4. \A u \in Threads \ {t} :
          stack[u] # <<>> /\ Locked(Top(u)) =>
              /\ Top(u).c \in 1..Len(content) /\ Top(u).c # c
              /\ content'[Top(u).c] = content[Top(u).c]
  BY <1>1, MutexesStable
<1>5. ASSUME NEW u \in Threads \ {t}, stack[u] # <<>>, Top(u).kind = "promise"
      PROVE  PromiseFrame(Top(u), promise', content', mixed', runs')
  <2>1. Top(u) \in FrameRecord /\ PromiseFrame(Top(u), promise, content, mixed, runs)
    BY <1>5, TopPromise
  <2>2. Locked(Top(u)) => content'[Top(u).c].state = content[Top(u).c].state
                          /\ content'[Top(u).c].code = content[Top(u).c].code
    BY <1>4, <1>5
  <2>3. Top(u).at \notin Idle /\ Top(u).obj \notin mixed' =>
            Agrees(Top(u).c, promise'[Top(u).obj], content')
    BY <2>1, AgreementStable DEF PInv
  <2> QED
    BY <1>5, <2>1, <2>2, <2>3, FrameStable DEF PInv
<1>6. PromiseFrames'
  BY <1>5, PromiseFramesAfter DEF PInv, PromiseInv
<1>7. MutexInv'
  <2>1. Locked(g) => content'[g.c].mutex = t
    BY <1>1
  <2> QED
    BY <2>1, <1>4, MutexAfter DEF PInv, PromiseInv
<1>8. ContentInv'
  <2>1. \A d \in 1..Len(content') : content'[d].code \in 0..runs'
    BY <1>1 DEF PInv, PromiseInv, ContentInv
  <2>2. ASSUME NEW p \in (1..Len(promise')) \ mixed', content'[promise'[p]].state \in Settled
        PROVE  content'[promise'[p]].code # 0
    <3>1. promise'[p] = promise[p] /\ promise[p] \in 1..Len(content)
          /\ p \in (1..Len(promise)) \ mixed
      BY <2>2, PromiseRange DEF PInv, Grows
    <3>2. CASE promise[p] = c
      BY <1>1, <2>2, <3>1, <3>2
    <3>3. CASE promise[p] # c
      BY <1>1, <2>2, <3>1, <3>3 DEF PInv, PromiseInv, ContentInv
    <3> QED
      BY <3>2, <3>3
  <2> QED
    BY <2>1, <2>2 DEF ContentInv
<1> QED
  BY <1>2, <1>3, <1>6, <1>7, <1>8 DEF PInv, PromiseInv

LEMMA LockContentKeeps ==
    ASSUME PInv, NEW t \in Threads, LockContent(t)
    PROVE  PInv' /\ PromiseMoves(t)
<1> DEFINE c == Top(t).c
           g == IF content[Top(t).c].state # "UNFORCED" THEN [Top(t) EXCEPT !.at = "unlock"]
                ELSE IF Top(t).state = "PROMISE"
                THEN [Top(t) EXCEPT !.at = "code", !.cc = promise[Top(t).val]]
                ELSE [Top(t) EXCEPT !.at = "code"]
           r == [content[c] EXCEPT !.mutex = t]
<1>1. At(t, "promise", "lock")
  BY DEF LockContent
<1>2. /\ stack[t] # <<>> /\ Top(t) \in FrameRecord /\ Top(t).at = "lock"
      /\ Top(t).kind = "promise"
      /\ PromiseFrame(Top(t), promise, content, mixed, runs)
      /\ Top(t).obj \in 1..Len(promise)
      /\ c \in 1..Len(content) /\ content[c] \in ContentRecord
      /\ runs \in Nat
  BY <1>1, AtPromise DEF Idle
<1>3. /\ content[c].mutex = NoThread /\ content' = [content EXCEPT ![c] = r] /\ Set(t, g)
      /\ UNCHANGED <<promise, mixed, runs, pair, produced, failed>>
  <2>1. Set(t, g)
    <3>1. CASE content[Top(t).c].state # "UNFORCED"
      BY <3>1 DEF LockContent, Goto
    <3>2. CASE content[Top(t).c].state = "UNFORCED" /\ Top(t).state = "PROMISE"
      BY <3>2 DEF LockContent
    <3>3. CASE content[Top(t).c].state = "UNFORCED" /\ Top(t).state # "PROMISE"
      BY <3>3 DEF LockContent, Goto
    <3> QED
      BY <3>1, <3>2, <3>3
  <2> QED
    BY <2>1 DEF LockContent, pairVars
<1>4. /\ r \in ContentRecord /\ r.mutex = t
      /\ r.state = content[c].state /\ r.code = content[c].code
  BY <1>2 DEF ContentRecord
<1>5. Top(t).state = "PROMISE" => /\ Top(t).val \in 1..Len(promise)
                                 /\ promise[Top(t).val] \in 1..Len(content)
                                 /\ promise[Top(t).val] \in Nat
  <2>1. Top(t).state = "PROMISE" => Top(t).val \in 1..Len(promise)
    BY <1>2 DEF PromiseFrame
  <2> QED
    BY <2>1, PromiseRange DEF PInv
<1>6. /\ g \in FrameRecord /\ g.kind = "promise" /\ g.obj = Top(t).obj /\ g.c = c
      /\ g.state = Top(t).state /\ g.val = Top(t).val
      /\ \/ g.at = "unlock" /\ content[c].state # "UNFORCED"
         \/ /\ g.at = "code" /\ content[c].state = "UNFORCED"
            /\ g.state = "PROMISE" => g.cc = promise[Top(t).val]
  <2>1. CASE content[Top(t).c].state # "UNFORCED"
    BY <1>2, <2>1 DEF FrameRecord, PromiseLabels
  <2>2. CASE content[Top(t).c].state = "UNFORCED" /\ Top(t).state = "PROMISE"
    BY <1>2, <1>5, <2>2 DEF FrameRecord, PromiseLabels
  <2>3. CASE content[Top(t).c].state = "UNFORCED" /\ Top(t).state # "PROMISE"
    BY <1>2, <2>3 DEF FrameRecord, PromiseLabels
  <2> QED
    BY <2>1, <2>2, <2>3
<1> HIDE DEF g, r, c
<1>7. Becomes(t, {g})
  BY <1>2, <1>3, <1>6, SetBecomes DEF PInv
<1>8. Len(content') = Len(content) /\ content'[c] = r
  BY <1>2, <1>3, <1>4, ContentChange
<1>9. Grows
  BY <1>2, <1>3, <1>4, ContentGrows
<1>10. g.obj \notin mixed' => Agrees(g.c, promise'[g.obj], content')
  BY <1>2, <1>3, <1>6, <1>9, AgreementStable DEF PInv, Idle, c
<1>11. content[c].state \in Settled \cup {"UNFORCED"}
  BY <1>2 DEF ContentRecord
<1>12. PromiseFrame(g, promise', content', mixed', runs')
  <2>1. g.at = "unlock" => content'[g.c].state \in Settled
    BY <1>4, <1>6, <1>8, <1>11
  <2>2. g.at = "code" => content'[g.c].state = "UNFORCED"
    BY <1>4, <1>6, <1>8
  <2>3. g.state # "UNFORCED" /\ (g.state \in Settled => g.val \in 1..runs)
    BY <1>2, <1>6 DEF PromiseFrame
  <2> QED
    BY <1>2, <1>3, <1>5, <1>6, <1>8, <1>10, <2>1, <2>2, <2>3 DEF PromiseFrame, PromiseLabels, Idle
<1>13. r.code \in 0..runs /\ (r.state \in Settled /\ r.code = 0 =>
           \A p \in 1..Len(promise) : promise[p] = c => p \in mixed')
  BY <1>2, <1>3, <1>4 DEF PInv, PromiseInv, ContentInv
<1>14. mixed' \subseteq 1..Len(promise)
  BY <1>3 DEF PInv, TypeInv
<1>15. PInv'
  BY <1>2, <1>3, <1>4, <1>6, <1>7, <1>9, <1>12, <1>13, <1>14, ContentStep
<1>16. UNCHANGED <<pair, produced, failed, returned>>
  BY DEF LockContent, pairVars
<1>17. PromiseMoves(t)
  BY <1>2, <1>3, <1>6, <1>16 DEF PromiseMoves
<1> QED
  BY <1>15, <1>17

LEMMA UnlockContentKeeps ==
    ASSUME PInv, NEW t \in Threads, UnlockContent(t)
    PROVE  PInv' /\ PromiseMoves(t)
<1> DEFINE c == Top(t).c
           g == IF Top(t).state = "EXCEPTION" THEN [Top(t) EXCEPT !.at = "deliver"]
                ELSE Frame("promise", Top(t).obj)
           r == [content[c] EXCEPT !.mutex = NoThread]
<1>1. At(t, "promise", "unlock")
  BY DEF UnlockContent
<1>2. /\ stack[t] # <<>> /\ Top(t) \in FrameRecord /\ Top(t).at = "unlock"
      /\ Top(t).kind = "promise"
      /\ PromiseFrame(Top(t), promise, content, mixed, runs)
      /\ Top(t).obj \in 1..Len(promise) /\ Top(t).obj \in Nat
      /\ c \in 1..Len(content) /\ content[c] \in ContentRecord
      /\ runs \in Nat
  BY <1>1, AtPromise DEF Idle
<1>3. /\ content' = [content EXCEPT ![c] = r] /\ Set(t, g)
      /\ UNCHANGED <<promise, mixed, runs, pair, produced, failed>>
  BY DEF UnlockContent, pairVars
<1>4. /\ r \in ContentRecord /\ r.state = content[c].state /\ r.code = content[c].code
  BY <1>2 DEF ContentRecord
<1>5. content[c].mutex = t
  BY <1>2 DEF PInv, PromiseInv, MutexInv, Locked
<1>6. /\ g \in FrameRecord /\ g.kind = "promise" /\ g.obj = Top(t).obj
      /\ \/ /\ g.at = "deliver" /\ g.c = c /\ g.state = "EXCEPTION"
            /\ content[c].state \in Settled
         \/ g.at = "enter"
  <2>1. CASE Top(t).state = "EXCEPTION"
    <3>1. content[c].state \in Settled
      BY <1>2, <2>1 DEF PromiseFrame
    <3> QED
      BY <1>2, <2>1, <3>1 DEF FrameRecord, PromiseLabels
  <2>2. CASE Top(t).state # "EXCEPTION"
    BY <1>2, <2>2, FrameBegins
  <2> QED
    BY <2>1, <2>2
<1> HIDE DEF g, r, c
<1>7. Becomes(t, {g})
  BY <1>2, <1>3, <1>6, SetBecomes DEF PInv
<1>8. Len(content') = Len(content) /\ content'[c] = r
  BY <1>2, <1>3, <1>4, ContentChange
<1>9. Grows
  BY <1>2, <1>3, <1>4, ContentGrows
<1>10. Top(t).obj \notin mixed' => Agrees(c, promise'[Top(t).obj], content')
  BY <1>2, <1>3, <1>9, AgreementStable DEF PInv, Idle, c
<1>11. ~Locked(g)
  BY <1>6 DEF Locked
<1>12. PromiseFrame(g, promise', content', mixed', runs')
  BY <1>2, <1>3, <1>4, <1>6, <1>8, <1>10 DEF PromiseFrame, PromiseLabels, Settled, Idle
<1>13. r.code \in 0..runs /\ (r.state \in Settled /\ r.code = 0 =>
           \A p \in 1..Len(promise) : promise[p] = c => p \in mixed')
  BY <1>2, <1>3, <1>4 DEF PInv, PromiseInv, ContentInv
<1>14. mixed' \subseteq 1..Len(promise)
  BY <1>3 DEF PInv, TypeInv
<1>15. PInv'
  BY <1>2, <1>3, <1>4, <1>5, <1>6, <1>7, <1>9, <1>11, <1>12, <1>13, <1>14, ContentStep
<1>16. UNCHANGED <<pair, produced, failed, returned>>
  BY DEF UnlockContent, pairVars
<1>17. PromiseMoves(t)
  BY <1>2, <1>3, <1>6, <1>16 DEF PromiseMoves
<1> QED
  BY <1>15, <1>17

LEMMA WriteCodeKeeps ==
    ASSUME PInv, NEW t \in Threads, WriteCode(t)
    PROVE  PInv' /\ PromiseMoves(t)
<1> DEFINE c == Top(t).c
           g == [Top(t) EXCEPT !.at = "state"]
           r == [content[c] EXCEPT !.code = IF Top(t).state = "PROMISE" THEN content[Top(t).cc].code
                                           ELSE Top(t).val]
<1>1. At(t, "promise", "code")
  BY DEF WriteCode
<1>2. /\ stack[t] # <<>> /\ Top(t) \in FrameRecord /\ Top(t).at = "code"
      /\ Top(t).kind = "promise"
      /\ PromiseFrame(Top(t), promise, content, mixed, runs)
      /\ Top(t).obj \in 1..Len(promise)
      /\ c \in 1..Len(content) /\ content[c] \in ContentRecord
      /\ runs \in Nat
  BY <1>1, AtPromise DEF Idle
<1>3. /\ content' = [content EXCEPT ![c] = r] /\ Set(t, g)
      /\ UNCHANGED <<promise, mixed, runs, pair, produced, failed>>
  BY DEF WriteCode, pairVars, Goto
<1>4. /\ Top(t).state = "PROMISE" => Top(t).cc \in 1..Len(content)
      /\ Top(t).state # "PROMISE" => Top(t).val \in 1..runs
      /\ content[c].state = "UNFORCED"
  BY <1>2 DEF PromiseFrame, FrameRecord
<1>5. content[c].mutex = t
  BY <1>2 DEF PInv, PromiseInv, MutexInv, Locked
<1>6. /\ r \in ContentRecord /\ r.state = "UNFORCED" /\ r.mutex = t /\ r.code \in 0..runs
      /\ Top(t).state # "PROMISE" => r.code = Top(t).val
  <2>1. CASE Top(t).state = "PROMISE"
    <3>1. content[Top(t).cc].code \in 0..runs /\ content[Top(t).cc].code \in Nat
      BY <1>2, <1>4, <2>1 DEF PInv, PromiseInv, ContentInv
    <3> QED
      BY <1>2, <1>4, <1>5, <2>1, <3>1 DEF ContentRecord
  <2>2. CASE Top(t).state # "PROMISE"
    BY <1>2, <1>4, <1>5, <2>2 DEF ContentRecord
  <2> QED
    BY <2>1, <2>2
<1>7. /\ g \in FrameRecord /\ g.kind = "promise" /\ g.obj = Top(t).obj /\ g.c = c
      /\ g.state = Top(t).state /\ g.val = Top(t).val /\ g.cc = Top(t).cc /\ g.at = "state"
  BY <1>2 DEF FrameRecord, PromiseLabels
<1> HIDE DEF g, r, c
<1>8. Becomes(t, {g})
  BY <1>2, <1>3, <1>7, SetBecomes DEF PInv
<1>9. Len(content') = Len(content) /\ content'[c] = r
  BY <1>2, <1>3, <1>6, ContentChange
<1>10. "UNFORCED" \notin Settled
  BY DEF Settled
<1>11. Grows
  BY <1>2, <1>3, <1>4, <1>6, <1>10, ContentGrows
<1>12. g.obj \notin mixed' => Agrees(g.c, promise'[g.obj], content')
  BY <1>2, <1>3, <1>7, <1>11, AgreementStable DEF PInv, Idle, c
<1>13. Locked(g) => g.c = c /\ r.mutex = t
  BY <1>6, <1>7
<1>14. PromiseFrame(g, promise', content', mixed', runs')
  <2>1. content'[g.c].state = "UNFORCED" /\ (g.state # "PROMISE" => content'[g.c].code = g.val)
    BY <1>6, <1>7, <1>9
  <2>2. /\ g.state # "UNFORCED" /\ (g.state \in Settled => g.val \in 1..runs)
        /\ g.state = "PROMISE" => g.val \in 1..Len(promise) /\ g.cc \in 1..Len(content)
    BY <1>2, <1>7 DEF PromiseFrame
  <2> QED
    BY <1>2, <1>3, <1>7, <1>9, <1>12, <2>1, <2>2 DEF PromiseFrame, PromiseLabels, Idle
<1>15. mixed' \subseteq 1..Len(promise)
  BY <1>3 DEF PInv, TypeInv
<1>16. PInv'
  BY <1>2, <1>3, <1>5, <1>6, <1>7, <1>8, <1>10, <1>11, <1>13, <1>14, <1>15, ContentStep
<1>17. UNCHANGED <<pair, produced, failed, returned>>
  BY DEF WriteCode, pairVars
<1>18. PromiseMoves(t)
  BY <1>2, <1>3, <1>7, <1>17 DEF PromiseMoves
<1> QED
  BY <1>16, <1>18

LEMMA WriteStateKeeps ==
    ASSUME PInv, NEW t \in Threads, WriteState(t)
    PROVE  PInv' /\ PromiseMoves(t)
<1> DEFINE c == Top(t).c
           s == IF Top(t).state = "PROMISE" THEN content[Top(t).cc].state ELSE Top(t).state
           g == [Top(t) EXCEPT !.at = IF Top(t).state = "PROMISE" THEN "share" ELSE "unlock"]
           r == [content[c] EXCEPT !.state = s]
<1>1. At(t, "promise", "state")
  BY DEF WriteState
<1>2. /\ stack[t] # <<>> /\ Top(t) \in FrameRecord /\ Top(t).at = "state"
      /\ Top(t).kind = "promise"
      /\ PromiseFrame(Top(t), promise, content, mixed, runs)
      /\ Top(t).obj \in 1..Len(promise)
      /\ c \in 1..Len(content) /\ content[c] \in ContentRecord
      /\ runs \in Nat
  BY <1>1, AtPromise DEF Idle
<1>3. /\ content' = [content EXCEPT ![c] = r] /\ Set(t, g)
      /\ UNCHANGED <<promise, runs, pair, produced, failed>>
      /\ mixed' = IF s # "UNFORCED" /\ content[c].code = 0
                  THEN mixed \cup {p \in 1..Len(promise) : promise[p] = c} ELSE mixed
  BY DEF WriteState, pairVars, Goto
<1>4. s \in Settled \cup {"UNFORCED"} /\ (Top(t).state # "PROMISE" => s \in Settled)
  <2>1. CASE Top(t).state = "PROMISE"
    <3>1. Top(t).cc \in 1..Len(content)
      BY <1>2, <2>1 DEF PromiseFrame
    <3>2. content[Top(t).cc] \in ContentRecord
      BY <3>1, PromiseRange DEF PInv
    <3> QED
      BY <2>1, <3>2 DEF ContentRecord
  <2>2. CASE Top(t).state # "PROMISE"
    BY <1>2, <2>2 DEF FrameRecord, PromiseFrame
  <2> QED
    BY <2>1, <2>2
<1>5. content[c].mutex = t /\ content[c].state = "UNFORCED"
  BY <1>2 DEF PInv, PromiseInv, MutexInv, Locked, PromiseFrame
<1>6. /\ g \in FrameRecord /\ g.kind = "promise" /\ g.obj = Top(t).obj /\ g.c = c
      /\ g.state = Top(t).state /\ g.val = Top(t).val
      /\ g.at = IF Top(t).state = "PROMISE" THEN "share" ELSE "unlock"
  BY <1>2 DEF FrameRecord, PromiseLabels
<1> HIDE DEF s
<1>7. /\ r \in ContentRecord /\ r.code = content[c].code /\ r.mutex = t /\ r.state = s
  BY <1>2, <1>4, <1>5 DEF ContentRecord
<1> HIDE DEF g, r, c
<1>8. Becomes(t, {g})
  BY <1>2, <1>3, <1>6, SetBecomes DEF PInv
<1>9. Len(content') = Len(content) /\ content'[c] = r
  BY <1>2, <1>3, <1>7, ContentChange
<1>10. "UNFORCED" \notin Settled
  BY DEF Settled
<1>11. mixed \subseteq mixed' /\ mixed' \subseteq 1..Len(promise)
  BY <1>3 DEF PInv, TypeInv
<1>12. Grows
  BY <1>2, <1>3, <1>5, <1>7, <1>10, <1>11, ContentGrows
<1>13. g.obj \notin mixed' => Agrees(g.c, promise'[g.obj], content')
  BY <1>2, <1>3, <1>6, <1>12, AgreementStable DEF PInv, Idle, c
<1>14. Locked(g) => g.c = c /\ r.mutex = t
  BY <1>6, <1>7
<1>15. PromiseFrame(g, promise', content', mixed', runs')
  <2>1. g.at = "unlock" => content'[g.c].state \in Settled
    BY <1>4, <1>6, <1>7, <1>9
  <2>2. g.state = "PROMISE" => g.val \in 1..Len(promise)
    BY <1>2, <1>6 DEF PromiseFrame
  <2> QED
    BY <1>2, <1>3, <1>6, <1>9, <1>13, <2>1, <2>2 DEF PromiseFrame, PromiseLabels, Idle
<1>16. r.code \in 0..runs /\ (r.state \in Settled /\ r.code = 0 =>
           \A p \in 1..Len(promise) : promise[p] = c => p \in mixed')
  BY <1>2, <1>3, <1>7, <1>10 DEF PInv, PromiseInv, ContentInv
<1>17. PInv'
  BY <1>2, <1>3, <1>5, <1>6, <1>7, <1>8, <1>11, <1>12, <1>14, <1>15, <1>16, ContentStep
<1>18. UNCHANGED <<pair, produced, failed, returned>>
  BY DEF WriteState, pairVars
<1>19. PromiseMoves(t)
  BY <1>2, <1>3, <1>6, <1>18 DEF PromiseMoves
<1> QED
  BY <1>17, <1>19

\* A force of promise v continues to agree with its content, when v comes to have
\* a content c that its own one can be replaced by.
LEMMA ShareAgrees ==
    ASSUME PInv, NEW v \in 1..Len(promise), NEW c \in 1..Len(content), Interchangeable(v, c),
           NEW u \in Threads, stack[u] # <<>>, Top(u).kind = "promise",
           Top(u).obj = v, Top(u).at \notin Idle, v \notin mixed
    PROVE  Agrees(Top(u).c, c, content)
<1>1. PromiseFrame(Top(u), promise, content, mixed, runs) /\ Top(u) = stack[u][1]
      /\ 1 \in 1..Len(stack[u])
  BY TopPromise, TopType DEF PInv, F, Depths
<1>2. Agrees(Top(u).c, promise[v], content)
  BY <1>1 DEF PromiseFrame
<1>3. content[promise[v]].state \in Settled \cup {"UNFORCED"}
  <2>1. content[promise[v]] \in ContentRecord
    BY PromiseRange DEF PInv
  <2> QED
    BY <2>1 DEF ContentRecord
<1>4. CASE promise[v] = c
  BY <1>2, <1>4
<1>5. CASE /\ content[promise[v]].state = content[c].state
           /\ content[promise[v]].state # "UNFORCED"
           /\ content[promise[v]].code = content[c].code
  BY <1>2, <1>3, <1>5 DEF Agrees
<1>6. CASE \A w \in Threads : \A k \in 1..Len(stack[w]) :
               stack[w][k].kind = "promise" /\ stack[w][k].obj = v =>
                   stack[w][k].at \in {"enter", "apply", "not-thunk"}
  BY <1>1, <1>6 DEF Idle
<1> QED
  BY <1>4, <1>5, <1>6 DEF Interchangeable

LEMMA ShareContentKeeps ==
    ASSUME PInv, NEW t \in Threads, ShareContent(t)
    PROVE  PInv' /\ PromiseMoves(t)
<1> DEFINE c == Top(t).c
           v == Top(t).val
           g == [Top(t) EXCEPT !.at = "unlock"]
<1>1. At(t, "promise", "share")
  BY DEF ShareContent
<1>2. /\ stack[t] # <<>> /\ Top(t) \in FrameRecord /\ Top(t).at = "share"
      /\ Top(t).kind = "promise"
      /\ PromiseFrame(Top(t), promise, content, mixed, runs)
      /\ Top(t).obj \in 1..Len(promise)
      /\ c \in 1..Len(content) /\ content[c] \in ContentRecord
      /\ runs \in Nat
  BY <1>1, AtPromise DEF Idle
<1>3. Top(t).state = "PROMISE" /\ v \in 1..Len(promise)
  BY <1>2 DEF PromiseFrame
<1>4. /\ promise' = [promise EXCEPT ![v] = c] /\ Set(t, g)
      /\ mixed' = IF Interchangeable(v, c) THEN mixed ELSE mixed \cup {v}
      /\ UNCHANGED <<content, runs, pair, produced, failed>>
  BY DEF ShareContent, pairVars, Goto
<1>5. /\ g \in FrameRecord /\ g.kind = "promise" /\ g.obj = Top(t).obj /\ g.c = c
      /\ g.state = "PROMISE" /\ g.at = "unlock"
  BY <1>2, <1>3 DEF FrameRecord, PromiseLabels
<1>6. /\ promise \in Seq(1..Len(content)) /\ Len(promise) \in Nat /\ Len(content) \in Nat
      /\ \A p \in 1..Len(promise) : promise[p] \in 1..Len(content)
  BY PromiseRange DEF PInv
<1> HIDE DEF g, c, v
<1>7. /\ promise' \in Seq(1..Len(content)) /\ Len(promise') = Len(promise)
      /\ promise'[v] = c
      /\ \A p \in 1..Len(promise) : p # v => promise'[p] = promise[p]
  BY <1>2, <1>3, <1>4, <1>6
<1>8. Becomes(t, {g})
  BY <1>2, <1>4, <1>5, SetBecomes DEF PInv
<1>9. mixed \subseteq mixed' /\ mixed' \subseteq 1..Len(promise)
  BY <1>3, <1>4 DEF PInv, TypeInv
<1>10. TypeInv'
  BY <1>4, <1>7, <1>8, <1>9 DEF PInv, TypeInv, Becomes
<1>11. NestInv'
  BY <1>8, BecomesNest DEF PInv
<1>12. Grows
  BY <1>2, <1>4, <1>6, <1>7, <1>9 DEF Grows
<1>13. ASSUME NEW u \in Threads, stack[u] # <<>>, Top(u).kind = "promise",
              Top(u).at \notin Idle, Top(u).obj \notin mixed'
       PROVE  \/ Agrees(Top(u).c, promise'[Top(u).obj], content')
              \/ u = t /\ Top(t).obj = v
  <2>1. PromiseFrame(Top(u), promise, content, mixed, runs)
    BY <1>13, TopPromise
  <2>2. CASE Top(u).obj # v
    <3>1. promise'[Top(u).obj] = promise[Top(u).obj]
      BY <1>7, <2>1, <2>2 DEF PromiseFrame
    <3> QED
      BY <1>4, <1>9, <1>13, <2>1, <3>1 DEF PromiseFrame
  <2>3. CASE Top(u).obj = v
    <3>1. Interchangeable(v, c) /\ v \notin mixed
      BY <1>4, <1>9, <1>13, <2>3
    <3> QED
      BY <1>2, <1>3, <1>4, <1>7, <1>13, <2>3, <3>1, ShareAgrees
  <2> QED
    BY <2>2, <2>3
<1>14. ASSUME NEW u \in Threads \ {t}, stack[u] # <<>>, Top(u).kind = "promise"
       PROVE  PromiseFrame(Top(u), promise', content', mixed', runs')
  <2>1. Top(u) \in FrameRecord /\ PromiseFrame(Top(u), promise, content, mixed, runs)
    BY <1>14, TopPromise
  <2>2. Top(u).at \notin Idle /\ Top(u).obj \notin mixed' =>
            Agrees(Top(u).c, promise'[Top(u).obj], content')
    BY <1>13, <1>14
  <2> QED
    BY <1>4, <1>12, <1>14, <2>1, <2>2, FrameStable DEF PInv
<1>15. g.obj \notin mixed' => Agrees(g.c, promise'[g.obj], content')
  <2>1. CASE Top(t).obj = v
    BY <1>5, <1>7, <2>1 DEF Agrees
  <2>2. CASE Top(t).obj # v
    BY <1>2, <1>5, <1>13, <2>2 DEF Idle, c
  <2> QED
    BY <2>1, <2>2
<1>16. PromiseFrame(g, promise', content', mixed', runs')
  BY <1>2, <1>4, <1>5, <1>7, <1>15 DEF PromiseFrame, PromiseLabels, Idle
<1>17. PromiseFrames'
  BY <1>8, <1>12, <1>14, <1>16, PromiseFramesAfter DEF PInv, PromiseInv
<1>18. MutexInv'
  <2>1. content[c].mutex = t
    BY <1>2 DEF PInv, PromiseInv, MutexInv, Locked, c
  <2> QED
    BY <1>4, <1>5, <1>8, <2>1, MutexAfter DEF PInv, PromiseInv
<1>19. ContentInv'
  <2>1. ASSUME NEW p \in (1..Len(promise')) \ mixed', content[promise'[p]].state \in Settled
        PROVE  content[promise'[p]].code # 0
    <3>1. p \in (1..Len(promise)) \ mixed
      BY <1>7, <1>9, <2>1
    <3>2. CASE p # v
      BY <1>7, <2>1, <3>1, <3>2 DEF PInv, PromiseInv, ContentInv
    <3>3. CASE p = v
      <4>1. Interchangeable(v, c) /\ promise'[p] = c /\ "UNFORCED" \notin Settled
        BY <1>4, <1>7, <2>1, <3>3 DEF Settled
      <4>2. content[promise[v]].state = content[c].state
            /\ content[promise[v]].code = content[c].code
        BY <2>1, <4>1 DEF Interchangeable
      <4> QED
        BY <2>1, <3>1, <3>3, <4>1, <4>2 DEF PInv, PromiseInv, ContentInv
    <3> QED
      BY <3>2, <3>3
  <2> QED
    BY <1>4, <2>1 DEF PInv, PromiseInv, ContentInv
<1>20. PInv'
  BY <1>10, <1>11, <1>17, <1>18, <1>19 DEF PInv, PromiseInv
<1>21. UNCHANGED <<pair, produced, failed, returned>>
  BY DEF ShareContent, pairVars
<1>22. PromiseMoves(t)
  BY <1>2, <1>4, <1>5, <1>21 DEF PromiseMoves
<1> QED
  BY <1>20, <1>22

LEMMA MakePromiseKeeps ==
    ASSUME PInv, NEW t \in Threads, NEW s \in {"UNFORCED", "FORCED"}, MakePromise(t, s)
    PROVE  PInv' /\ Becomes(t, {}) /\ UNCHANGED <<pair, produced, failed, returned, stack>>
<1> DEFINE n == Len(promise) + 1
           d == Len(content) + 1
           r == [state |-> s, code |-> IF s = "FORCED" THEN runs + 1 ELSE 0, mutex |-> NoThread]
<1>1. /\ promise \in Seq(1..Len(content)) /\ content \in Seq(ContentRecord)
      /\ Len(promise) \in Nat /\ Len(content) \in Nat /\ Len(promise) < MaxPromises
      /\ MaxPromises \in Nat /\ runs \in Nat /\ MaxRuns \in Nat
      /\ \A p \in 1..Len(promise) : promise[p] \in 1..Len(content)
  BY PromiseRange, LazyAssumption DEF PInv, MakePromise
<1>2. /\ n \in Nat /\ n \notin 1..Len(promise) /\ n >= Len(promise) /\ n <= MaxPromises
      /\ \A p \in 1..n : p \in 1..Len(promise) \/ p = n
      /\ d \in Nat /\ d \notin 1..Len(content) /\ d >= Len(content)
      /\ \A c \in 1..d : c \in 1..Len(content) \/ c = d
  BY <1>1
<1>3. /\ promise' = Append(promise, d) /\ content' = Append(content, r)
      /\ UNCHANGED <<mixed, pair, produced, failed, returned, stack>> /\ InScheme(t)
  BY DEF MakePromise, pairVars
<1>4. /\ runs' \in 0..MaxRuns /\ runs' \in Nat /\ runs' >= runs
      /\ s = "FORCED" => runs' = runs + 1
  <2>1. CASE s = "FORCED"
    BY <1>1, <2>1 DEF MakePromise
  <2>2. CASE s # "FORCED"
    BY <1>1, <2>2 DEF MakePromise, PInv, TypeInv
  <2> QED
    BY <2>1, <2>2
<1>5. r \in ContentRecord /\ r.code \in 0..runs' /\ (r.state \in Settled => r.code # 0)
  BY <1>1, <1>4 DEF ContentRecord, Settled
<1> HIDE DEF r
<1>6. /\ content' \in Seq(ContentRecord) /\ Len(content') = d /\ content'[d] = r
      /\ \A c \in 1..Len(content) : content'[c] = content[c]
  BY <1>1, <1>3, <1>5
<1>7. /\ promise' \in Seq(1..Len(content')) /\ Len(promise') = n /\ promise'[n] = d
      /\ \A p \in 1..Len(promise) : promise'[p] = promise[p]
  <2>1. promise \in Seq(1..d)
    BY <1>1
  <2> QED
    BY <1>1, <1>3, <1>6, <2>1
<1> HIDE DEF n, d
<1>8. Becomes(t, {})
  BY <1>3, StayBecomes DEF PInv
<1>9. mixed' \subseteq 1..Len(promise) /\ mixed' \subseteq 1..Len(promise')
  BY <1>1, <1>2, <1>3, <1>7 DEF PInv, TypeInv
<1>10. TypeInv'
  BY <1>2, <1>3, <1>4, <1>6, <1>7, <1>8, <1>9 DEF PInv, TypeInv, Becomes
<1>11. NestInv'
  BY <1>8, BecomesNest DEF PInv
<1>12. Grows
  BY <1>1, <1>2, <1>3, <1>4, <1>6, <1>7 DEF Grows
<1>13. ASSUME NEW u \in Threads, stack[u] # <<>>, Top(u).kind = "promise"
       PROVE  PromiseFrame(Top(u), promise', content', mixed', runs')
  <2>1. Top(u) \in FrameRecord /\ PromiseFrame(Top(u), promise, content, mixed, runs)
    BY <1>13, TopPromise
  <2>2. Top(u).at \notin Idle /\ Top(u).obj \notin mixed' =>
            Agrees(Top(u).c, promise'[Top(u).obj], content')
    BY <1>7, <1>12, <2>1, AgreementStable DEF PInv
  <2>3. Locked(Top(u)) => content'[Top(u).c] = content[Top(u).c]
    BY <1>6, <2>1 DEF Locked, PromiseFrame, Idle
  <2> QED
    BY <1>12, <1>13, <2>1, <2>2, <2>3, FrameStable DEF PInv
<1>14. PromiseFrames'
  BY <1>8, <1>12, <1>13, PromiseFramesAfter DEF PInv, PromiseInv
<1>15. ASSUME NEW u \in Threads, stack[u] # <<>>, Locked(Top(u))
       PROVE  content'[Top(u).c].mutex = content[Top(u).c].mutex
  <2>1. PromiseFrame(Top(u), promise, content, mixed, runs)
    BY <1>15, TopPromise DEF Locked
  <2> QED
    BY <1>6, <1>15, <2>1 DEF Locked, PromiseFrame, Idle
<1>16. MutexInv'
  BY <1>8, <1>15, MutexAfter DEF PInv, PromiseInv
<1>17. ContentInv'
  <2>1. ASSUME NEW c \in 1..Len(content')
        PROVE  content'[c].code \in 0..runs'
    <3>1. CASE c \in 1..Len(content)
      <4>1. content[c].code \in 0..runs
        BY <3>1 DEF PInv, PromiseInv, ContentInv
      <4> QED
        BY <1>1, <1>4, <1>6, <3>1, <4>1
    <3>2. CASE c = d
      BY <1>5, <1>6, <3>2
    <3> QED
      BY <1>2, <1>6, <3>1, <3>2
  <2>2. ASSUME NEW p \in (1..Len(promise')) \ mixed', content'[promise'[p]].state \in Settled
        PROVE  content'[promise'[p]].code # 0
    <3>1. CASE p \in 1..Len(promise)
      <4>1. content'[promise'[p]] = content[promise[p]] /\ p \notin mixed
        BY <1>1, <1>3, <1>6, <1>7, <2>2, <3>1
      <4> QED
        BY <2>2, <3>1, <4>1 DEF PInv, PromiseInv, ContentInv
    <3>2. CASE p = n
      BY <1>5, <1>6, <1>7, <2>2, <3>2
    <3> QED
      BY <1>2, <1>7, <3>1, <3>2
  <2> QED
    BY <2>1, <2>2 DEF ContentInv
<1>18. PInv'
  BY <1>10, <1>11, <1>14, <1>16, <1>17 DEF PInv, PromiseInv
<1> QED
  BY <1>3, <1>8, <1>18

\* The generator has failed on what it had failed on before.
LEMMA FailedMore ==
    ASSUME TypeInv, NEW x \in Nat \X Nat, NEW i
    PROVE  /\ Append(failed, x) \in Seq(Nat \X Nat)
           /\ FailedOn(i, failed) => FailedOn(i, Append(failed, x))
           /\ FailedOn(x[1], Append(failed, x))
<1> DEFINE s == Append(failed, x)
<1>1. failed \in Seq(Nat \X Nat)
  BY DEF TypeInv
<1>2. /\ s \in Seq(Nat \X Nat) /\ Len(s) = Len(failed) + 1 /\ s[Len(failed) + 1] = x
      /\ \A n \in 1..Len(failed) : s[n] = failed[n]
      /\ Len(failed) \in Nat
  BY <1>1
<1> HIDE DEF s
<1>3. Len(failed) + 1 \in 1..Len(s) /\ \A n \in 1..Len(failed) : n \in 1..Len(s)
  BY <1>2
<1>4. FailedOn(i, failed) => FailedOn(i, s)
  BY <1>2, <1>3 DEF FailedOn
<1>5. FailedOn(x[1], s)
  BY <1>2, <1>3 DEF FailedOn
<1> QED
  BY <1>2, <1>4, <1>5 DEF s

\* What a step may do to the lazy pairs and the failures, as far as the forces
\* that wait are concerned.
PairsGoOn ==
    /\ Len(pair') \in Nat /\ Len(pair') >= Len(pair)
    /\ \A i \in 1..Len(pair) :
          /\ pair[i].owner # NoThread =>
                pair'[i].owner # NoThread \/ FailedOn(i, failed')
          /\ ~pair[i].lazy => ~pair'[i].lazy
          /\ FailedOn(i, failed) => FailedOn(i, failed')

LEMMA PairFrameStable ==
    ASSUME TypeInv, NEW f, PairFrame(f, pair, failed), PairsGoOn
    PROVE  PairFrame(f, pair', failed')
<1>1. f.obj \in 1..Len(pair) /\ Len(pair) \in Nat
  BY DEF PairFrame, TypeInv
<1>2. f.obj \in 1..Len(pair')
  BY <1>1 DEF PairsGoOn
<1> QED
  BY <1>1, <1>2 DEF PairFrame, PairsGoOn

\* All forces of lazy pairs, after a step of t.
LEMMA PairFramesAfter ==
    ASSUME TypeInv, PairFrames, NEW t \in Threads, NEW G, Becomes(t, G), PairsGoOn,
           \A g \in G : g.kind = "pair" => PairFrame(g, pair', failed')
    PROVE  PairFrames'
<1> SUFFICES ASSUME NEW u \in Threads, NEW k \in 1..Len(stack'[u]),
                    stack'[u][k].kind = "pair"
             PROVE  PairFrame(stack'[u][k], pair', failed')
  BY DEF PairFrames, F, Depths
<1>1. ASSUME NEW v \in Threads, NEW j \in Depths(v), F(v, j).kind = "pair"
      PROVE  PairFrame(F(v, j), pair', failed')
  BY <1>1, PairFrameStable DEF PairFrames
<1>2. CASE u # t
  BY <1>1, <1>2 DEF Becomes, F, Depths
<1>3. CASE u = t
  BY <1>1, <1>3 DEF Becomes
<1> QED
  BY <1>2, <1>3

\* The pairs that have been returned, after a step.
LEMMA ReturnedAfter ==
    ASSUME TypeInv, ReturnedInv, PairsGoOn, NEW i \in 1..Len(pair),
           \/ returned' = returned
           \/ /\ returned' = returned \cup {i}
              /\ ~pair'[i].lazy \/ FailedOn(i, failed')
    PROVE  ReturnedInv'
<1>1. Len(pair) \in Nat
  BY DEF TypeInv
<1>2. \A j \in 1..Len(pair) : j \in 1..Len(pair')
  BY <1>1 DEF PairsGoOn
<1>3. returned' \subseteq 1..Len(pair)
  BY DEF ReturnedInv
<1>4. \A j \in returned : ~pair[j].lazy \/ FailedOn(j, failed)
  BY DEF ReturnedInv, ReturnedIsPair, FailedOn
<1>5. \A j \in returned' : ~pair'[j].lazy \/ FailedOn(j, failed')
  BY <1>3, <1>4 DEF PairsGoOn, ReturnedInv
<1> QED
  BY <1>2, <1>3, <1>5 DEF ReturnedInv, ReturnedIsPair, FailedOn

\* Nothing of it changes.
LEMMA PairsStay ==
    ASSUME TypeInv, UNCHANGED <<pair, failed>>
    PROVE  PairsGoOn
  BY DEF TypeInv, PairsGoOn

\* A step of a force of a promise.
LEMMA PromiseStepKeeps ==
    ASSUME QInv, NEW t \in Threads, PromiseStep(t)
    PROVE  QInv' /\ PromiseMoves(t)
<1>1. PInv' /\ PromiseMoves(t)
  BY ReadContentKeeps, ReadStateKeeps, DeliverKeeps, SnapshotKeeps, ThunkReturnsKeeps,
     ThunkRaisesKeeps, ThunkReturnsPromiseKeeps, LockContentKeeps, UnlockContentKeeps,
     WriteCodeKeeps, WriteStateKeeps, ShareContentKeeps
     DEF PromiseStep, QInv
<1>2. PairsGoOn
  BY <1>1, PairsStay DEF PromiseMoves, QInv, PInv
<1>3. PairFrames'
  <2>1. CASE Leave(t)
    <3>1. Becomes(t, {})
      BY <1>1, <2>1, LeaveBecomes DEF PromiseMoves, QInv, PInv
    <3> QED
      BY <1>2, <3>1, PairFramesAfter DEF QInv, PInv
  <2>2. CASE \E g \in FrameRecord : g.kind = "promise" /\ Set(t, g)
    <3>1. PICK g \in FrameRecord : g.kind = "promise" /\ Set(t, g)
      BY <2>2
    <3>2. Becomes(t, {g})
      BY <1>1, <3>1, SetBecomes DEF PromiseMoves, QInv, PInv
    <3> QED
      BY <1>2, <3>1, <3>2, PairFramesAfter DEF QInv, PInv
  <2> QED
    BY <1>1, <2>1, <2>2 DEF PromiseMoves
<1>4. ReturnedInv'
  BY <1>1 DEF PromiseMoves, QInv, ReturnedInv, ReturnedIsPair
<1> QED
  BY <1>1, <1>3, <1>4 DEF QInv

\* The force that takes a step.
LEMMA AtPair ==
    ASSUME QInv, NEW t \in Threads, NEW l, At(t, "pair", l)
    PROVE  /\ stack[t] # <<>> /\ Top(t) \in FrameRecord /\ Top(t).at = l
           /\ Top(t).kind = "pair" /\ Top(t) = F(t, 1) /\ 1 \in Depths(t)
           /\ PairFrame(Top(t), pair, failed)
           /\ Top(t).obj \in 1..Len(pair) /\ pair[Top(t).obj] \in PairRecord
           /\ pair \in Seq(PairRecord) /\ Len(pair) \in Nat
<1>1. /\ stack[t] # <<>> /\ Top(t) \in FrameRecord /\ Top(t) = F(t, 1) /\ 1 \in Depths(t)
      /\ Top(t).at = l /\ Top(t).kind = "pair"
  BY TopType DEF QInv, PInv, At
<1>2. PairFrame(Top(t), pair, failed)
  BY <1>1 DEF QInv, PairFrames
<1>3. Top(t).obj \in 1..Len(pair)
  BY <1>2 DEF PairFrame
<1>4. pair \in Seq(PairRecord) /\ Len(pair) \in Nat
  BY DEF QInv, PInv, TypeInv
<1> QED
  BY <1>1, <1>2, <1>3, <1>4

\* A step of a force of a lazy pair, or one that begins.
LEMMA PairMoves ==
    ASSUME QInv, NEW t \in Threads, NEW g \in FrameRecord,
           Becomes(t, {g}) \/ Becomes(t, {}),
           g.kind = "pair", PairFrame(g, pair', failed'), PairsGoOn,
           UNCHANGED <<promise, content, mixed, runs>>,
           pair' \in Seq(PairRecord), produced' \in Nat, failed' \in Seq(Nat \X Nat),
           ReturnedInv'
    PROVE  QInv'
<1>1. runs' \in Nat /\ runs' >= runs /\ runs' \in 0..MaxRuns
  BY LazyAssumption DEF QInv, PInv, TypeInv
<1>2. ~Locked(g)
  BY DEF Locked
<1>3. CASE Becomes(t, {g})
  <2>1. PromiseInv'
    BY <1>1, <1>2, <1>3, QuietStep DEF QInv, PInv
  <2>2. TypeInv'
    BY <1>1, <1>3, QuietType DEF QInv, PInv
  <2>3. NestInv'
    BY <1>3, BecomesNest DEF QInv, PInv
  <2>4. PairFrames'
    BY <1>3, PairFramesAfter DEF QInv, PInv
  <2> QED
    BY <2>1, <2>2, <2>3, <2>4 DEF QInv, PInv
<1>4. CASE Becomes(t, {})
  <2>1. PromiseInv'
    BY <1>1, <1>4, QuietStep, SMTT(30) DEF QInv, PInv
  <2>2. TypeInv'
    BY <1>1, <1>4, QuietType DEF QInv, PInv
  <2>3. NestInv'
    BY <1>4, BecomesNest DEF QInv, PInv
  <2>4. PairFrames'
    BY <1>4, PairFramesAfter DEF QInv, PInv
  <2> QED
    BY <2>1, <2>2, <2>3, <2>4 DEF QInv, PInv
<1> QED
  BY <1>3, <1>4

-----------------------------------------------------------------------------
(* Who has which lazy pair, after a step.                                      *)

\* All forces of t keep their order and move m places, but for the innermost one
\* if 1 is in D; the innermost one is a member of G now, if G is not empty.
Shifts(t, m, D, G) ==
    /\ m \in Int
    /\ \A u \in Threads \ {t} : stack'[u] = stack[u]
    /\ \A k \in 1..Len(stack'[t]) :
          \/ k = 1 /\ stack'[t][k] \in G
          \/ k + m \in Depths(t) \ D /\ stack'[t][k] = F(t, k + m)
    /\ \A k \in Depths(t) \ D : k - m \in 1..Len(stack'[t]) /\ stack'[t][k - m] = F(t, k)
    /\ \A g \in G : 1 \in 1..Len(stack'[t]) /\ stack'[t][1] = g

LEMMA SetShifts ==
    ASSUME TypeInv, NEW t \in Threads, stack[t] # <<>>, NEW g \in FrameRecord, Set(t, g)
    PROVE  Shifts(t, 0, {1}, {g})
<1>1. /\ \A u \in Threads : Len(stack'[u]) = Len(stack[u])
      /\ \A u \in Threads \ {t} : stack'[u] = stack[u]
      /\ stack'[t] # <<>> /\ stack'[t][1] = g
      /\ \A k \in Depths(t) : k > 1 => stack'[t][k] = stack[t][k]
  BY SetEffect
<1>2. Len(stack[t]) \in Nat /\ Len(stack[t]) > 0
  BY DEF TypeInv
<1> QED
  BY <1>1, <1>2 DEF Shifts, F, Depths

LEMMA LeaveShifts ==
    ASSUME TypeInv, NEW t \in Threads, stack[t] # <<>>, Leave(t)
    PROVE  Shifts(t, 1, {1}, {})
<1>1. /\ Len(stack'[t]) = Len(stack[t]) - 1
      /\ \A u \in Threads \ {t} : stack'[u] = stack[u]
      /\ \A k \in 1..Len(stack'[t]) : stack'[t][k] = stack[t][k + 1] /\ k + 1 \in Depths(t)
  BY LeaveEffect
<1>2. Len(stack[t]) \in Nat /\ Len(stack[t]) > 0
  BY DEF TypeInv
<1>3. ASSUME NEW k \in Depths(t) \ {1}
      PROVE  k - 1 \in 1..Len(stack'[t]) /\ stack'[t][k - 1] = F(t, k)
  <2>1. k - 1 \in 1..Len(stack'[t]) /\ (k - 1) + 1 = k
    BY <1>1, <1>2 DEF Depths
  <2> QED
    BY <2>1, <1>1 DEF F
<1> QED
  BY <1>1, <1>3 DEF Shifts, F

LEMMA PushShifts ==
    ASSUME TypeInv, NEW t \in Threads, NEW g \in FrameRecord, Push(t, g)
    PROVE  Shifts(t, -1, {}, {g})
<1>1. /\ Len(stack'[t]) = Len(stack[t]) + 1
      /\ \A u \in Threads \ {t} : stack'[u] = stack[u]
      /\ stack'[t][1] = g
      /\ \A k \in 1..Len(stack'[t]) : k > 1 => /\ stack'[t][k] = stack[t][k - 1]
                                               /\ k - 1 \in Depths(t)
  BY PushEffect
<1>2. Len(stack[t]) \in Nat
  BY DEF TypeInv
<1>3. ASSUME NEW k \in Depths(t)
      PROVE  k - (-1) \in 1..Len(stack'[t]) /\ stack'[t][k - (-1)] = F(t, k)
  <2>1. k - (-1) = k + 1 /\ k + 1 \in 1..Len(stack'[t]) /\ k + 1 > 1 /\ (k + 1) - 1 = k
    BY <1>1, <1>2 DEF Depths
  <2> QED
    BY <2>1, <1>1 DEF F
<1>4. ASSUME NEW k \in 1..Len(stack'[t]), k # 1
      PROVE  k + (-1) \in Depths(t) /\ stack'[t][k] = F(t, k + (-1))
  <2>1. k > 1 /\ k + (-1) = k - 1
    BY <1>4
  <2> QED
    BY <2>1, <1>1 DEF F
<1>5. 1 \in 1..Len(stack'[t])
  BY <1>1, <1>2
<1> QED
  BY <1>1, <1>3, <1>4, <1>5 DEF Shifts

LEMMA StayShifts ==
    ASSUME TypeInv, NEW t \in Threads, UNCHANGED stack
    PROVE  Shifts(t, 0, {}, {})
  BY DEF TypeInv, Shifts, F, Depths

\* Where the forces that have a pair come from, and where they go.
LEMMA OwnersAfter ==
    ASSUME NEW t \in Threads, NEW m, NEW D, NEW G, Shifts(t, m, D, G)
    PROVE  /\ \A u \in Threads : \A k \in 1..Len(stack'[u]) :
                 \/ u # t /\ k \in Depths(u) /\ stack'[u][k] = F(u, k)
                 \/ u = t /\ k + m \in Depths(t) \ D /\ stack'[u][k] = F(t, k + m)
                 \/ u = t /\ k = 1 /\ stack'[u][k] \in G
           /\ \A u \in Threads : \A k \in Depths(u) :
                 \/ u = t /\ k \in D
                 \/ \E j \in 1..Len(stack'[u]) : stack'[u][j] = F(u, k)
  BY DEF Shifts, Depths, F

\* Forces that keep their pair, which does not change, keep what they rely on.
LEMMA OwnAfter ==
    ASSUME TypeInv, OwnInv, NEW t \in Threads, NEW m, NEW D, NEW G, Shifts(t, m, D, G),
           NEW i, Len(pair') \in Nat, Len(pair') >= Len(pair),
           \A j \in 1..Len(pair) : j # i => pair'[j] = pair[j],
           \A u \in Threads : \A k \in Depths(u) :
               OwnsAt(u, k, i) => u = t /\ k = 1 /\ 1 \in D,
           \A g \in G : Owns(g) => g.obj = i /\ OwnerFrame(t, g, pair'),
           \A j \in 1..Len(pair') : ~pair'[j].lazy => pair'[j].owner = Desc
    PROVE  OwnInv'
<1>1. Len(pair) \in Nat /\ m \in Int
  BY DEF TypeInv, Shifts
<1>2. ASSUME NEW u \in Threads, NEW k \in Depths(u), Owns(F(u, k)), u # t \/ k \notin D
      PROVE  F(u, k).obj # i /\ OwnerFrame(u, F(u, k), pair')
  <2>1. F(u, k).obj # i
    BY <1>2 DEF OwnsAt
  <2>2. OwnerFrame(u, F(u, k), pair)
    BY <1>2 DEF OwnInv
  <2>3. F(u, k).obj \in 1..Len(pair) /\ F(u, k).obj \in 1..Len(pair')
    BY <1>1, <2>2 DEF OwnerFrame
  <2>4. pair'[F(u, k).obj] = pair[F(u, k).obj]
    BY <2>1, <2>3
  <2> QED
    BY <2>1, <2>2, <2>3, <2>4 DEF OwnerFrame
<1>3. ASSUME NEW u \in Threads, NEW k \in 1..Len(stack'[u]), Owns(stack'[u][k])
      PROVE  /\ OwnerFrame(u, stack'[u][k], pair')
             /\ \/ u = t /\ k = 1 /\ stack'[u][k] \in G /\ stack'[u][k].obj = i
                \/ /\ stack'[u][k].obj # i
                   /\ \/ u # t /\ k \in Depths(u) /\ stack'[u][k] = F(u, k)
                      \/ u = t /\ k + m \in Depths(t) /\ stack'[u][k] = F(t, k + m)
  <2>1. CASE u # t /\ k \in Depths(u) /\ stack'[u][k] = F(u, k)
    BY <1>2, <1>3, <2>1
  <2>2. CASE u = t /\ k + m \in Depths(t) \ D /\ stack'[u][k] = F(t, k + m)
    BY <1>2, <1>3, <2>2
  <2>3. CASE u = t /\ k = 1 /\ stack'[u][k] \in G
    BY <1>3, <2>3
  <2> QED
    BY <2>1, <2>2, <2>3, OwnersAfter
<1>4. ASSUME NEW u \in Threads, NEW v \in Threads,
             NEW k \in 1..Len(stack'[u]), NEW j \in 1..Len(stack'[v]),
             Owns(stack'[u][k]), Owns(stack'[v][j]), stack'[u][k].obj = stack'[v][j].obj
      PROVE  u = v /\ k = j
  <2>1. CASE stack'[u][k].obj = i
    <3>1. u = t /\ k = 1
      BY <1>3, <1>4, <2>1
    <3>2. v = t /\ j = 1
      BY <1>3, <1>4, <2>1
    <3> QED
      BY <3>1, <3>2
  <2>2. CASE stack'[u][k].obj # i
    <3>1. \/ u # t /\ k \in Depths(u) /\ stack'[u][k] = F(u, k)
          \/ u = t /\ k + m \in Depths(t) /\ stack'[u][k] = F(t, k + m)
      BY <1>3, <1>4, <2>2
    <3>2. \/ v # t /\ j \in Depths(v) /\ stack'[v][j] = F(v, j)
          \/ v = t /\ j + m \in Depths(t) /\ stack'[v][j] = F(t, j + m)
      BY <1>3, <1>4, <2>2
    <3>3. CASE u # t /\ v # t
      BY <1>4, <3>1, <3>2, <3>3 DEF OwnInv
    <3>4. CASE u = t /\ v = t
      <4>1. k + m = j + m
        BY <1>4, <3>1, <3>2, <3>4 DEF OwnInv
      <4> QED
        BY <4>1, <1>1, <3>4
    <3>5. CASE u = t /\ v # t
      BY <1>4, <3>1, <3>2, <3>5 DEF OwnInv
    <3>6. CASE u # t /\ v = t
      BY <1>4, <3>1, <3>2, <3>6 DEF OwnInv
    <3> QED
      BY <3>3, <3>4, <3>5, <3>6
  <2> QED
    BY <2>1, <2>2
<1>5. (\A u \in Threads : \A k \in Depths(u) : Owns(F(u, k)) => OwnerFrame(u, F(u, k), pair))'
  BY <1>3 DEF Depths, F, Owns, OwnerFrame
<1>6. (\A u, v \in Threads : \A k \in Depths(u), j \in Depths(v) :
          Owns(F(u, k)) /\ Owns(F(v, j)) /\ F(u, k).obj = F(v, j).obj => u = v /\ k = j)'
  BY <1>4 DEF Depths, F, Owns
<1> QED
  BY <1>5, <1>6 DEF OwnInv

\* What Item is, from the fact that no two forces have the same lazy pair.
LEMMA ItemsDefined == TypeInv /\ OwnInv => ItemInv
<1> SUFFICES ASSUME TypeInv, OwnInv, NEW i \in 1..Len(pair)
             PROVE  /\ ~pair[i].lazy => Item(i) = pair[i].car
                    /\ \A t \in Threads : \A k \in Depths(t) :
                           OwnsAt(t, k, i) => Item(i) = F(t, k).val
                    /\ pair[i].lazy
                          /\ (\A t \in Threads : \A k \in Depths(t) : ~OwnsAt(t, k, i))
                       => Item(i) = pair[i].slot
  BY DEF ItemInv
<1> DEFINE P(f) == /\ stack[f[1]][f[2]].kind = "pair"
                   /\ stack[f[1]][f[2]].obj = i
                   /\ stack[f[1]][f[2]].at \in {"apply", "desc", "car"}
<1>1. \A f \in Frames : /\ f[1] \in Threads /\ f[2] \in Depths(f[1])
                        /\ P(f) => OwnsAt(f[1], f[2], i)
  <2>1. MaxDepth \in Nat /\ \A t \in Threads : Len(stack[t]) \in Nat
    BY LazyAssumption DEF TypeInv
  <2> QED
    BY <2>1 DEF Frames, Depths, OwnsAt, Owns, F
<1>2. ASSUME NEW t \in Threads, NEW k \in Depths(t), OwnsAt(t, k, i)
      PROVE  /\ <<t, k>> \in Frames /\ P(<<t, k>>)
             /\ \A f \in Frames : P(f) => f[1] = t /\ f[2] = k
  <2>1. MaxDepth \in Nat /\ Len(stack[t]) \in Nat /\ Len(stack[t]) <= MaxDepth
    BY LazyAssumption DEF TypeInv
  <2>2. k \in 1..MaxDepth /\ k <= Len(stack[t])
    BY <2>1 DEF Depths
  <2>3. <<t, k>> \in Frames
    BY <2>2 DEF Frames
  <2>4. P(<<t, k>>)
    BY <1>2 DEF OwnsAt, Owns, F
  <2>5. \A f \in Frames : P(f) => f[1] = t /\ f[2] = k
    BY <1>1, <1>2 DEF OwnInv, OwnsAt
  <2> QED
    BY <2>3, <2>4, <2>5
<1>3. ~pair[i].lazy => Item(i) = pair[i].car
  BY DEF Item
<1>4. ASSUME NEW t \in Threads, NEW k \in Depths(t), OwnsAt(t, k, i)
      PROVE  Item(i) = F(t, k).val
  <2>1. pair[i].lazy
    BY <1>4 DEF OwnInv, OwnsAt, OwnerFrame
  <2>2. \E f \in Frames : P(f)
    BY <1>2, <1>4
  <2> DEFINE c == CHOOSE f \in Frames : P(f)
  <2>3. c \in Frames /\ P(c)
    BY <2>2
  <2>4. Item(i) = stack[c[1]][c[2]].val
    BY <2>1, <2>2 DEF Item
  <2> HIDE DEF c
  <2>5. c[1] = t /\ c[2] = k
    BY <1>2, <1>4, <2>3
  <2> QED
    BY <2>4, <2>5 DEF F
<1>5. ASSUME pair[i].lazy, \A t \in Threads : \A k \in Depths(t) : ~OwnsAt(t, k, i)
      PROVE  Item(i) = pair[i].slot
  <2>1. ~\E f \in Frames : P(f)
    BY <1>1, <1>5
  <2> QED
    BY <1>5, <2>1 DEF Item
<1> QED
  BY <1>3, <1>4, <1>5

\* A pair that does not change keeps its item, if the forces that have it go on.
LEMMA ItemsAfter ==
    ASSUME OwnInv, ItemInv, ItemInv', NEW t \in Threads, NEW m, NEW D, NEW G,
           Shifts(t, m, D, G), NEW i \in 1..Len(pair), i \in 1..Len(pair'),
           pair'[i] = pair[i],
           \A k \in Depths(t) \cap D : ~OwnsAt(t, k, i),
           \A g \in G : Owns(g) => g.obj # i
    PROVE  Item(i)' = Item(i) /\ (Extended(i)' <=> Extended(i))
<1>1. \A u \in Threads : \A k \in Depths(u) : OwnsAt(u, k, i) =>
          \E j \in 1..Len(stack'[u]) : stack'[u][j] = F(u, k)
  BY OwnersAfter
<1>2. \A u \in Threads : \A k \in 1..Len(stack'[u]) :
          Owns(stack'[u][k]) /\ stack'[u][k].obj = i =>
              \E j \in Depths(u) : OwnsAt(u, j, i) /\ stack'[u][k] = F(u, j)
  BY OwnersAfter DEF OwnsAt
<1>3. \A u \in Threads : \A k \in 1..Len(stack'[u]) :
          Owns(stack'[u][k]) /\ stack'[u][k].obj = i => Item(i)' = stack'[u][k].val
  BY DEF ItemInv, OwnsAt, Depths, F, Owns
<1>4. Extended(i)' <=> Extended(i)
  <2>1. Extended(i) => Extended(i)'
    <3>1. ASSUME NEW u \in Threads, NEW k \in Depths(u), OwnsAt(u, k, i),
                 F(u, k).at # "apply"
          PROVE  Extended(i)'
      <4>1. PICK j \in 1..Len(stack'[u]) : stack'[u][j] = F(u, k)
        BY <1>1, <3>1
      <4>2. /\ Owns(stack'[u][j]) /\ stack'[u][j].obj = i /\ stack'[u][j].at # "apply"
        BY <3>1, <4>1 DEF OwnsAt
      <4> QED
        BY <4>2 DEF Extended, OwnsAt, Depths, F, Owns
    <3>2. ~pair[i].lazy => Extended(i)'
      BY DEF Extended
    <3> QED
      BY <3>1, <3>2 DEF Extended
  <2>2. Extended(i)' => Extended(i)
    <3>1. ASSUME NEW u \in Threads, NEW k \in 1..Len(stack'[u]), Owns(stack'[u][k]),
                 stack'[u][k].obj = i, stack'[u][k].at # "apply"
          PROVE  Extended(i)
      <4>1. PICK j \in Depths(u) : OwnsAt(u, j, i) /\ stack'[u][k] = F(u, j)
        BY <1>2, <3>1
      <4> QED
        BY <3>1, <4>1 DEF Extended
    <3>2. Extended(i)' <=>
              \/ ~pair'[i].lazy
              \/ \E u \in Threads : \E k \in 1..Len(stack'[u]) :
                     /\ Owns(stack'[u][k]) /\ stack'[u][k].obj = i
                     /\ stack'[u][k].at # "apply"
      BY DEF Extended, OwnsAt, Depths, F, Owns
    <3>3. ~pair'[i].lazy => Extended(i)
      BY DEF Extended
    <3> QED
      BY <3>1, <3>2, <3>3
  <2> QED
    BY <2>1, <2>2
<1>5. CASE ~pair[i].lazy
  BY <1>4, <1>5 DEF ItemInv
<1>6. CASE \E u \in Threads : \E k \in Depths(u) : OwnsAt(u, k, i)
  <2>0. PICK u \in Threads : \E k \in Depths(u) : OwnsAt(u, k, i)
    BY <1>6
  <2>1. PICK k \in Depths(u) : OwnsAt(u, k, i)
    BY <2>0
  <2>2. Item(i) = F(u, k).val
    BY <2>1 DEF ItemInv
  <2>3. PICK j \in 1..Len(stack'[u]) : stack'[u][j] = F(u, k)
    BY <1>1, <2>1
  <2>4. Item(i)' = stack'[u][j].val
    BY <1>3, <2>1, <2>3 DEF OwnsAt
  <2> QED
    BY <1>4, <2>2, <2>3, <2>4
<1>7. CASE pair[i].lazy /\ \A u \in Threads : \A k \in Depths(u) : ~OwnsAt(u, k, i)
  <2>1. Item(i) = pair[i].slot
    BY <1>7 DEF ItemInv
  <2>2. \A u \in Threads : \A k \in 1..Len(stack'[u]) :
            ~(Owns(stack'[u][k]) /\ stack'[u][k].obj = i)
    BY <1>2, <1>7
  <2>3. (\A u \in Threads : \A k \in Depths(u) : ~OwnsAt(u, k, i))'
    BY <2>2 DEF OwnsAt, Depths, F, Owns
  <2>4. Item(i)' = pair'[i].slot
    BY <1>7, <2>3 DEF ItemInv
  <2> QED
    BY <1>4, <2>1, <2>4
<1> QED
  BY <1>5, <1>6, <1>7

\* The list of the pairs stays as it is.
LEMMA ListAfter ==
    ASSUME TypeInv, ListInv, Len(pair') = Len(pair), UNCHANGED Made,
           \A n \in 1..Len(failed') : failed'[n][2] \in 0..produced',
           \A i \in 1..Len(pair) :
               /\ pair'[i].target = pair[i].target
               /\ Item(i)' = Item(i)
               /\ pair[i].target = 0 =>
                     /\ Extended(i)' <=> Extended(i)
                     /\ Extended(i) => pair'[i].slot = pair[i].slot
    PROVE  ListInv'
<1>1. GeneratorPairs' = GeneratorPairs
  BY DEF GeneratorPairs
<1>2. \A i \in GeneratorPairs :
          /\ Item(i)' = Item(i) /\ (Extended(i)' <=> Extended(i))
          /\ Extended(i) => pair'[i].slot = pair[i].slot
  BY DEF GeneratorPairs
<1>3. {Item(i) : i \in GeneratorPairs}' = {Item(i) : i \in GeneratorPairs}
  BY <1>1, <1>2
<1>4. (\A i, j \in GeneratorPairs : ~Extended(i) => j <= i)'
  BY <1>1, <1>2 DEF ListInv
<1>5. (\A i \in GeneratorPairs :
          Extended(i) => /\ pair[i].slot \in 0..Len(pair)
                         /\ \A j \in GeneratorPairs :
                                pair[i].slot # 0 /\ j > i => pair[i].slot <= j)'
  BY <1>1, <1>2 DEF ListInv
<1>6. (\A i, j \in GeneratorPairs : i < j => Item(i) < Item(j))'
  BY <1>1, <1>2 DEF ListInv
<1>7. {Item(i) : i \in GeneratorPairs}' = Made'
  BY <1>3 DEF ListInv
<1> QED
  BY <1>4, <1>5, <1>6, <1>7 DEF ListInv

\* A step that changes no pair, of a force that has none.
LEMMA IdleKeeps ==
    ASSUME TypeInv, TypeInv', OwnInv, ListInv, NEW t \in Threads, NEW m, NEW D, NEW G,
           Shifts(t, m, D, G), UNCHANGED <<pair, produced, failed>>,
           \A g \in G : ~Owns(g), \A k \in Depths(t) \cap D : ~Owns(F(t, k))
    PROVE  OwnInv' /\ ListInv'
<1>1. ItemInv
  BY ItemsDefined
<1>2. Len(pair) \in Nat
  BY DEF TypeInv
<1>3. OwnInv'
  <2>1. \A u \in Threads : \A k \in Depths(u) : ~OwnsAt(u, k, 0)
    BY DEF OwnInv, OwnsAt, OwnerFrame
  <2>2. /\ Len(pair') \in Nat /\ Len(pair') >= Len(pair)
        /\ \A j \in 1..Len(pair) : j # 0 => pair'[j] = pair[j]
        /\ \A j \in 1..Len(pair') : ~pair'[j].lazy => pair'[j].owner = Desc
    BY <1>2 DEF OwnInv
  <2> QED
    BY <2>1, <2>2, OwnAfter
<1>4. ItemInv'
  BY <1>3, ItemsDefined, PTL
<1>5. \A i \in 1..Len(pair) : Item(i)' = Item(i) /\ (Extended(i)' <=> Extended(i))
  <2>1. \A i : \A k \in Depths(t) \cap D : ~OwnsAt(t, k, i)
    BY DEF OwnsAt
  <2> QED
    BY <1>1, <1>4, <2>1, ItemsAfter
<1>6. UNCHANGED Made /\ \A n \in 1..Len(failed') : failed'[n][2] \in 0..produced'
  BY DEF Made, ListInv
<1> QED
  BY <1>3, <1>5, <1>6, ListAfter

-----------------------------------------------------------------------------
(* The steps that leave the pairs alone.                                       *)

LEMMA PromiseStepInv ==
    ASSUME Inv, NEW t \in Threads, PromiseStep(t)
    PROVE  Inv'
<1>1. QInv' /\ PromiseMoves(t)
  BY PromiseStepKeeps DEF Inv
<1>2. TypeInv /\ TypeInv' /\ OwnInv /\ ListInv
  BY <1>1 DEF Inv, QInv, PInv
<1>3. ~Owns(F(t, 1)) /\ stack[t] # <<>> /\ UNCHANGED <<pair, produced, failed>>
  BY <1>1 DEF PromiseMoves, Owns, F, Top
<1>4. OwnInv' /\ ListInv'
  <2>1. CASE Leave(t)
    <3>1. Shifts(t, 1, {1}, {})
      BY <1>2, <1>3, <2>1, LeaveShifts
    <3> QED
      BY <1>2, <1>3, <3>1, IdleKeeps
  <2>2. CASE \E g \in FrameRecord : g.kind = "promise" /\ Set(t, g)
    <3>1. PICK g \in FrameRecord : g.kind = "promise" /\ Set(t, g)
      BY <2>2
    <3>2. Shifts(t, 0, {1}, {g}) /\ ~Owns(g)
      BY <1>2, <1>3, <3>1, SetShifts DEF Owns
    <3> QED
      BY <1>2, <1>3, <3>2, IdleKeeps
  <2> QED
    BY <1>1, <2>1, <2>2 DEF PromiseMoves
<1> QED
  BY <1>1, <1>4 DEF Inv

LEMMA CallForceInv ==
    ASSUME Inv, NEW t \in Threads, NEW p \in 1..MaxPromises, CallForce(t, p)
    PROVE  Inv'
<1> DEFINE g == Frame("promise", p)
<1>1. PInv'
  BY CallForceKeeps DEF Inv, QInv
<1>2. TypeInv /\ TypeInv' /\ NestInv /\ OwnInv /\ ListInv /\ PairFrames /\ ReturnedInv
  BY <1>1 DEF Inv, QInv, PInv
<1>3. g \in FrameRecord /\ g.kind = "promise"
  BY FrameBegins
<1>4. InScheme(t) /\ Push(t, g) /\ UNCHANGED <<pair, produced, failed, returned>>
  BY DEF CallForce, pairVars
<1> HIDE DEF g
<1>5. Becomes(t, {g}) /\ Shifts(t, -1, {}, {g}) /\ ~Owns(g)
  BY <1>2, <1>3, <1>4, PushBecomes, PushShifts DEF Owns
<1>6. OwnInv' /\ ListInv'
  BY <1>2, <1>4, <1>5, IdleKeeps
<1>7. PairFrames'
  BY <1>2, <1>3, <1>4, <1>5, PairsStay, PairFramesAfter
<1>8. ReturnedInv'
  BY <1>2, <1>4 DEF ReturnedInv, ReturnedIsPair
<1> QED
  BY <1>1, <1>6, <1>7, <1>8 DEF Inv, QInv

LEMMA MakePromiseInv ==
    ASSUME Inv, NEW t \in Threads, NEW s \in {"UNFORCED", "FORCED"}, MakePromise(t, s)
    PROVE  Inv'
<1>1. /\ PInv' /\ Becomes(t, {})
      /\ UNCHANGED <<pair, produced, failed, returned, stack>>
  BY MakePromiseKeeps DEF Inv, QInv
<1>2. TypeInv /\ TypeInv' /\ NestInv /\ OwnInv /\ ListInv /\ PairFrames /\ ReturnedInv
  BY <1>1 DEF Inv, QInv, PInv
<1>3. Shifts(t, 0, {}, {})
  BY <1>1, <1>2, StayShifts
<1>4. OwnInv' /\ ListInv'
  BY <1>1, <1>2, <1>3, IdleKeeps
<1>5. PairFrames' /\ ReturnedInv'
  BY <1>1, <1>2 DEF PairFrames, ReturnedInv, ReturnedIsPair, F, Depths
<1> QED
  BY <1>1, <1>4, <1>5 DEF Inv, QInv

LEMMA TerminateInv ==
    ASSUME Inv, NEW t \in Threads, Terminate(t)
    PROVE  Inv'
<1>1. /\ InScheme(t) /\ UNCHANGED <<promise, content, mixed, runs, pair, produced, failed>>
      /\ UNCHANGED <<returned, stack>>
  BY DEF Terminate, promiseVars, pairVars
<1>2. TypeInv /\ NestInv /\ OwnInv /\ ListInv
  BY DEF Inv, QInv, PInv
<1>3. Becomes(t, {}) /\ Shifts(t, 0, {}, {})
  BY <1>1, <1>2, StayBecomes, StayShifts
<1>4. TypeInv'
  BY <1>1, <1>2 DEF TypeInv
<1>5. OwnInv' /\ ListInv'
  BY <1>1, <1>2, <1>3, <1>4, IdleKeeps
<1>6. PromiseInv' /\ NestInv' /\ PairFrames' /\ ReturnedInv'
  BY <1>1 DEF Inv, QInv, PInv, PromiseInv, PromiseFrames, MutexInv, ContentInv,
     NestInv, PairFrames, ReturnedInv, ReturnedIsPair, F, Depths, Top
<1> QED
  BY <1>4, <1>5, <1>6 DEF Inv, QInv, PInv

\* A step of a force of a lazy pair that has not taken it.
LEMMA LookKeeps ==
    ASSUME Inv, NEW t \in Threads, NEW g \in FrameRecord, NEW m, NEW D, NEW G,
           G = {g} \/ G = {}, Becomes(t, G), Shifts(t, m, D, G),
           g.kind = "pair", PairFrame(g, pair, failed),
           ~Owns(g), \A k \in Depths(t) \cap D : ~Owns(F(t, k)),
           UNCHANGED <<promise, content, mixed, runs, pair, produced, failed>>,
           ReturnedInv'
    PROVE  Inv'
<1>1. TypeInv /\ OwnInv /\ ListInv
  BY DEF Inv, QInv, PInv
<1>2. pair' \in Seq(PairRecord) /\ produced' \in Nat /\ failed' \in Seq(Nat \X Nat)
  BY <1>1 DEF TypeInv
<1>3. QInv'
  BY <1>1, <1>2, PairsStay, PairMoves DEF Inv
<1>4. TypeInv'
  BY <1>3 DEF QInv, PInv
<1>5. OwnInv' /\ ListInv'
  BY <1>1, <1>4, IdleKeeps
<1> QED
  BY <1>3, <1>5 DEF Inv

LEMMA CallPairPInv ==
    ASSUME Inv, NEW t \in Threads, NEW i \in 1..Len(pair), CallPairP(t, i)
    PROVE  Inv'
<1> DEFINE g == Frame("pair", i)
<1>1. TypeInv /\ NestInv /\ ReturnedInv
  BY DEF Inv, QInv, PInv
<1>2. g \in FrameRecord /\ g.kind = "pair" /\ g.obj = i /\ g.at = "enter"
  BY FrameBegins
<1>3. /\ InScheme(t) /\ Push(t, g)
      /\ UNCHANGED <<promise, content, mixed, runs, pair, produced, failed, returned>>
  BY DEF CallPairP, promiseVars, pairVars
<1> HIDE DEF g
<1>4. Becomes(t, {g}) /\ Shifts(t, -1, {}, {g})
  BY <1>1, <1>2, <1>3, PushBecomes, PushShifts
<1>5. PairFrame(g, pair, failed) /\ ~Owns(g)
  BY <1>2 DEF PairFrame, PairLabels, Owns
<1>6. ReturnedInv'
  BY <1>1, <1>3 DEF ReturnedInv, ReturnedIsPair
<1> QED
  BY <1>2, <1>3, <1>4, <1>5, <1>6, LookKeeps

LEMMA CheckRecursiveInv ==
    ASSUME Inv, NEW t \in Threads, CheckRecursive(t)
    PROVE  Inv'
<1> DEFINE g == [Top(t) EXCEPT !.at = "wait"]
<1>1. TypeInv /\ NestInv /\ ReturnedInv /\ QInv /\ OwnInv
  BY DEF Inv, QInv, PInv
<1>2. At(t, "pair", "owned")
  BY DEF CheckRecursive
<1>3. /\ stack[t] # <<>> /\ Top(t) \in FrameRecord /\ Top(t).at = "owned"
      /\ Top(t).kind = "pair" /\ Top(t) = F(t, 1) /\ 1 \in Depths(t)
      /\ PairFrame(Top(t), pair, failed)
      /\ Top(t).obj \in 1..Len(pair) /\ pair[Top(t).obj] \in PairRecord
  BY <1>1, <1>2, AtPair
<1>4. /\ g \in FrameRecord /\ g.kind = "pair" /\ g.obj = Top(t).obj /\ g.at = "wait"
  BY <1>3 DEF FrameRecord, PairLabels
<1>5. /\ Leave(t) \/ Set(t, g)
      /\ UNCHANGED <<promise, content, mixed, runs, pair, produced, failed, returned>>
  BY DEF CheckRecursive, promiseVars, pairVars, Goto
<1> HIDE DEF g
<1>6. PairFrame(g, pair, failed) /\ ~Owns(g) /\ ~Owns(F(t, 1))
  BY <1>3, <1>4 DEF PairFrame, PairLabels, Owns
<1>7. ReturnedInv'
  BY <1>1, <1>5 DEF ReturnedInv, ReturnedIsPair
<1>8. CASE Leave(t)
  <2>1. Becomes(t, {}) /\ Shifts(t, 1, {1}, {})
    BY <1>1, <1>3, <1>8, LeaveBecomes, LeaveShifts
  <2> QED
    BY <1>4, <1>5, <1>6, <1>7, <2>1, LookKeeps
<1>9. CASE Set(t, g)
  <2>1. Becomes(t, {g}) /\ Shifts(t, 0, {1}, {g})
    BY <1>1, <1>3, <1>4, <1>9, SetBecomes, SetShifts
  <2> QED
    BY <1>4, <1>5, <1>6, <1>7, <2>1, LookKeeps
<1> QED
  BY <1>5, <1>8, <1>9

LEMMA WaitInv ==
    ASSUME Inv, NEW t \in Threads, Wait(t)
    PROVE  Inv'
<1> DEFINE g == [Top(t) EXCEPT !.at = "retry"]
<1>1. TypeInv /\ NestInv /\ ReturnedInv /\ QInv /\ OwnInv
  BY DEF Inv, QInv, PInv
<1>2. At(t, "pair", "wait")
  BY DEF Wait
<1>3. /\ stack[t] # <<>> /\ Top(t) \in FrameRecord /\ Top(t).at = "wait"
      /\ Top(t).kind = "pair" /\ Top(t) = F(t, 1) /\ 1 \in Depths(t)
      /\ PairFrame(Top(t), pair, failed)
      /\ Top(t).obj \in 1..Len(pair) /\ pair[Top(t).obj] \in PairRecord
  BY <1>1, <1>2, AtPair
<1>4. /\ g \in FrameRecord /\ g.kind = "pair" /\ g.obj = Top(t).obj /\ g.at = "retry"
  BY <1>3 DEF FrameRecord, PairLabels
<1>5. /\ Set(t, g)
      /\ ~pair[Top(t).obj].lazy \/ pair[Top(t).obj].owner = NoThread
      /\ UNCHANGED <<promise, content, mixed, runs, pair, produced, failed, returned>>
  BY DEF Wait, promiseVars, pairVars, Goto
<1> HIDE DEF g
<1>6. PairFrame(g, pair, failed) /\ ~Owns(g) /\ ~Owns(F(t, 1))
  BY <1>3, <1>4, <1>5 DEF PairFrame, PairLabels, Owns
<1>7. ReturnedInv'
  BY <1>1, <1>5 DEF ReturnedInv, ReturnedIsPair
<1>8. Becomes(t, {g}) /\ Shifts(t, 0, {1}, {g})
  BY <1>1, <1>3, <1>4, <1>5, SetBecomes, SetShifts
<1> QED
  BY <1>4, <1>5, <1>6, <1>7, <1>8, LookKeeps

LEMMA RetryInv ==
    ASSUME Inv, NEW t \in Threads, Retry(t)
    PROVE  Inv'
<1> DEFINE g == [Top(t) EXCEPT !.at = "enter"]
<1>1. TypeInv /\ NestInv /\ ReturnedInv /\ QInv /\ OwnInv
  BY DEF Inv, QInv, PInv
<1>2. At(t, "pair", "retry")
  BY DEF Retry
<1>3. /\ stack[t] # <<>> /\ Top(t) \in FrameRecord /\ Top(t).at = "retry"
      /\ Top(t).kind = "pair" /\ Top(t) = F(t, 1) /\ 1 \in Depths(t)
      /\ PairFrame(Top(t), pair, failed)
      /\ Top(t).obj \in 1..Len(pair) /\ pair[Top(t).obj] \in PairRecord
  BY <1>1, <1>2, AtPair
<1>4. /\ g \in FrameRecord /\ g.kind = "pair" /\ g.obj = Top(t).obj /\ g.at = "enter"
  BY <1>3 DEF FrameRecord, PairLabels
<1>5. /\ \/ Set(t, g) /\ UNCHANGED returned
         \/ Leave(t) /\ returned' = returned \cup {Top(t).obj}
      /\ UNCHANGED <<promise, content, mixed, runs, pair, produced, failed>>
  BY DEF Retry, promiseVars, Goto
<1> HIDE DEF g
<1>6. PairFrame(g, pair, failed) /\ ~Owns(g) /\ ~Owns(F(t, 1))
  BY <1>3, <1>4 DEF PairFrame, PairLabels, Owns
<1>7. ReturnedInv'
  <2>1. ~pair[Top(t).obj].lazy \/ FailedOn(Top(t).obj, failed)
    BY <1>3 DEF PairFrame
  <2> QED
    BY <1>1, <1>3, <1>5, <2>1, PairsStay, ReturnedAfter
<1>8. CASE Leave(t)
  <2>1. Becomes(t, {}) /\ Shifts(t, 1, {1}, {})
    BY <1>1, <1>3, <1>8, LeaveBecomes, LeaveShifts
  <2> QED
    BY <1>4, <1>5, <1>6, <1>7, <2>1, LookKeeps
<1>9. CASE Set(t, g)
  <2>1. Becomes(t, {g}) /\ Shifts(t, 0, {1}, {g})
    BY <1>1, <1>3, <1>4, <1>9, SetBecomes, SetShifts
  <2> QED
    BY <1>4, <1>5, <1>6, <1>7, <2>1, LookKeeps
<1> QED
  BY <1>5, <1>8, <1>9

-----------------------------------------------------------------------------
(* The steps of the force that has the pair, and the one that takes it.        *)

\* A pair that changes.
LEMMA PairChange ==
    ASSUME TypeInv, NEW i \in 1..Len(pair), NEW r \in PairRecord,
           pair' = [pair EXCEPT ![i] = r]
    PROVE  /\ pair' \in Seq(PairRecord) /\ Len(pair') = Len(pair) /\ pair'[i] = r
           /\ \A j \in 1..Len(pair) : j # i => pair'[j] = pair[j]
           /\ Len(pair') \in Nat /\ Len(pair') >= Len(pair)
  BY DEF TypeInv

\* The force that takes a step is the only one that has the pair.
LEMMA OnlyOwner ==
    ASSUME OwnInv, NEW t \in Threads, 1 \in Depths(t),
           Owns(F(t, 1)) \/ pair[F(t, 1).obj].owner = NoThread
    PROVE  \A u \in Threads : \A k \in Depths(u) :
               OwnsAt(u, k, F(t, 1).obj) => u = t /\ k = 1
<1> SUFFICES ASSUME NEW u \in Threads, NEW k \in Depths(u), OwnsAt(u, k, F(t, 1).obj)
             PROVE  u = t /\ k = 1
  OBVIOUS
<1>1. Owns(F(u, k)) /\ F(u, k).obj = F(t, 1).obj
  BY DEF OwnsAt
<1>2. pair[F(u, k).obj].owner = IF F(u, k).at = "car" THEN Desc ELSE u
  BY <1>1 DEF OwnInv, OwnerFrame
<1>3. Owns(F(t, 1))
  BY <1>1, <1>2, LazyAssumption
<1> QED
  BY <1>1, <1>3 DEF OwnInv

\* The innermost force of t is one of the pair i.
TopForces(t, i) == 1 \in Depths(t) /\ F(t, 1).obj = i

\* What becomes of the items, and of the pair i, when the force that has the pair
\* goes on with the frame g, or is left (G is empty).
OwnerResult(i, g, G) ==
    /\ QInv' /\ OwnInv' /\ ItemInv'
    /\ \A j \in 1..Len(pair) : j # i =>
          Item(j)' = Item(j) /\ (Extended(j)' <=> Extended(j))
    /\ G = {g} => Item(i)' = g.val
    /\ G = {} /\ pair'[i].lazy => Item(i)' = pair'[i].slot
    /\ ~pair'[i].lazy => Item(i)' = pair'[i].car
    /\ Extended(i)' <=> ~pair'[i].lazy \/ (G = {g} /\ g.at # "apply")

\* What a force that has the pair i, its innermost frame being f, does to it and
\* to the forces: the frame becomes g, or the force is left.
LEMMA OwnerStep ==
    ASSUME Inv, NEW t \in Threads, NEW g \in FrameRecord, NEW m, NEW G,
           G = {g} \/ G = {}, Becomes(t, G), Shifts(t, m, {1}, G),
           NEW i \in 1..Len(pair), TopForces(t, i),
           Owns(F(t, 1)) \/ pair[i].owner = NoThread,
           g.kind = "pair", PairFrame(g, pair', failed'),
           Owns(g), G = {g} => g.obj = i /\ OwnerFrame(t, g, pair'),
           UNCHANGED <<promise, content, mixed, runs>>,
           pair' \in Seq(PairRecord), Len(pair') \in Nat, Len(pair') >= Len(pair),
           \A j \in 1..Len(pair) : j # i => pair'[j] = pair[j],
           \A j \in 1..Len(pair') : ~pair'[j].lazy => pair'[j].owner = Desc,
           produced' \in Nat, failed' \in Seq(Nat \X Nat), PairsGoOn, ReturnedInv'
    PROVE  OwnerResult(i, g, G)
<1>1. QInv'
  BY PairMoves DEF Inv
<1>2. TypeInv /\ OwnInv /\ TypeInv'
  BY <1>1 DEF Inv, QInv, PInv
<1>3. \A u \in Threads : \A k \in Depths(u) : OwnsAt(u, k, i) => u = t /\ k = 1
  BY <1>2, OnlyOwner DEF TopForces
<1>4. OwnInv'
  <2>1. \A h \in G : Owns(h) => h.obj = i /\ OwnerFrame(t, h, pair')
    OBVIOUS
  <2>2. \A u \in Threads : \A k \in Depths(u) :
            OwnsAt(u, k, i) => u = t /\ k = 1 /\ 1 \in {1}
    BY <1>3
  <2> QED
    BY <1>2, <2>1, <2>2, OwnAfter
<1>5. ItemInv /\ ItemInv'
  BY <1>2, <1>4, ItemsDefined, PTL
<1>6. ASSUME NEW j \in 1..Len(pair), j # i
      PROVE  Item(j)' = Item(j) /\ (Extended(j)' <=> Extended(j))
  <2>1. j \in 1..Len(pair') /\ pair'[j] = pair[j]
    <3>1. Len(pair) \in Nat
      BY <1>2 DEF TypeInv
    <3> QED
      BY <1>6, <3>1
  <2>2. /\ \A k \in Depths(t) \cap {1} : ~OwnsAt(t, k, j)
        /\ \A h \in G : Owns(h) => h.obj # j
    BY <1>6 DEF OwnsAt, TopForces
  <2> QED
    BY <1>2, <1>5, <2>1, <2>2, ItemsAfter
<1>7. i \in 1..Len(pair')
  BY <1>2 DEF TypeInv
<1>8. G = {g} => 1 \in 1..Len(stack'[t]) /\ stack'[t][1] = g
  BY DEF Shifts
<1>9. ASSUME NEW u \in Threads, NEW k \in 1..Len(stack'[u]), Owns(stack'[u][k]),
             stack'[u][k].obj = i
      PROVE  G = {g} /\ stack'[u][k] = g
  <2>1. CASE u # t /\ k \in Depths(u) /\ stack'[u][k] = F(u, k)
    BY <1>3, <1>9, <2>1 DEF OwnsAt
  <2>2. CASE u = t /\ k + m \in Depths(t) \ {1} /\ stack'[u][k] = F(t, k + m)
    BY <1>3, <1>9, <2>2 DEF OwnsAt
  <2>3. CASE u = t /\ k = 1 /\ stack'[u][k] \in G
    BY <2>3
  <2> QED
    BY <2>1, <2>2, <2>3, OwnersAfter
<1>10. ~pair'[i].lazy => Item(i)' = pair'[i].car
  BY <1>5, <1>7 DEF ItemInv
<1>11. G = {g} => Item(i)' = g.val
  <2>1. \A u \in Threads : \A k \in 1..Len(stack'[u]) :
            Owns(stack'[u][k]) /\ stack'[u][k].obj = i => Item(i)' = stack'[u][k].val
    BY <1>5, <1>7 DEF ItemInv, OwnsAt, Depths, F, Owns
  <2> QED
    BY <1>8, <2>1
<1>12. G = {} /\ pair'[i].lazy => Item(i)' = pair'[i].slot
  <2>1. G = {} => (\A u \in Threads : \A k \in Depths(u) : ~OwnsAt(u, k, i))'
    BY <1>9 DEF OwnsAt, Depths, F, Owns
  <2> QED
    BY <1>5, <1>7, <2>1 DEF ItemInv
<1>13. Extended(i)' <=> ~pair'[i].lazy \/ (G = {g} /\ g.at # "apply")
  <2>1. Extended(i)' => ~pair'[i].lazy \/ (G = {g} /\ g.at # "apply")
    BY <1>9, SMTT(30) DEF Extended, OwnsAt, Depths, F, Owns
  <2>2. ~pair'[i].lazy \/ (G = {g} /\ g.at # "apply") => Extended(i)'
    BY <1>8 DEF Extended, OwnsAt, Depths, F, Owns
  <2> QED
    BY <2>1, <2>2
<1> QED
  BY <1>1, <1>4, <1>5, <1>6, <1>10, <1>11, <1>12, <1>13 DEF OwnerResult

\* The force that has the pair goes on with the frame g.
LEMMA OwnerGoesOn ==
    ASSUME Inv, NEW t \in Threads, NEW g \in FrameRecord, Set(t, g), stack[t] # <<>>,
           NEW i \in 1..Len(pair), Top(t).obj = i,
           Owns(Top(t)) \/ pair[i].owner = NoThread,
           g.kind = "pair", g.obj = i, PairFrame(g, pair', failed'),
           Owns(g), OwnerFrame(t, g, pair'),
           UNCHANGED <<promise, content, mixed, runs>>,
           pair' \in Seq(PairRecord), Len(pair') \in Nat, Len(pair') >= Len(pair),
           \A j \in 1..Len(pair) : j # i => pair'[j] = pair[j],
           \A j \in 1..Len(pair') : ~pair'[j].lazy => pair'[j].owner = Desc,
           produced' \in Nat, failed' \in Seq(Nat \X Nat), PairsGoOn, ReturnedInv'
    PROVE  /\ QInv' /\ OwnInv' /\ ItemInv'
           /\ \A j \in 1..Len(pair) : j # i =>
                 Item(j)' = Item(j) /\ (Extended(j)' <=> Extended(j))
           /\ Item(i)' = g.val
           /\ Extended(i)' <=> ~pair'[i].lazy \/ g.at # "apply"
<1> DEFINE G == {g}
<1>1. TypeInv /\ NestInv
  BY DEF Inv, QInv, PInv
<1>2. Top(t) = F(t, 1) /\ TopForces(t, i)
  BY <1>1, TopType DEF TopForces
<1>3. Becomes(t, G) /\ Shifts(t, 0, {1}, G)
  BY <1>1, SetBecomes, SetShifts
<1>4. G = {g}
  OBVIOUS
<1> HIDE DEF G
<1>5. OwnerResult(i, g, G)
  BY <1>2, <1>3, <1>4, OwnerStep
<1> QED
  BY <1>4, <1>5 DEF OwnerResult

\* The force that has the pair is left.
LEMMA OwnerLeaves ==
    ASSUME Inv, NEW t \in Threads, Leave(t), stack[t] # <<>>,
           NEW i \in 1..Len(pair), TopForces(t, i), Owns(Top(t)),
           UNCHANGED <<promise, content, mixed, runs>>,
           pair' \in Seq(PairRecord), Len(pair') \in Nat, Len(pair') >= Len(pair),
           \A j \in 1..Len(pair) : j # i => pair'[j] = pair[j],
           \A j \in 1..Len(pair') : ~pair'[j].lazy => pair'[j].owner = Desc,
           produced' \in Nat, failed' \in Seq(Nat \X Nat), PairsGoOn, ReturnedInv'
    PROVE  /\ QInv' /\ OwnInv' /\ ItemInv'
           /\ \A j \in 1..Len(pair) : j # i =>
                 Item(j)' = Item(j) /\ (Extended(j)' <=> Extended(j))
           /\ pair'[i].lazy => Item(i)' = pair'[i].slot
           /\ ~pair'[i].lazy => Item(i)' = pair'[i].car
           /\ Extended(i)' <=> ~pair'[i].lazy
<1> DEFINE G == {}
<1>1. TypeInv /\ NestInv /\ QInv
  BY DEF Inv, QInv, PInv
<1>0. Top(t) = F(t, 1) /\ Top(t) \in FrameRecord
  BY <1>1, TopType
<1>2. PICK g \in FrameRecord : g = Top(t)
  BY <1>0
<1>3. Becomes(t, G) /\ Shifts(t, 1, {1}, G)
  BY <1>1, LeaveBecomes, LeaveShifts
<1>4. g.kind = "pair" /\ At(t, "pair", g.at)
  BY <1>2 DEF Owns, At
<1>5. PairFrame(g, pair', failed')
  BY <1>1, <1>2, <1>4, AtPair, PairFrameStable
<1>6. G = {} /\ G # {g}
  OBVIOUS
<1>7. Owns(g) /\ Owns(F(t, 1))
  BY <1>0, <1>2
<1>8. G = {g} => g.obj = i /\ OwnerFrame(t, g, pair')
  BY <1>6
<1> HIDE DEF G
<1>9. OwnerResult(i, g, G)
  BY <1>3, <1>4, <1>5, <1>6, <1>7, <1>8, OwnerStep
<1> QED
  BY <1>6, <1>9 DEF OwnerResult

LEMMA WriteDescriptorInv ==
    ASSUME Inv, NEW t \in Threads, WriteDescriptor(t)
    PROVE  Inv'
<1>1. TypeInv /\ NestInv /\ ReturnedInv /\ QInv /\ OwnInv /\ ListInv /\ ItemInv
  BY ItemsDefined DEF Inv, QInv, PInv
<1>2. At(t, "pair", "desc")
  BY DEF WriteDescriptor
<1>3. /\ stack[t] # <<>> /\ Top(t) \in FrameRecord /\ Top(t).at = "desc"
      /\ Top(t).kind = "pair" /\ Top(t) = F(t, 1) /\ 1 \in Depths(t)
      /\ PairFrame(Top(t), pair, failed)
      /\ Top(t).obj \in 1..Len(pair) /\ pair[Top(t).obj] \in PairRecord
  BY <1>1, <1>2, AtPair
<1>0. PICK i \in 1..Len(pair) : i = Top(t).obj
  BY <1>3
<1> DEFINE g == [Top(t) EXCEPT !.at = "car"]
           r == [pair[i] EXCEPT !.owner = Desc]
<1>4. /\ g \in FrameRecord /\ g.kind = "pair" /\ g.obj = i /\ g.at = "car"
      /\ g.val = Top(t).val
  BY <1>0, <1>3 DEF FrameRecord, PairLabels
<1>5. /\ r \in PairRecord /\ r.owner = Desc /\ r.lazy = pair[i].lazy
      /\ r.slot = pair[i].slot /\ r.target = pair[i].target
  BY <1>0, <1>3 DEF PairRecord
<1>6. /\ Set(t, g) /\ pair' = [pair EXCEPT ![i] = r]
      /\ UNCHANGED <<promise, content, mixed, runs, produced, failed, returned>>
  BY <1>0 DEF WriteDescriptor, promiseVars, Goto
<1>7. Owns(F(t, 1)) /\ OwnerFrame(t, F(t, 1), pair) /\ OwnsAt(t, 1, i)
  BY <1>0, <1>1, <1>3 DEF Owns, OwnInv, OwnsAt
<1>8. pair[i].lazy /\ Item(i) = Top(t).val
  BY <1>0, <1>1, <1>3, <1>7 DEF OwnerFrame, ItemInv
<1>9. Extended(i)
  BY <1>0, <1>3, <1>7 DEF Extended
<1> HIDE DEF g, r
<1>10. /\ pair' \in Seq(PairRecord) /\ Len(pair') = Len(pair) /\ pair'[i] = r
       /\ \A j \in 1..Len(pair) : j # i => pair'[j] = pair[j]
       /\ Len(pair') \in Nat /\ Len(pair') >= Len(pair)
  BY <1>0, <1>1, <1>3, <1>5, <1>6, PairChange
<1>11. Top(t).obj = i /\ Owns(Top(t))
  BY <1>0, <1>3, <1>7
<1>12. PairsGoOn
  BY <1>5, <1>6, <1>10, LazyAssumption DEF PairsGoOn
<1>13. PairFrame(g, pair', failed') /\ Owns(g) /\ OwnerFrame(t, g, pair')
  BY <1>0, <1>3, <1>4, <1>5, <1>8, <1>10 DEF PairFrame, PairLabels, Owns, OwnerFrame
<1>14. ReturnedInv'
  BY <1>0, <1>1, <1>3, <1>6, <1>12, ReturnedAfter
<1>15. \A j \in 1..Len(pair') : ~pair'[j].lazy => pair'[j].owner = Desc
  BY <1>1, <1>5, <1>10 DEF OwnInv
<1>16. produced' \in Nat /\ failed' \in Seq(Nat \X Nat)
  BY <1>1, <1>6 DEF TypeInv
<1>17. /\ QInv' /\ OwnInv' /\ Item(i)' = g.val
       /\ Extended(i)' <=> ~pair'[i].lazy \/ g.at # "apply"
       /\ \A j \in 1..Len(pair) : j # i =>
             Item(j)' = Item(j) /\ (Extended(j)' <=> Extended(j))
  BY <1>0, <1>3, <1>4, <1>6, <1>10, <1>11, <1>12, <1>13, <1>14, <1>15, <1>16, OwnerGoesOn
<1>18. ListInv'
  <2>1. UNCHANGED Made /\ \A n \in 1..Len(failed') : failed'[n][2] \in 0..produced'
    BY <1>1, <1>6 DEF Made, ListInv
  <2>2. ASSUME NEW j \in 1..Len(pair)
        PROVE  /\ pair'[j].target = pair[j].target
               /\ Item(j)' = Item(j)
               /\ pair[j].target = 0 =>
                     /\ Extended(j)' <=> Extended(j)
                     /\ Extended(j) => pair'[j].slot = pair[j].slot
    <3>1. CASE j = i
      BY <1>4, <1>5, <1>8, <1>9, <1>10, <1>17, <3>1
    <3>2. CASE j # i
      BY <1>10, <1>17, <3>2
    <3> QED
      BY <3>1, <3>2
  <2> QED
    BY <1>1, <1>10, <2>1, <2>2, ListAfter
<1> QED
  BY <1>17, <1>18 DEF Inv

LEMMA WriteCarInv ==
    ASSUME Inv, NEW t \in Threads, WriteCar(t)
    PROVE  Inv'
<1>1. TypeInv /\ NestInv /\ ReturnedInv /\ QInv /\ OwnInv /\ ListInv /\ ItemInv
  BY ItemsDefined DEF Inv, QInv, PInv
<1>2. At(t, "pair", "car")
  BY DEF WriteCar
<1>3. /\ stack[t] # <<>> /\ Top(t) \in FrameRecord /\ Top(t).at = "car"
      /\ Top(t).kind = "pair" /\ Top(t) = F(t, 1) /\ 1 \in Depths(t)
      /\ PairFrame(Top(t), pair, failed)
      /\ Top(t).obj \in 1..Len(pair) /\ pair[Top(t).obj] \in PairRecord
  BY <1>1, <1>2, AtPair
<1>0. PICK i \in 1..Len(pair) : i = Top(t).obj
  BY <1>3
<1> DEFINE r == [pair[i] EXCEPT !.lazy = FALSE, !.car = Top(t).val]
<1>5. /\ r \in PairRecord /\ r.owner = pair[i].owner /\ ~r.lazy /\ r.car = Top(t).val
      /\ r.slot = pair[i].slot /\ r.target = pair[i].target
  <2>1. Top(t).val \in Nat
    BY <1>0, <1>3 DEF FrameRecord
  <2> QED
    BY <1>0, <1>3, <2>1 DEF PairRecord
<1>6. /\ Leave(t) /\ pair' = [pair EXCEPT ![i] = r] /\ returned' = returned \cup {i}
      /\ UNCHANGED <<promise, content, mixed, runs, produced, failed>>
  BY <1>0 DEF WriteCar, promiseVars
<1>7. Owns(F(t, 1)) /\ OwnerFrame(t, F(t, 1), pair) /\ OwnsAt(t, 1, i)
  BY <1>0, <1>1, <1>3 DEF Owns, OwnInv, OwnsAt
<1>8. pair[i].lazy /\ Item(i) = Top(t).val /\ pair[i].owner = Desc
  BY <1>0, <1>1, <1>3, <1>7 DEF OwnerFrame, ItemInv
<1>9. Extended(i)
  BY <1>0, <1>3, <1>7 DEF Extended
<1> HIDE DEF r
<1>10. /\ pair' \in Seq(PairRecord) /\ Len(pair') = Len(pair) /\ pair'[i] = r
       /\ \A j \in 1..Len(pair) : j # i => pair'[j] = pair[j]
       /\ Len(pair') \in Nat /\ Len(pair') >= Len(pair)
  BY <1>0, <1>1, <1>3, <1>5, <1>6, PairChange
<1>11. TopForces(t, i) /\ Owns(Top(t))
  BY <1>0, <1>3, <1>7 DEF TopForces
<1>12. PairsGoOn
  BY <1>5, <1>6, <1>10, LazyAssumption DEF PairsGoOn
<1>14. ReturnedInv'
  BY <1>0, <1>1, <1>3, <1>5, <1>6, <1>10, <1>12, ReturnedAfter
<1>15. \A j \in 1..Len(pair') : ~pair'[j].lazy => pair'[j].owner = Desc
  BY <1>1, <1>5, <1>8, <1>10 DEF OwnInv
<1>16. produced' \in Nat /\ failed' \in Seq(Nat \X Nat)
  BY <1>1, <1>6 DEF TypeInv
<1>17. /\ QInv' /\ OwnInv'
       /\ ~pair'[i].lazy => Item(i)' = pair'[i].car
       /\ Extended(i)' <=> ~pair'[i].lazy
       /\ \A j \in 1..Len(pair) : j # i =>
             Item(j)' = Item(j) /\ (Extended(j)' <=> Extended(j))
  BY <1>0, <1>3, <1>6, <1>10, <1>11, <1>12, <1>14, <1>15, <1>16, OwnerLeaves
<1>18. ListInv'
  <2>1. UNCHANGED Made /\ \A n \in 1..Len(failed') : failed'[n][2] \in 0..produced'
    BY <1>1, <1>6 DEF Made, ListInv
  <2>2. ASSUME NEW j \in 1..Len(pair)
        PROVE  /\ pair'[j].target = pair[j].target
               /\ Item(j)' = Item(j)
               /\ pair[j].target = 0 =>
                     /\ Extended(j)' <=> Extended(j)
                     /\ Extended(j) => pair'[j].slot = pair[j].slot
    <3>1. CASE j = i
      BY <1>5, <1>8, <1>9, <1>10, <1>17, <3>1
    <3>2. CASE j # i
      BY <1>10, <1>17, <3>2
    <3> QED
      BY <3>1, <3>2
  <2> QED
    BY <1>1, <1>10, <2>1, <2>2, ListAfter
<1> QED
  BY <1>17, <1>18 DEF Inv

LEMMA GeneratorRaisesInv ==
    ASSUME Inv, NEW t \in Threads, NEW item \in 0..MaxItems,
           GeneratorRaises(t, item)
    PROVE  Inv'
<1>1. TypeInv /\ NestInv /\ ReturnedInv /\ QInv /\ OwnInv /\ ListInv /\ ItemInv
  BY ItemsDefined DEF Inv, QInv, PInv
<1>2. At(t, "pair", "apply")
  BY DEF GeneratorRaises
<1>3. /\ stack[t] # <<>> /\ Top(t) \in FrameRecord /\ Top(t).at = "apply"
      /\ Top(t).kind = "pair" /\ Top(t) = F(t, 1) /\ 1 \in Depths(t)
      /\ PairFrame(Top(t), pair, failed)
      /\ Top(t).obj \in 1..Len(pair) /\ pair[Top(t).obj] \in PairRecord
  BY <1>1, <1>2, AtPair
<1>0. PICK i \in 1..Len(pair) : i = Top(t).obj
  BY <1>3
<1> DEFINE r == [pair[i] EXCEPT !.owner = NoThread]
<1>5. /\ r \in PairRecord /\ r.owner = NoThread /\ r.lazy = pair[i].lazy
      /\ r.slot = pair[i].slot /\ r.target = pair[i].target
  BY <1>0, <1>3 DEF PairRecord
<1>6. /\ Leave(t) /\ pair' = [pair EXCEPT ![i] = r] /\ failed' = Append(failed, <<i, item>>)
      /\ produced' = IF item = 0 THEN produced ELSE item
      /\ item # 0 => item = produced + 1
      /\ UNCHANGED <<promise, content, mixed, runs, returned>>
  BY <1>0 DEF GeneratorRaises, promiseVars
<1>7. Owns(F(t, 1)) /\ OwnerFrame(t, F(t, 1), pair) /\ OwnsAt(t, 1, i)
  BY <1>0, <1>1, <1>3 DEF Owns, OwnInv, OwnsAt
<1>8. pair[i].lazy /\ Item(i) = pair[i].slot
  BY <1>0, <1>1, <1>3, <1>7 DEF OwnerFrame, ItemInv
<1>9. \A u \in Threads : \A k \in Depths(u) : OwnsAt(u, k, i) => u = t /\ k = 1
  BY <1>0, <1>1, <1>3, <1>7, OnlyOwner
<1>10. ~Extended(i)
  BY <1>0, <1>3, <1>8, <1>9 DEF Extended
<1> HIDE DEF r
<1>11. /\ pair' \in Seq(PairRecord) /\ Len(pair') = Len(pair) /\ pair'[i] = r
       /\ \A j \in 1..Len(pair) : j # i => pair'[j] = pair[j]
       /\ Len(pair') \in Nat /\ Len(pair') >= Len(pair)
  BY <1>0, <1>1, <1>3, <1>5, <1>6, PairChange
<1>12. TopForces(t, i) /\ Owns(Top(t))
  BY <1>0, <1>3, <1>7 DEF TopForces
<1>13. /\ <<i, item>> \in Nat \X Nat /\ produced \in Nat /\ item \in Nat
       /\ failed \in Seq(Nat \X Nat)
  <2>1. i \in Nat /\ item \in Nat
    BY <1>0, LazyAssumption
  <2> QED
    BY <1>1, <2>1 DEF TypeInv
<1>14. /\ failed' \in Seq(Nat \X Nat) /\ FailedOn(i, failed')
       /\ \A j : FailedOn(j, failed) => FailedOn(j, failed')
  BY <1>1, <1>6, <1>13, FailedMore
<1>15. PairsGoOn
  BY <1>5, <1>11, <1>14 DEF PairsGoOn
<1>17. ReturnedInv'
  BY <1>0, <1>1, <1>3, <1>6, <1>15, ReturnedAfter
<1>18. \A j \in 1..Len(pair') : ~pair'[j].lazy => pair'[j].owner = Desc
  BY <1>1, <1>5, <1>8, <1>11 DEF OwnInv
<1>19. produced' \in Nat
  BY <1>6, <1>13
<1>20. /\ QInv' /\ OwnInv'
       /\ pair'[i].lazy => Item(i)' = pair'[i].slot
       /\ Extended(i)' <=> ~pair'[i].lazy
       /\ \A j \in 1..Len(pair) : j # i =>
             Item(j)' = Item(j) /\ (Extended(j)' <=> Extended(j))
  BY <1>0, <1>3, <1>6, <1>11, <1>12, <1>14, <1>15, <1>17, <1>18, <1>19, OwnerLeaves
<1>21. ListInv'
  <2>1. /\ Len(failed') = Len(failed) + 1 /\ Len(failed) \in Nat
        /\ failed'[Len(failed) + 1] = <<i, item>>
        /\ \A n \in 1..Len(failed) : failed'[n] = failed[n]
    BY <1>6, <1>13
  <2>2. \A n \in 1..Len(failed) : failed[n][2] \in 0..produced
    BY <1>1 DEF ListInv
  <2>3. produced' >= produced /\ item \in 0..produced'
    BY <1>6, <1>13
  <2>4. \A n \in 1..Len(failed') : failed'[n][2] \in 0..produced'
    <3>1. ASSUME NEW n \in 1..Len(failed) PROVE failed'[n][2] \in 0..produced'
      <4>1. failed'[n][2] = failed[n][2] /\ failed[n][2] \in 0..produced
        BY <2>1, <2>2
      <4> QED
        BY <1>13, <1>19, <2>3, <4>1, SMTT(30)
    <3>2. failed'[Len(failed) + 1][2] = item
      BY <2>1
    <3>3. \A n \in 1..Len(failed') : n \in 1..Len(failed) \/ n = Len(failed) + 1
      BY <2>1
    <3> QED
      BY <2>3, <3>1, <3>2, <3>3
  <2>5. {failed'[n][2] : n \in 1..Len(failed')}
            = {failed[n][2] : n \in 1..Len(failed)} \cup {item}
    BY <2>1
  <2>6. \A x : x \in (1..produced') \ {item} <=> x \in 1..produced /\ x # item
    BY <1>6, <1>13
  <2>7. Made' = Made
    <3>1. item \notin 1..produced
      BY <1>6, <1>13
    <3> QED
      BY <2>5, <2>6, <3>1 DEF Made
  <2>8. ASSUME NEW j \in 1..Len(pair)
        PROVE  /\ pair'[j].target = pair[j].target
               /\ Item(j)' = Item(j)
               /\ pair[j].target = 0 =>
                     /\ Extended(j)' <=> Extended(j)
                     /\ Extended(j) => pair'[j].slot = pair[j].slot
    <3>1. CASE j = i
      BY <1>5, <1>8, <1>10, <1>11, <1>20, <3>1
    <3>2. CASE j # i
      BY <1>11, <1>20, <3>2
    <3> QED
      BY <3>1, <3>2
  <2> QED
    BY <1>1, <1>11, <2>4, <2>7, <2>8, ListAfter
<1> QED
  BY <1>20, <1>21 DEF Inv

LEMMA GrabInv ==
    ASSUME Inv, NEW t \in Threads, Grab(t)
    PROVE  Inv'
<1>1. TypeInv /\ NestInv /\ ReturnedInv /\ QInv /\ OwnInv /\ ListInv /\ ItemInv
  BY ItemsDefined DEF Inv, QInv, PInv
<1>2. At(t, "pair", "enter")
  BY DEF Grab
<1>3. /\ stack[t] # <<>> /\ Top(t) \in FrameRecord /\ Top(t).at = "enter"
      /\ Top(t).kind = "pair" /\ Top(t) = F(t, 1) /\ 1 \in Depths(t)
      /\ PairFrame(Top(t), pair, failed)
      /\ Top(t).obj \in 1..Len(pair) /\ pair[Top(t).obj] \in PairRecord
  BY <1>1, <1>2, AtPair
<1>0. PICK i \in 1..Len(pair) : i = Top(t).obj
  BY <1>3
<1>4. CASE pair[i].owner # NoThread
  <2> DEFINE g == [Top(t) EXCEPT !.at = "owned"]
  <2>1. /\ g \in FrameRecord /\ g.kind = "pair" /\ g.obj = i /\ g.at = "owned"
    BY <1>0, <1>3 DEF FrameRecord, PairLabels
  <2>2. /\ Set(t, g)
        /\ UNCHANGED <<promise, content, mixed, runs, pair, produced, failed, returned>>
    BY <1>0, <1>4 DEF Grab, promiseVars, Goto
  <2> HIDE DEF g
  <2>3. PairFrame(g, pair, failed) /\ ~Owns(g) /\ ~Owns(F(t, 1))
    BY <1>0, <1>3, <1>4, <2>1 DEF PairFrame, PairLabels, Owns
  <2>4. ReturnedInv'
    BY <1>1, <2>2 DEF ReturnedInv, ReturnedIsPair
  <2>5. Becomes(t, {g}) /\ Shifts(t, 0, {1}, {g})
    BY <1>1, <1>3, <2>1, <2>2, SetBecomes, SetShifts
  <2> QED
    BY <2>1, <2>2, <2>3, <2>4, <2>5, LookKeeps
<1>5. CASE pair[i].owner = NoThread
  <2> DEFINE g == [Top(t) EXCEPT !.at = "apply", !.val = pair[i].slot]
             r == [pair[i] EXCEPT !.owner = t]
  <2>1. /\ g \in FrameRecord /\ g.kind = "pair" /\ g.obj = i /\ g.at = "apply"
        /\ g.val = pair[i].slot
    <3>1. pair[i].slot \in Nat
      BY <1>0, <1>3 DEF PairRecord
    <3> QED
      BY <1>0, <1>3, <3>1 DEF FrameRecord, PairLabels
  <2>2. /\ r \in PairRecord /\ r.owner = t /\ r.lazy = pair[i].lazy
        /\ r.slot = pair[i].slot /\ r.target = pair[i].target
    BY <1>0, <1>3 DEF PairRecord
  <2>3. /\ Set(t, g) /\ pair' = [pair EXCEPT ![i] = r]
        /\ UNCHANGED <<promise, content, mixed, runs, produced, failed, returned>>
    BY <1>0, <1>5 DEF Grab, promiseVars
  <2>4. pair[i].lazy
    BY <1>1, <1>5, LazyAssumption DEF OwnInv
  <2>5. \A u \in Threads : \A k \in Depths(u) : ~OwnsAt(u, k, i)
    <3>1. \A u \in Threads : \A k \in Depths(u) : OwnsAt(u, k, i) => u = t /\ k = 1
      BY <1>0, <1>1, <1>3, <1>5, OnlyOwner
    <3> QED
      BY <1>3, <3>1 DEF OwnsAt, Owns
  <2>6. Item(i) = pair[i].slot
    BY <1>1, <2>4, <2>5 DEF ItemInv
  <2>7. ~Extended(i)
    BY <2>4, <2>5 DEF Extended
  <2> HIDE DEF g, r
  <2>8. /\ pair' \in Seq(PairRecord) /\ Len(pair') = Len(pair) /\ pair'[i] = r
        /\ \A j \in 1..Len(pair) : j # i => pair'[j] = pair[j]
        /\ Len(pair') \in Nat /\ Len(pair') >= Len(pair)
    BY <1>1, <2>2, <2>3, PairChange
  <2>9. PairsGoOn
    BY <2>2, <2>3, <2>8, LazyAssumption DEF PairsGoOn
  <2>10. PairFrame(g, pair', failed') /\ Owns(g) /\ OwnerFrame(t, g, pair')
    BY <2>1, <2>2, <2>4, <2>8 DEF PairFrame, PairLabels, Owns, OwnerFrame
  <2>11. ReturnedInv'
    BY <1>1, <2>3, <2>9, ReturnedAfter
  <2>12. \A j \in 1..Len(pair') : ~pair'[j].lazy => pair'[j].owner = Desc
    BY <1>1, <2>2, <2>4, <2>8 DEF OwnInv
  <2>13. produced' \in Nat /\ failed' \in Seq(Nat \X Nat) /\ Top(t).obj = i
    BY <1>0, <1>1, <2>3 DEF TypeInv
  <2>14. /\ QInv' /\ OwnInv' /\ Item(i)' = g.val
         /\ Extended(i)' <=> ~pair'[i].lazy \/ g.at # "apply"
         /\ \A j \in 1..Len(pair) : j # i =>
               Item(j)' = Item(j) /\ (Extended(j)' <=> Extended(j))
    BY <1>3, <1>5, <2>1, <2>3, <2>8, <2>9, <2>10, <2>11, <2>12, <2>13, OwnerGoesOn
  <2>15. ListInv'
    <3>1. UNCHANGED Made /\ \A n \in 1..Len(failed') : failed'[n][2] \in 0..produced'
      BY <1>1, <2>3 DEF Made, ListInv
    <3>2. ASSUME NEW j \in 1..Len(pair)
          PROVE  /\ pair'[j].target = pair[j].target
                 /\ Item(j)' = Item(j)
                 /\ pair[j].target = 0 =>
                       /\ Extended(j)' <=> Extended(j)
                       /\ Extended(j) => pair'[j].slot = pair[j].slot
      <4>1. CASE j = i
        BY <2>1, <2>2, <2>4, <2>6, <2>7, <2>8, <2>14, <4>1
      <4>2. CASE j # i
        BY <2>8, <2>14, <4>2
      <4> QED
        BY <4>1, <4>2
    <3> QED
      BY <1>1, <2>8, <3>1, <3>2, ListAfter
  <2> QED
    BY <2>14, <2>15 DEF Inv
<1> QED
  BY <1>4, <1>5

\* The generator has made an item, and the pair n for it follows pair i.
LEMMA ListGrows ==
    ASSUME TypeInv, ListInv, NEW i \in 1..Len(pair), NEW n, n = Len(pair) + 1,
           Len(pair') = n, pair[i].target = 0, pair'[i].target = 0, pair'[n].target = 0,
           \A j \in 1..Len(pair) : j # i => pair'[j] = pair[j],
           \A j \in 1..Len(pair) : Item(j)' = Item(j),
           \A j \in 1..Len(pair) : j # i => (Extended(j)' <=> Extended(j)),
           ~Extended(i), Extended(i)', pair'[i].slot = n,
           ~Extended(n)', Item(n)' = produced + 1,
           produced' = produced + 1, UNCHANGED failed
    PROVE  ListInv'
<1>1. Len(pair) \in Nat /\ produced \in Nat /\ n \in Nat
  BY DEF TypeInv
<1>2. GeneratorPairs' = GeneratorPairs \cup {n}
  BY <1>1 DEF GeneratorPairs
<1>3. /\ \A j \in GeneratorPairs : j \in 1..Len(pair) /\ j < n /\ j <= i /\ j \in Nat
      /\ i \in GeneratorPairs
  BY <1>1 DEF GeneratorPairs, ListInv
<1>4. \A j \in GeneratorPairs : j # i => Extended(j)
  BY <1>3 DEF ListInv
<1>5. \A j \in GeneratorPairs : Item(j)' = Item(j)
  BY <1>3
<1>6. \A j \in GeneratorPairs : Item(j) \in 1..produced
  BY DEF ListInv, Made
<1>7. \A k \in 1..Len(failed') : failed'[k][2] \in 0..produced'
  BY <1>1 DEF ListInv
<1>8. (\A j, k \in GeneratorPairs : ~Extended(j) => k <= j)'
  <2>1. ASSUME NEW j \in GeneratorPairs', NEW k \in GeneratorPairs', ~Extended(j)'
        PROVE  k <= j
    <3>1. j = n
      BY <1>2, <1>3, <1>4, <2>1
    <3> QED
      BY <1>1, <1>2, <1>3, <3>1
  <2> QED
    BY <2>1
<1>9. (\A j \in GeneratorPairs :
          Extended(j) => /\ pair[j].slot \in 0..Len(pair)
                         /\ \A k \in GeneratorPairs :
                                pair[j].slot # 0 /\ k > j => pair[j].slot <= k)'
  <2>1. ASSUME NEW j \in GeneratorPairs', Extended(j)'
        PROVE  /\ pair'[j].slot \in 0..Len(pair')
               /\ \A k \in GeneratorPairs' :
                      pair'[j].slot # 0 /\ k > j => pair'[j].slot <= k
    <3>1. CASE j = i
      BY <1>1, <1>2, <1>3, <3>1
    <3>2. CASE j # i
      <4>1. j \in GeneratorPairs /\ Extended(j) /\ pair'[j] = pair[j]
        BY <1>2, <1>3, <1>4, <2>1, <3>2
      <4>2. /\ pair[j].slot \in 0..Len(pair)
            /\ \A k \in GeneratorPairs : pair[j].slot # 0 /\ k > j => pair[j].slot <= k
        BY <4>1 DEF ListInv
      <4> QED
        BY <1>1, <1>2, <4>1, <4>2
    <3> QED
      BY <3>1, <3>2
  <2> QED
    BY <2>1
<1>10. (\A j, k \in GeneratorPairs : j < k => Item(j) < Item(k))'
  <2>1. ASSUME NEW j \in GeneratorPairs', NEW k \in GeneratorPairs', j < k
        PROVE  Item(j)' < Item(k)'
    <3>1. j \in GeneratorPairs
      BY <1>1, <1>2, <1>3, <2>1
    <3>2. CASE k = n
      BY <1>1, <1>5, <1>6, <3>1, <3>2
    <3>3. CASE k # n
      BY <1>2, <1>5, <2>1, <3>1, <3>3 DEF ListInv
    <3> QED
      BY <3>2, <3>3
  <2> QED
    BY <2>1
<1>11. {Item(j) : j \in GeneratorPairs}' = {Item(j) : j \in GeneratorPairs} \cup {produced + 1}
  BY <1>2, <1>5
<1>12. Made' = Made \cup {produced + 1}
  <2>1. produced + 1 \notin {failed[k][2] : k \in 1..Len(failed)}
    BY <1>1 DEF ListInv
  <2>2. 1..produced' = (1..produced) \cup {produced + 1}
    BY <1>1
  <2> QED
    BY <2>1, <2>2 DEF Made
<1>13. {Item(j) : j \in GeneratorPairs}' = Made'
  BY <1>11, <1>12 DEF ListInv
<1> QED
  BY <1>7, <1>8, <1>9, <1>10, <1>13 DEF ListInv

\* The generator has no more items.
LEMMA ListEnds ==
    ASSUME TypeInv, ListInv, NEW i \in 1..Len(pair), Len(pair') = Len(pair),
           pair[i].target = 0, pair'[i].target = 0,
           \A j \in 1..Len(pair) : j # i => pair'[j] = pair[j],
           \A j \in 1..Len(pair) : Item(j)' = Item(j),
           \A j \in 1..Len(pair) : j # i => (Extended(j)' <=> Extended(j)),
           ~Extended(i), Extended(i)', pair'[i].slot = 0,
           UNCHANGED <<produced, failed>>
    PROVE  ListInv'
<1>1. Len(pair) \in Nat /\ produced \in Nat
  BY DEF TypeInv
<1>2. GeneratorPairs' = GeneratorPairs
  BY DEF GeneratorPairs
<1>3. /\ \A j \in GeneratorPairs : j \in 1..Len(pair) /\ j <= i /\ j \in Nat
      /\ i \in GeneratorPairs
  BY <1>1 DEF GeneratorPairs, ListInv
<1>4. \A j \in GeneratorPairs : j # i => Extended(j)
  BY <1>3 DEF ListInv
<1>5. \A j \in GeneratorPairs : Item(j)' = Item(j) /\ Extended(j)'
  BY <1>3, <1>4
<1>6. (\A j \in GeneratorPairs :
          Extended(j) => /\ pair[j].slot \in 0..Len(pair)
                         /\ \A k \in GeneratorPairs :
                                pair[j].slot # 0 /\ k > j => pair[j].slot <= k)'
  <2>1. ASSUME NEW j \in GeneratorPairs
        PROVE  /\ pair'[j].slot \in 0..Len(pair')
               /\ \A k \in GeneratorPairs :
                      pair'[j].slot # 0 /\ k > j => pair'[j].slot <= k
    <3>1. CASE j = i
      BY <1>1, <3>1
    <3>2. CASE j # i
      BY <1>3, <1>4, <3>2 DEF ListInv
    <3> QED
      BY <3>1, <3>2
  <2> QED
    BY <1>2, <2>1
<1>7. (\A j, k \in GeneratorPairs : j < k => Item(j) < Item(k))'
  BY <1>2, <1>5 DEF ListInv
<1>8. {Item(j) : j \in GeneratorPairs}' = {Item(j) : j \in GeneratorPairs}
  BY <1>2, <1>5
<1>9. Made' = Made /\ \A k \in 1..Len(failed') : failed'[k][2] \in 0..produced'
  BY DEF Made, ListInv
<1>10. (\A j, k \in GeneratorPairs : ~Extended(j) => k <= j)'
  BY <1>2, <1>5
<1>11. {Item(j) : j \in GeneratorPairs}' = Made'
  BY <1>8, <1>9 DEF ListInv
<1> QED
  BY <1>6, <1>7, <1>9, <1>10, <1>11 DEF ListInv

LEMMA GeneratorReturnsInv ==
    ASSUME Inv, NEW t \in Threads, GeneratorReturns(t)
    PROVE  Inv'
<1>1. TypeInv /\ NestInv /\ ReturnedInv /\ QInv /\ OwnInv /\ ListInv /\ ItemInv
  BY ItemsDefined DEF Inv, QInv, PInv
<1>2. At(t, "pair", "apply")
  BY DEF GeneratorReturns
<1>3. /\ stack[t] # <<>> /\ Top(t) \in FrameRecord /\ Top(t).at = "apply"
      /\ Top(t).kind = "pair" /\ Top(t) = F(t, 1) /\ 1 \in Depths(t)
      /\ PairFrame(Top(t), pair, failed)
      /\ Top(t).obj \in 1..Len(pair) /\ pair[Top(t).obj] \in PairRecord
  BY <1>1, <1>2, AtPair
<1>0. PICK i \in 1..Len(pair) : i = Top(t).obj
  BY <1>3
<1> DEFINE g == [Top(t) EXCEPT !.at = "desc"]
           r(s) == [pair[i] EXCEPT !.slot = s]
           n == Len(pair) + 1
<1>4. /\ g \in FrameRecord /\ g.kind = "pair" /\ g.obj = i /\ g.at = "desc"
      /\ g.val = Top(t).val
  BY <1>0, <1>3 DEF FrameRecord, PairLabels
<1>5. \A s \in Nat : /\ r(s) \in PairRecord /\ r(s).owner = pair[i].owner
                     /\ r(s).lazy = pair[i].lazy /\ r(s).slot = s
                     /\ r(s).target = pair[i].target
  BY <1>0, <1>3 DEF PairRecord
<1>6. /\ Set(t, g) /\ UNCHANGED <<promise, content, mixed, runs, failed, returned>>
      /\ \/ pair[i].target # 0 /\ pair' = [pair EXCEPT ![i] = r(pair[i].target)]
            /\ UNCHANGED produced
         \/ pair[i].target = 0 /\ pair' = [pair EXCEPT ![i] = r(0)] /\ UNCHANGED produced
         \/ /\ pair[i].target = 0 /\ produced' = produced + 1
            /\ pair' = Append([pair EXCEPT ![i] = r(n)], MakeLazyPair(produced + 1, 0))
  BY <1>0 DEF GeneratorReturns, promiseVars, Goto
<1>7. Owns(F(t, 1)) /\ OwnerFrame(t, F(t, 1), pair) /\ OwnsAt(t, 1, i)
  BY <1>0, <1>1, <1>3 DEF Owns, OwnInv, OwnsAt
<1>8. pair[i].lazy /\ Item(i) = Top(t).val /\ pair[i].owner = t
  BY <1>0, <1>1, <1>3, <1>7 DEF OwnerFrame, ItemInv
<1>9. \A u \in Threads : \A k \in Depths(u) : OwnsAt(u, k, i) => u = t /\ k = 1
  BY <1>0, <1>1, <1>3, <1>7, OnlyOwner
<1>10. ~Extended(i)
  BY <1>3, <1>8, <1>9 DEF Extended
<1>11. Len(pair) \in Nat /\ produced \in Nat /\ pair \in Seq(PairRecord) /\ n \in Nat
  BY <1>1 DEF TypeInv
<1>12. Top(t).obj = i /\ Owns(Top(t)) /\ pair[i].target \in Nat
  <2>1. pair[i].target \in {0, 1}
    BY <1>0, <1>3 DEF PairRecord
  <2> QED
    BY <1>0, <1>3, <1>7, <2>1
<1> HIDE DEF g, r
\* What all cases have in common.
<1>13. ASSUME pair' \in Seq(PairRecord), Len(pair') \in Nat, Len(pair') >= Len(pair),
              \A j \in 1..Len(pair) : j # i => pair'[j] = pair[j],
              NEW s \in Nat, pair'[i] = r(s), produced' \in Nat,
              \A j \in 1..Len(pair') : ~pair'[j].lazy => pair'[j].owner = Desc
       PROVE  /\ QInv' /\ OwnInv' /\ ItemInv'
              /\ \A j \in 1..Len(pair) : j # i => (Extended(j)' <=> Extended(j))
              /\ \A j \in 1..Len(pair) : Item(j)' = Item(j)
              /\ Extended(i)'
  <2>1. PairsGoOn
    BY <1>5, <1>6, <1>13 DEF PairsGoOn
  <2>2. i \in 1..Len(pair')
    BY <1>11, <1>13
  <2>3. PairFrame(g, pair', failed') /\ Owns(g) /\ OwnerFrame(t, g, pair')
    BY <1>4, <1>5, <1>8, <1>13, <2>2 DEF PairFrame, PairLabels, Owns, OwnerFrame
  <2>4. ReturnedInv'
    BY <1>1, <1>6, <2>1, ReturnedAfter
  <2>5. failed' \in Seq(Nat \X Nat)
    BY <1>1, <1>6 DEF TypeInv
  <2>6. /\ QInv' /\ OwnInv' /\ ItemInv' /\ Item(i)' = g.val
        /\ Extended(i)' <=> ~pair'[i].lazy \/ g.at # "apply"
        /\ \A j \in 1..Len(pair) : j # i =>
              Item(j)' = Item(j) /\ (Extended(j)' <=> Extended(j))
    BY <1>3, <1>4, <1>6, <1>12, <1>13, <2>1, <2>3, <2>4, <2>5, OwnerGoesOn
  <2> QED
    BY <1>4, <1>8, <2>6
<1>14. ASSUME NEW s \in Nat, pair' = [pair EXCEPT ![i] = r(s)], UNCHANGED produced
       PROVE  /\ QInv' /\ OwnInv'
              /\ \A j \in 1..Len(pair) : j # i => (Extended(j)' <=> Extended(j))
              /\ \A j \in 1..Len(pair) : Item(j)' = Item(j)
              /\ Extended(i)'
              /\ Len(pair') = Len(pair) /\ pair'[i] = r(s)
              /\ \A j \in 1..Len(pair) : j # i => pair'[j] = pair[j]
  <2>1. /\ pair' \in Seq(PairRecord) /\ Len(pair') = Len(pair) /\ pair'[i] = r(s)
        /\ \A j \in 1..Len(pair) : j # i => pair'[j] = pair[j]
        /\ Len(pair') \in Nat /\ Len(pair') >= Len(pair)
    BY <1>1, <1>5, <1>14, PairChange
  <2>2. \A j \in 1..Len(pair') : ~pair'[j].lazy => pair'[j].owner = Desc
    <3>1. pair'[i].lazy
      BY <1>5, <1>8, <1>14, <2>1
    <3> QED
      BY <1>1, <2>1, <3>1 DEF OwnInv
  <2>3. produced' \in Nat
    BY <1>11, <1>14
  <2> QED
    BY <1>13, <2>1, <2>2, <2>3
<1>15. CASE pair[i].target # 0 /\ pair' = [pair EXCEPT ![i] = r(pair[i].target)]
            /\ UNCHANGED produced
  <2>1. PICK s \in Nat : s = pair[i].target
    BY <1>12
  <2>2. /\ QInv' /\ OwnInv'
        /\ \A j \in 1..Len(pair) : j # i => (Extended(j)' <=> Extended(j))
        /\ \A j \in 1..Len(pair) : Item(j)' = Item(j)
        /\ Len(pair') = Len(pair) /\ pair'[i] = r(s)
        /\ \A j \in 1..Len(pair) : j # i => pair'[j] = pair[j]
    BY <1>14, <1>15, <2>1
  <2>3. UNCHANGED Made /\ \A k \in 1..Len(failed') : failed'[k][2] \in 0..produced'
    BY <1>1, <1>6, <1>15 DEF Made, ListInv
  <2>4. \A j \in 1..Len(pair) :
            /\ pair'[j].target = pair[j].target
            /\ pair[j].target = 0 =>
                     /\ Extended(j)' <=> Extended(j)
                     /\ Extended(j) => pair'[j].slot = pair[j].slot
    BY <1>5, <1>15, <2>2
  <2>5. ListInv'
    BY <1>1, <2>2, <2>3, <2>4, ListAfter
  <2> QED
    BY <2>2, <2>5 DEF Inv
<1>16. CASE pair[i].target = 0 /\ pair' = [pair EXCEPT ![i] = r(0)] /\ UNCHANGED produced
  <2>1. /\ QInv' /\ OwnInv'
        /\ \A j \in 1..Len(pair) : j # i => (Extended(j)' <=> Extended(j))
        /\ \A j \in 1..Len(pair) : Item(j)' = Item(j)
        /\ Extended(i)'
        /\ Len(pair') = Len(pair) /\ pair'[i] = r(0)
        /\ \A j \in 1..Len(pair) : j # i => pair'[j] = pair[j]
    <3>1. 0 \in Nat
      OBVIOUS
    <3> QED
      BY <1>14, <1>16, <3>1
  <2>2. pair'[i].target = 0 /\ pair'[i].slot = 0
    BY <1>5, <1>16, <2>1
  <2>3. ListInv'
    BY <1>1, <1>6, <1>10, <1>16, <2>1, <2>2, ListEnds
  <2> QED
    BY <2>1, <2>3 DEF Inv
<1>17. CASE /\ pair[i].target = 0 /\ produced' = produced + 1
            /\ pair' = Append([pair EXCEPT ![i] = r(n)], MakeLazyPair(produced + 1, 0))
  <2> DEFINE q == [pair EXCEPT ![i] = r(n)]
             x == MakeLazyPair(produced + 1, 0)
  <2>1. /\ x \in PairRecord /\ x.lazy /\ x.target = 0 /\ x.slot = produced + 1
    BY <1>11 DEF MakeLazyPair, PairRecord
  <2>2. r(n) \in PairRecord /\ r(n).target = 0 /\ r(n).slot = n /\ r(n).lazy
    BY <1>5, <1>8, <1>11, <1>17
  <2>3. /\ q \in Seq(PairRecord) /\ Len(q) = Len(pair) /\ q[i] = r(n)
        /\ \A j \in 1..Len(pair) : j # i => q[j] = pair[j]
    BY <1>11, <2>2
  <2> HIDE DEF q, x
  <2>4. pair' = Append(q, x)
    BY <1>17 DEF q, x
  <2>5. /\ pair' \in Seq(PairRecord) /\ Len(pair') = n /\ pair'[n] = x
        /\ \A j \in 1..Len(pair) : pair'[j] = q[j]
    BY <1>11, <2>1, <2>3, <2>4, SMTT(30)
  <2>6. /\ \A j \in 1..Len(pair) : j # i => pair'[j] = pair[j]
        /\ pair'[i] = r(n)
    BY <2>3, <2>5
  <2>7. Len(pair') \in Nat /\ Len(pair') >= Len(pair) /\ produced' \in Nat
    BY <1>11, <1>17, <2>5
  <2>8. \A j \in 1..Len(pair') : ~pair'[j].lazy => pair'[j].owner = Desc
    <3>1. \A j \in 1..Len(pair') : j \in 1..Len(pair) \/ j = n
      BY <1>11, <2>5
    <3> QED
      BY <1>1, <2>1, <2>2, <2>5, <2>6, <3>1 DEF OwnInv
  <2>9. PICK k \in Nat : k = n
    BY <1>11
  <2>10. /\ QInv' /\ OwnInv' /\ ItemInv'
         /\ \A j \in 1..Len(pair) : j # i => (Extended(j)' <=> Extended(j))
         /\ \A j \in 1..Len(pair) : Item(j)' = Item(j)
         /\ Extended(i)'
    BY <1>11, <1>13, <2>5, <2>6, <2>7, <2>8
  <2>11. Shifts(t, 0, {1}, {g})
    BY <1>1, <1>3, <1>4, <1>6, SetShifts
  <2>12. ASSUME NEW u \in Threads, NEW d \in 1..Len(stack'[u]), Owns(stack'[u][d])
         PROVE  stack'[u][d].obj # k
    <3>1. \A v \in Threads : \A e \in Depths(v) : Owns(F(v, e)) => F(v, e).obj \in 1..Len(pair)
      BY <1>1 DEF OwnInv, OwnerFrame
    <3>2. stack'[u][d] = g \/ \E v \in Threads : \E e \in Depths(v) : stack'[u][d] = F(v, e)
      BY <2>11, OwnersAfter
    <3>3. stack'[u][d].obj \in 1..Len(pair)
      BY <1>4, <2>12, <3>1, <3>2
    <3> QED
      BY <1>11, <2>9, <3>3
  <2>13. (\A u \in Threads : \A d \in Depths(u) : ~OwnsAt(u, d, k))'
    BY <2>12 DEF OwnsAt, Depths, F, Owns
  <2>14. k \in 1..Len(pair') /\ pair'[k].lazy /\ pair'[k].slot = produced + 1
         /\ pair'[k].target = 0
    BY <1>11, <2>1, <2>5, <2>9
  <2>15. Item(k)' = produced + 1
    BY <2>10, <2>13, <2>14 DEF ItemInv
  <2>16. ~Extended(k)'
    BY <2>13, <2>14 DEF Extended
  <2>17. pair'[i].target = 0 /\ pair'[i].slot = k
    BY <2>2, <2>6, <2>9
  <2>18. ListInv'
    <3>1. k = Len(pair) + 1 /\ Len(pair') = k
      BY <2>5, <2>9
    <3> QED
      BY <1>1, <1>6, <1>10, <1>17, <2>6, <2>10, <2>14, <2>15, <2>16, <2>17, <3>1, ListGrows
  <2> QED
    BY <2>10, <2>18 DEF Inv
<1> QED
  BY <1>6, <1>15, <1>16, <1>17

-----------------------------------------------------------------------------
(* The invariant, and what follows from it.                                    *)

LEMMA InitInv == Init => Inv
<1> SUFFICES ASSUME Init PROVE Inv
  OBVIOUS
<1>0. MaxPromises \in Nat \ {0} /\ MaxDepth \in Nat /\ MaxRuns \in Nat
  BY LazyAssumption
<1>1. /\ \A t \in Threads : stack[t] = <<>> /\ Len(stack[t]) = 0 /\ Depths(t) = {}
      /\ stack \in [Threads -> Seq(FrameRecord)]
  BY DEF Init, Depths
<1>2. MakeLazyPair(1, 0) \in PairRecord /\ MakeLazyPair(0, 1) \in PairRecord
  BY DEF MakeLazyPair, PairRecord
<1>3. /\ pair \in Seq(PairRecord) /\ Len(pair) = 2
      /\ pair[1] = MakeLazyPair(1, 0) /\ pair[2] = MakeLazyPair(0, 1)
  BY <1>2 DEF Init
<1>4. [state |-> "UNFORCED", code |-> 0, mutex |-> NoThread] \in ContentRecord
  BY DEF ContentRecord
<1>5. content \in Seq(ContentRecord) /\ Len(content) = 1 /\ content[1].state = "UNFORCED"
  BY <1>4 DEF Init
<1>6. promise \in Seq(1..Len(content)) /\ Len(promise) = 1 /\ mixed \subseteq 1..Len(promise)
  BY <1>5 DEF Init
<1>7. TypeInv
  BY <1>0, <1>1, <1>3, <1>5, <1>6 DEF Init, TypeInv
<1>8. NestInv /\ PromiseFrames /\ MutexInv /\ PairFrames
  BY <1>1 DEF NestInv, PromiseFrames, MutexInv, PairFrames
<1>9. ContentInv
  BY <1>0, <1>5 DEF Init, ContentInv, Settled
<1>10. ReturnedInv
  BY DEF Init, ReturnedInv, ReturnedIsPair
<1>11. /\ pair[1].lazy /\ pair[2].lazy /\ pair[1].target = 0 /\ pair[2].target = 1
       /\ pair[1].slot = 1
  BY <1>3 DEF MakeLazyPair
<1>12. OwnInv
  BY <1>1, <1>3, <1>11 DEF OwnInv
<1>13. ItemInv
  BY <1>7, <1>12, ItemsDefined
<1>14. GeneratorPairs = {1}
  BY <1>3, <1>11 DEF GeneratorPairs
<1>15. ~Extended(1) /\ Item(1) = 1
  <2>1. \A t \in Threads : \A k \in Depths(t) : ~OwnsAt(t, k, 1)
    BY <1>1
  <2>2. 1 \in 1..Len(pair)
    BY <1>3
  <2> QED
    BY <1>11, <1>13, <2>1, <2>2 DEF Extended, ItemInv
<1>16. Made = {1} /\ Len(failed) = 0
  BY DEF Init, Made
<1>17. ListInv
  BY <1>14, <1>15, <1>16 DEF ListInv
<1> QED
  BY <1>7, <1>8, <1>9, <1>10, <1>12, <1>17 DEF Inv, QInv, PInv, PromiseInv

LEMMA StepInv == Inv /\ [Next]_vars => Inv'
<1> SUFFICES ASSUME Inv, [Next]_vars PROVE Inv'
  OBVIOUS
<1>1. CASE UNCHANGED vars
  <2>1. /\ UNCHANGED <<promise, content, mixed, pair, produced, failed, stack>>
        /\ UNCHANGED <<runs, returned>>
    BY <1>1 DEF vars
  <2>2. TypeInv' /\ NestInv'
    BY <2>1 DEF Inv, QInv, PInv, TypeInv, NestInv, F, Depths
  <2>3. PromiseInv' /\ PairFrames' /\ ReturnedInv'
    BY <2>1 DEF Inv, QInv, PInv, PromiseInv, PromiseFrames, MutexInv, ContentInv,
       PairFrames, ReturnedInv, ReturnedIsPair, F, Depths, Top
  <2>4. OwnInv'
    BY <2>1 DEF Inv, OwnInv, Owns, OwnerFrame, F, Depths
  <2>5. ItemInv /\ ItemInv'
    BY <2>2, <2>4, ItemsDefined, PTL DEF Inv, QInv, PInv
  <2>6. \A i \in 1..Len(pair) : Item(i)' = Item(i)
    BY <2>1, <2>5, SMTT(30) DEF ItemInv, OwnsAt, F, Depths
  <2>7. \A i : Extended(i)' <=> Extended(i)
    BY <2>1 DEF Extended, OwnsAt, Owns, F, Depths
  <2>8. UNCHANGED Made /\ \A n \in 1..Len(failed') : failed'[n][2] \in 0..produced'
    BY <2>1 DEF Made, Inv, ListInv
  <2>9. ListInv'
    BY <2>1, <2>6, <2>7, <2>8, ListAfter DEF Inv, QInv, PInv
  <2> QED
    BY <2>2, <2>3, <2>4, <2>9 DEF Inv, QInv, PInv
<1>2. CASE Next
  <2>1. PICK t \in Threads :
            \/ \E s \in {"UNFORCED", "FORCED"} : MakePromise(t, s)
            \/ \E p \in 1..MaxPromises : CallForce(t, p)
            \/ PromiseStep(t)
            \/ \E i \in 1..Len(pair) : CallPairP(t, i)
            \/ PairStep(t)
            \/ Terminate(t)
    BY <1>2 DEF Next
  <2>2. CASE PairStep(t)
    BY <2>2, GrabInv, CheckRecursiveInv, WaitInv, RetryInv, GeneratorReturnsInv,
       GeneratorRaisesInv, WriteDescriptorInv, WriteCarInv DEF PairStep
  <2> QED
    BY <2>1, <2>2, MakePromiseInv, CallForceInv, PromiseStepInv, CallPairPInv, TerminateInv
<1> QED
  BY <1>1, <1>2

\* What the proofs rest on is true of every reachable state.
THEOREM Invariance == Spec => []Inv
  BY InitInv, StepInv, PTL DEF Spec

\* Every item of the generator is in exactly one pair of the list, in the order of
\* the generator, whichever threads force the pairs and whenever it fails.
THEOREM ListIsInOrder == Spec => []ItemsInOrder
<1>1. Inv => ItemsInOrder
  <2> SUFFICES ASSUME Inv PROVE ItemsInOrder
    OBVIOUS
  <2>1. \A i \in GeneratorPairs : ~pair[i].lazy => Extended(i)
    BY DEF Extended
  <2> QED
    BY <2>1 DEF Inv, ListInv, ItemsInOrder, Made
<1> QED
  BY <1>1, Invariance, PTL

\* Scm_ForceLazyPair returns a pair, if the generator has not failed on it.
THEOREM ForcedIsPair == Spec => []ReturnedIsPair
<1>1. Inv => ReturnedIsPair
  BY DEF Inv, QInv, ReturnedInv
<1> QED
  BY <1>1, Invariance, PTL

-----------------------------------------------------------------------------
(* Promises implement WriteOnce.                                               *)

\* The cell of promise p, of the promises pr with the contents co, the mixed ones
\* of them mi.
CellOf(p, pr, co, mi) ==
    IF p \in mi THEN <<"LOST", 0>>
    ELSE IF p \notin 1..Len(pr) \/ co[pr[p]].state = "UNFORCED" THEN <<"UNFORCED", 0>>
    ELSE <<co[pr[p]].state, co[pr[p]].code>>
CellNow(p) == CellOf(p, promise, content, mixed)

\* A step of the abstract specification, or none.
OnceStep == Once!Next \/ UNCHANGED <<Cells, answers>>

LEMMA CellsAre == Cells = [p \in 1..MaxPromises |-> CellNow(p)]
  BY DEF Cells, CellOf, CellNow

LEMMA CellsWillBe == Cells' = [p \in 1..MaxPromises |-> CellNow(p)']
  BY DEF Cells, CellOf, CellNow

\* A step that changes no cell and delivers nothing.
LEMMA NothingSettled ==
    ASSUME \A p \in 1..MaxPromises : CellNow(p)' = CellNow(p), UNCHANGED answers
    PROVE  OnceStep
<1>1. Cells' = Cells
  BY CellsAre, CellsWillBe
<1> QED
  BY <1>1 DEF OnceStep

\* A step that settles the promises of S.
LEMMA SomeSettled ==
    ASSUME NEW S \in SUBSET (1..MaxPromises), NEW s \in Settled, NEW v \in 1..MaxRuns,
           \A p \in S : CellNow(p) = <<"UNFORCED", 0>> /\ CellNow(p)' = <<s, v>>,
           \A p \in (1..MaxPromises) \ S : CellNow(p)' = CellNow(p),
           UNCHANGED answers
    PROVE  OnceStep
<1>1. /\ Cells = [p \in 1..MaxPromises |-> CellNow(p)]
      /\ Cells' = [p \in 1..MaxPromises |-> CellNow(p)']
  BY CellsAre, CellsWillBe
<1>2. \A p \in S : Cells[p] = <<"UNFORCED", 0>>
  BY <1>1
<1>3. Cells' = [p \in 1..MaxPromises |-> IF p \in S THEN <<s, v>> ELSE Cells[p]]
  BY <1>1
<1>4. Once!Settle(S, s, v)
  BY <1>2, <1>3 DEF Once!Settle, Once!Unforced
<1>5. Once!Next
  BY <1>4 DEF Once!Next, Settled
<1> QED
  BY <1>5 DEF OnceStep

\* A step that mixes the promises of S.
LEMMA SomeLost ==
    ASSUME NEW S \in SUBSET (1..MaxPromises),
           \A p \in S : CellNow(p)' = <<"LOST", 0>>,
           \A p \in (1..MaxPromises) \ S : CellNow(p)' = CellNow(p),
           UNCHANGED answers
    PROVE  OnceStep
<1>1. /\ Cells = [p \in 1..MaxPromises |-> CellNow(p)]
      /\ Cells' = [p \in 1..MaxPromises |-> CellNow(p)']
  BY CellsAre, CellsWillBe
<1>2. Cells' = [p \in 1..MaxPromises |-> IF p \in S THEN <<"LOST", 0>> ELSE Cells[p]]
  BY <1>1
<1>3. Once!Lose(S)
  BY <1>2 DEF Once!Lose, Once!Lost
<1>4. Once!Next
  BY <1>3 DEF Once!Next
<1> QED
  BY <1>4 DEF OnceStep

\* The promises that are in use are among those that are modelled.
LEMMA PromiseBound ==
    ASSUME PInv
    PROVE  /\ MaxPromises \in Nat /\ MaxRuns \in Nat /\ runs \in 0..MaxRuns
           /\ mixed \subseteq 1..Len(promise)
           /\ Len(promise) \in Nat /\ Len(promise) <= MaxPromises
           /\ \A p \in 1..Len(promise) : p \in 1..MaxPromises
<1>1. /\ MaxPromises \in Nat /\ MaxRuns \in Nat /\ runs \in 0..MaxRuns
      /\ Len(promise) <= MaxPromises /\ mixed \subseteq 1..Len(promise)
  BY LazyAssumption DEF PInv, TypeInv
<1>2. Len(promise) \in Nat
  BY PromiseRange DEF PInv
<1>3. \A p \in 1..Len(promise) : p \in 1..MaxPromises
  BY <1>1, <1>2
<1> QED
  BY <1>1, <1>2, <1>3

\* A step that does not touch the promises.
LEMMA UntouchedOnce ==
    ASSUME UNCHANGED <<promise, content, mixed, answers>>
    PROVE  OnceStep
<1>1. \A p \in 1..MaxPromises : CellNow(p)' = CellNow(p)
  BY DEF CellNow, CellOf
<1> QED
  BY <1>1, NothingSettled

\* The promise is settled, and everybody is given the object it is settled with.
LEMMA DeliverOnce ==
    ASSUME PInv, NEW t \in Threads, Deliver(t)
    PROVE  OnceStep
<1> DEFINE p == Top(t).obj
           c == Top(t).c
           s == Top(t).state
           v == content[c].code
<1>1. At(t, "promise", "deliver")
  BY DEF Deliver
<1>2. /\ PromiseFrame(Top(t), promise, content, mixed, runs) /\ Top(t).at = "deliver"
      /\ p \in 1..Len(promise) /\ c \in 1..Len(content)
  BY <1>1, AtPromise DEF Idle
<1>3. /\ s \in Settled /\ content[c].state \in Settled
      /\ s = "FORCED" => content[c].state = "FORCED"
  BY <1>2 DEF PromiseFrame
<1>4. p \notin mixed => /\ content[promise[p]].state = content[c].state
                        /\ content[promise[p]].code = v
  BY <1>2 DEF PromiseFrame, Agrees, Idle
<1>5. UNCHANGED <<promise, content, mixed>> /\ answers' = answers \cup {<<p, s, v>>}
  BY DEF Deliver
<1>6. v \in 1..MaxRuns \cup {0}
  <2>1. v \in 0..runs /\ runs \in 0..MaxRuns /\ MaxRuns \in Nat
    BY <1>2, PromiseBound DEF PInv, PromiseInv, ContentInv
  <2> QED
    BY <2>1
<1> HIDE DEF p, c, s, v
<1>7. p \in 1..MaxPromises
  BY <1>2, PromiseBound
<1>8. Cells[p] = IF p \in mixed THEN <<"LOST", 0>> ELSE <<content[c].state, v>>
  BY <1>2, <1>3, <1>4, <1>7 DEF Cells, Settled
<1>9. Cells' = Cells
  BY <1>5 DEF Cells
<1>10. Once!Answer(p, s, v)
  BY <1>3, <1>5, <1>8, <1>9 DEF Once!Answer, Once!Unforced, Once!Lost, Settled
<1>11. Once!Next
  BY <1>3, <1>6, <1>7, <1>10 DEF Once!Next, Settled
<1> QED
  BY <1>11 DEF OnceStep

\* A content c is written that was not settled, and is not after that.
LEMMA MutexOnce ==
    ASSUME PInv, UNCHANGED <<promise, mixed, answers>>, Len(content') = Len(content),
           \A d \in 1..Len(content) :
               /\ content'[d].state = content[d].state
               /\ content'[d].code = content[d].code \/ content[d].state = "UNFORCED"
    PROVE  OnceStep
<1>1. ASSUME NEW p \in 1..MaxPromises PROVE CellNow(p)' = CellNow(p)
  <2>1. CASE p \notin 1..Len(promise)
    BY <2>1 DEF CellNow, CellOf
  <2>2. CASE p \in 1..Len(promise)
    <3>1. promise[p] \in 1..Len(content)
      BY <2>2, PromiseRange DEF PInv
    <3> QED
      BY <2>2, <3>1 DEF CellNow, CellOf
  <2> QED
    BY <2>1, <2>2
<1> QED
  BY <1>1, NothingSettled

\* A promise that is made is settled as it is made, or not at all.
LEMMA MakePromiseOnce ==
    ASSUME PInv, NEW t \in Threads, NEW s \in {"UNFORCED", "FORCED"}, MakePromise(t, s)
    PROVE  OnceStep
<1> DEFINE d == Len(content) + 1
           v == runs + 1
           r == [state |-> s, code |-> IF s = "FORCED" THEN v ELSE 0, mutex |-> NoThread]
<1>1. Len(promise) < MaxPromises /\ (s = "FORCED" => runs < MaxRuns)
  BY DEF MakePromise
<1>2. /\ promise \in Seq(1..Len(content)) /\ content \in Seq(ContentRecord)
      /\ Len(promise) \in Nat /\ Len(content) \in Nat /\ MaxPromises \in Nat /\ MaxRuns \in Nat
      /\ \A p \in 1..Len(promise) : promise[p] \in 1..Len(content)
      /\ runs \in Nat /\ mixed \subseteq 1..Len(promise)
  BY PromiseRange, PromiseBound DEF PInv
<1>0. PICK n \in Nat : n = Len(promise) + 1
  BY <1>2
<1>3. /\ promise' = Append(promise, d) /\ content' = Append(content, r)
      /\ UNCHANGED <<answers, mixed>>
  BY DEF MakePromise
<1>4. /\ Len(promise') = n /\ promise'[n] = d
      /\ \A p \in 1..Len(promise) : promise'[p] = promise[p]
      /\ content'[d] = r /\ \A c \in 1..Len(content) : content'[c] = content[c]
  BY <1>0, <1>2, <1>3
<1>5. /\ n \in 1..MaxPromises /\ n \notin 1..Len(promise) /\ n \notin mixed
      /\ s = "FORCED" => v \in 1..MaxRuns
      /\ \A p \in 1..MaxPromises : p # n => (p \in 1..n <=> p \in 1..Len(promise))
      /\ n \in 1..n
  BY <1>0, <1>1, <1>2
<1>6. r.state = s /\ (s = "FORCED" => r.code = v)
  OBVIOUS
<1> HIDE DEF d, v, r
<1>7. ASSUME NEW p \in (1..MaxPromises) \ {n} PROVE CellNow(p)' = CellNow(p)
  BY <1>2, <1>3, <1>4, <1>5 DEF CellNow, CellOf
<1>8. CellNow(n) = <<"UNFORCED", 0>>
  BY <1>5 DEF CellNow, CellOf
<1>9. CASE s = "FORCED"
  <2>1. CellNow(n)' = <<"FORCED", v>>
    BY <1>3, <1>4, <1>5, <1>6, <1>9 DEF CellNow, CellOf
  <2>2. {n} \in SUBSET (1..MaxPromises) /\ "FORCED" \in Settled
    BY <1>5 DEF Settled
  <2> QED
    BY <1>3, <1>5, <1>7, <1>8, <1>9, <2>1, <2>2, SomeSettled, ZenonT(60)
<1>10. CASE s = "UNFORCED"
  <2>1. CellNow(n)' = <<"UNFORCED", 0>>
    BY <1>3, <1>4, <1>5, <1>6, <1>10 DEF CellNow, CellOf
  <2> QED
    BY <1>3, <1>7, <1>8, <2>1, NothingSettled
<1> QED
  BY <1>9, <1>10

\* Taking the mutex of a content, and giving it back, settles nothing.
LEMMA LockContentOnce ==
    ASSUME PInv, NEW t \in Threads, NEW m, NEW l, At(t, "promise", l), l \notin Idle,
           content' = [content EXCEPT ![Top(t).c].mutex = m],
           UNCHANGED <<promise, mixed, answers>>
    PROVE  OnceStep
<1> DEFINE c == Top(t).c
<1>1. c \in 1..Len(content) /\ content \in Seq(ContentRecord) /\ content[c] \in ContentRecord
  BY AtPromise, PromiseRange DEF PInv
<1>2. /\ Len(content') = Len(content)
      /\ \A d \in 1..Len(content) : d # c => content'[d] = content[d]
      /\ content'[c] = [content[c] EXCEPT !.mutex = m]
  BY <1>1
<1>3. content'[c].state = content[c].state /\ content'[c].code = content[c].code
  BY <1>1, <1>2 DEF ContentRecord
<1> QED
  BY <1>2, <1>3, MutexOnce

\* c->code is written while nobody looks at it.
LEMMA WriteCodeOnce ==
    ASSUME PInv, NEW t \in Threads, WriteCode(t)
    PROVE  OnceStep
<1> DEFINE c == Top(t).c
<1>1. At(t, "promise", "code") /\ UNCHANGED <<promise, mixed, answers>>
  BY DEF WriteCode
<1>2. c \in 1..Len(content) /\ content[c].state = "UNFORCED"
  BY <1>1, AtPromise DEF PromiseFrame, Idle
<1>3. content \in Seq(ContentRecord) /\ content[c] \in ContentRecord
  BY <1>2, PromiseRange DEF PInv
<1>4. PICK v : content' = [content EXCEPT ![c].code = v]
  BY DEF WriteCode
<1>5. /\ Len(content') = Len(content)
      /\ \A d \in 1..Len(content) : d # c => content'[d] = content[d]
      /\ content'[c] = [content[c] EXCEPT !.code = v]
  BY <1>2, <1>3, <1>4
<1>6. content'[c].state = content[c].state
  BY <1>3, <1>5 DEF ContentRecord
<1> QED
  BY <1>1, <1>2, <1>5, <1>6, MutexOnce

\* c->state is written last: all promises that share the content are settled at
\* that moment with the code written before, or mixed if that was a thunk.
LEMMA WriteStateOnce ==
    ASSUME PInv, NEW t \in Threads, WriteState(t)
    PROVE  OnceStep
<1> DEFINE c == Top(t).c
           s == IF Top(t).state = "PROMISE" THEN content[Top(t).cc].state ELSE Top(t).state
           r == [content[c] EXCEPT !.state = s]
           v == content[c].code
           C == {p \in 1..Len(promise) : promise[p] = c}
           S == C \ mixed
<1>1. At(t, "promise", "state") /\ UNCHANGED <<promise, answers>>
  BY DEF WriteState
<1>2. /\ c \in 1..Len(content) /\ content[c].state = "UNFORCED"
      /\ Top(t) \in FrameRecord /\ Top(t).at = "state" /\ Top(t).kind = "promise"
      /\ PromiseFrame(Top(t), promise, content, mixed, runs)
  BY <1>1, AtPromise DEF PromiseFrame, Idle
<1>3. /\ content \in Seq(ContentRecord) /\ content[c] \in ContentRecord
      /\ promise \in Seq(1..Len(content)) /\ Len(promise) \in Nat
      /\ \A p \in 1..Len(promise) : p \in 1..MaxPromises /\ promise[p] \in 1..Len(content)
      /\ runs \in 0..MaxRuns /\ MaxRuns \in Nat
      /\ mixed \subseteq 1..Len(promise)
  BY <1>2, PromiseRange, PromiseBound DEF PInv
<1>4. /\ content' = [content EXCEPT ![c] = r]
      /\ mixed' = IF s # "UNFORCED" /\ v = 0 THEN mixed \cup C ELSE mixed
  BY DEF WriteState
<1>5. s \in Settled \cup {"UNFORCED"} /\ v \in 0..runs
  <2>1. CASE Top(t).state = "PROMISE"
    <3>1. Top(t).cc \in 1..Len(content)
      BY <1>2, <2>1 DEF PromiseFrame
    <3>2. content[Top(t).cc] \in ContentRecord
      BY <3>1, PromiseRange DEF PInv
    <3> QED
      BY <1>2, <2>1, <3>2 DEF ContentRecord, PInv, PromiseInv, ContentInv
  <2>2. CASE Top(t).state # "PROMISE"
    <3>1. Top(t).state \in Settled
      BY <1>2, <2>2 DEF PromiseFrame, FrameRecord
    <3> QED
      BY <1>2, <2>2, <3>1 DEF PInv, PromiseInv, ContentInv
  <2> QED
    BY <2>1, <2>2
<1>6. r.state = s /\ r.code = v
  BY <1>3 DEF ContentRecord
<1> HIDE DEF c, s, r, v
<1>7. /\ content'[c] = r
      /\ \A d \in 1..Len(content) : d # c => content'[d] = content[d]
  BY <1>2, <1>3, <1>4
<1>8. ASSUME NEW p \in (1..MaxPromises) \ C PROVE CellNow(p)' = CellNow(p)
  <2>1. p \in mixed' <=> p \in mixed
    BY <1>4, <1>8
  <2>2. CASE p \notin 1..Len(promise)
    BY <1>1, <2>1, <2>2 DEF CellNow, CellOf
  <2>3. CASE p \in 1..Len(promise)
    <3>1. promise[p] \in 1..Len(content) /\ promise[p] # c
      BY <1>3, <2>3, <1>8
    <3> QED
      BY <1>1, <1>7, <2>1, <3>1 DEF CellNow, CellOf
  <2> QED
    BY <2>2, <2>3
<1>9. ASSUME NEW p \in C
      PROVE  /\ CellNow(p) = IF p \in mixed THEN <<"LOST", 0>> ELSE <<"UNFORCED", 0>>
             /\ CellNow(p)' = IF p \in mixed' THEN <<"LOST", 0>>
                              ELSE IF s = "UNFORCED" THEN <<"UNFORCED", 0>> ELSE <<s, v>>
  BY <1>1, <1>2, <1>6, <1>7 DEF CellNow, CellOf
<1>10. CASE s = "UNFORCED"
  <2>1. mixed' = mixed
    BY <1>4, <1>10
  <2>2. \A p \in 1..MaxPromises : CellNow(p)' = CellNow(p)
    BY <1>8, <1>9, <1>10, <2>1
  <2> QED
    BY <1>1, <2>2, NothingSettled
<1>11. CASE s # "UNFORCED" /\ v = 0
  <2>1. C \in SUBSET (1..MaxPromises) /\ C \subseteq mixed'
    BY <1>3, <1>4, <1>11
  <2>2. \A p \in C : CellNow(p)' = <<"LOST", 0>>
    BY <1>9, <2>1
  <2> HIDE DEF C
  <2> QED
    BY <1>1, <1>8, <2>1, <2>2, SomeLost
<1>12. CASE s # "UNFORCED" /\ v # 0
  <2>1. s \in Settled /\ v \in 1..MaxRuns /\ S \in SUBSET (1..MaxPromises) /\ mixed' = mixed
    BY <1>3, <1>4, <1>5, <1>12
  <2>2. \A p \in S : CellNow(p) = <<"UNFORCED", 0>> /\ CellNow(p)' = <<s, v>>
    BY <1>9, <1>12, <2>1
  <2>3. \A p \in (1..MaxPromises) \ S : CellNow(p)' = CellNow(p)
    <3>1. ASSUME NEW p \in (1..MaxPromises) \ S PROVE CellNow(p)' = CellNow(p)
      <4>1. CASE p \in C
        BY <1>9, <2>1, <3>1, <4>1
      <4>2. CASE p \notin C
        BY <1>8, <3>1, <4>2
      <4> QED
        BY <4>1, <4>2
    <3> QED
      BY <3>1
  <2> HIDE DEF S
  <2> QED
    BY <1>1, <2>1, <2>2, <2>3, SomeSettled
<1> QED
  BY <1>10, <1>11, <1>12

\* The promise moves to a content that is equal to its own one, or is mixed.
LEMMA ShareContentOnce ==
    ASSUME PInv, NEW t \in Threads, ShareContent(t)
    PROVE  OnceStep
<1> DEFINE c == Top(t).c
<1>1. At(t, "promise", "share") /\ UNCHANGED <<content, answers>>
  BY DEF ShareContent
<1>2. /\ PromiseFrame(Top(t), promise, content, mixed, runs) /\ Top(t).at = "share"
      /\ c \in 1..Len(content)
  BY <1>1, AtPromise DEF Idle
<1>3. PICK v \in 1..Len(promise) : v = Top(t).val
  BY <1>2 DEF PromiseFrame
<1>4. /\ promise' = [promise EXCEPT ![v] = c] /\ promise \in Seq(1..Len(content))
      /\ mixed' = IF Interchangeable(v, c) THEN mixed ELSE mixed \cup {v}
  BY <1>3 DEF ShareContent, PInv, TypeInv
<1> HIDE DEF c
<1>5. /\ Len(promise') = Len(promise) /\ promise'[v] = c
      /\ \A p \in 1..Len(promise) : p # v => promise'[p] = promise[p]
  BY <1>2, <1>3, <1>4
<1>6. ASSUME NEW p \in (1..MaxPromises) \ {v} PROVE CellNow(p)' = CellNow(p)
  <2>1. p \in mixed' <=> p \in mixed
    BY <1>4, <1>6
  <2> QED
    BY <1>1, <1>5, <1>6, <2>1 DEF CellNow, CellOf
<1>7. CASE Interchangeable(v, c)
  <2>1. content[c].state = content[promise[v]].state
        /\ (content[c].state # "UNFORCED" => content[c].code = content[promise[v]].code)
    BY <1>7 DEF Interchangeable
  <2>2. CellNow(v)' = CellNow(v)
    <3>1. mixed' = mixed /\ content' = content /\ promise'[v] = c
          /\ v \in 1..Len(promise') /\ v \in 1..Len(promise)
      BY <1>1, <1>3, <1>4, <1>5, <1>7
    <3>2. CellNow(v) = IF v \in mixed THEN <<"LOST", 0>>
                       ELSE IF content[promise[v]].state = "UNFORCED" THEN <<"UNFORCED", 0>>
                       ELSE <<content[promise[v]].state, content[promise[v]].code>>
      BY <3>1 DEF CellNow, CellOf
    <3>3. CellNow(v)' = IF v \in mixed THEN <<"LOST", 0>>
                        ELSE IF content[c].state = "UNFORCED" THEN <<"UNFORCED", 0>>
                        ELSE <<content[c].state, content[c].code>>
      BY <3>1 DEF CellNow, CellOf
    <3> QED
      BY <2>1, <3>2, <3>3
  <2> QED
    BY <1>1, <1>6, <2>2, NothingSettled
<1>8. CASE ~Interchangeable(v, c)
  <2>1. CellNow(v)' = <<"LOST", 0>>
    BY <1>4, <1>8 DEF CellNow, CellOf
  <2>2. {v} \in SUBSET (1..MaxPromises)
    BY <1>3, PromiseBound
  <2> QED
    BY <1>1, <1>6, <2>1, <2>2, SomeLost
<1> QED
  BY <1>7, <1>8

\* Every step of a force of a promise settles promises that were not settled,
\* delivers what a promise was settled with, mixes a promise, or does none of it.
LEMMA PromiseStepOnce ==
    ASSUME PInv, NEW t \in Threads, PromiseStep(t)
    PROVE  OnceStep
<1>1. CASE \/ ReadContent(t) \/ ReadState(t) \/ ThunkReturns(t) \/ ThunkRaises(t)
           \/ \E p \in 1..MaxPromises : ThunkReturnsPromise(t, p)
  <2>1. UNCHANGED <<promise, content, mixed, answers>>
    BY <1>1 DEF ReadContent, ReadState, ThunkReturns, ThunkRaises, ThunkReturnsPromise,
       promiseVars
  <2> QED
    BY <2>1, UntouchedOnce
<1>2. CASE Snapshot(t)
  <2>1. UNCHANGED <<promise, content, mixed, answers>>
    BY <1>2 DEF Snapshot
  <2> QED
    BY <2>1, UntouchedOnce
<1>3. CASE LockContent(t)
  <2>1. /\ At(t, "promise", "lock") /\ content' = [content EXCEPT ![Top(t).c].mutex = t]
        /\ UNCHANGED <<promise, mixed, answers>> /\ "lock" \notin Idle
    BY <1>3 DEF LockContent, Idle
  <2> QED
    BY <2>1, LockContentOnce
<1>4. CASE UnlockContent(t)
  <2>1. /\ At(t, "promise", "unlock")
        /\ content' = [content EXCEPT ![Top(t).c].mutex = NoThread]
        /\ UNCHANGED <<promise, mixed, answers>> /\ "unlock" \notin Idle
    BY <1>4 DEF UnlockContent, Idle
  <2> QED
    BY <2>1, LockContentOnce
<1> QED
  BY <1>1, <1>2, <1>3, <1>4, DeliverOnce, WriteCodeOnce, WriteStateOnce,
     ShareContentOnce DEF PromiseStep

LEMMA StepOnce == Inv /\ [Next]_vars => [Once!Next]_<<Cells, answers>>
<1> SUFFICES ASSUME Inv, [Next]_vars PROVE OnceStep
  BY DEF OnceStep
<1>1. CASE UNCHANGED vars
  <2>1. UNCHANGED <<promise, content, mixed, answers>>
    BY <1>1 DEF vars
  <2> QED
    BY <2>1, UntouchedOnce
<1>2. CASE Next
  <2>1. PICK t \in Threads :
            \/ \E s \in {"UNFORCED", "FORCED"} : MakePromise(t, s)
            \/ \E p \in 1..MaxPromises : CallForce(t, p)
            \/ PromiseStep(t)
            \/ \E i \in 1..Len(pair) : CallPairP(t, i)
            \/ PairStep(t)
            \/ Terminate(t)
    BY <1>2 DEF Next
  <2>2. CASE PromiseStep(t)
    BY <2>2, PromiseStepOnce DEF Inv, QInv
  <2>3. CASE \E s \in {"UNFORCED", "FORCED"} : MakePromise(t, s)
    BY <2>3, MakePromiseOnce DEF Inv, QInv
  <2>4. CASE ~PromiseStep(t) /\ ~\E s \in {"UNFORCED", "FORCED"} : MakePromise(t, s)
    <3>1. UNCHANGED promiseVars
      BY <2>1, <2>4 DEF CallForce, CallPairP, Terminate, PairStep, Grab, CheckRecursive, Wait,
         Retry, GeneratorReturns, GeneratorRaises, WriteDescriptor, WriteCar
    <3>2. UNCHANGED <<promise, content, mixed, answers>>
      BY <3>1 DEF promiseVars
    <3> QED
      BY <3>2, UntouchedOnce
  <2> QED
    BY <2>2, <2>3, <2>4
<1> QED
  BY <1>1, <1>2

LEMMA InitOnce == Init => Once!Init
<1> SUFFICES ASSUME Init PROVE Once!Init
  OBVIOUS
<1>1. /\ Len(promise) = 1 /\ promise[1] = 1 /\ content[1].state = "UNFORCED" /\ answers = {}
      /\ mixed = {}
  BY DEF Init
<1>2. Cells = [p \in 1..MaxPromises |-> <<"UNFORCED", 0>>]
  <2>1. \A p \in 1..Len(promise) : promise[p] = 1
    BY <1>1
  <2> QED
    BY <1>1, <2>1 DEF Cells
<1> QED
  BY <1>1, <1>2 DEF Once!Init, Once!Unforced

\* lazy.c 115-120: a promise is settled once, and every force of it delivers the
\* object it was settled with, for any threads, thunks and chains of promises,
\* whatever promises the thunks return; except for the promises that force_cc has
\* mixed up, as it copies and replaces contents that others work on.
THEOREM PromisesAreWriteOnce == Spec => PromiseIsWriteOnce
<1>1. Inv /\ [Next]_vars => [Once!Next]_<<Cells, answers>>
  BY StepOnce
<1> QED
  BY <1>1, InitOnce, Invariance, PTL DEF Spec, PromiseIsWriteOnce, Once!Spec
=============================================================================
