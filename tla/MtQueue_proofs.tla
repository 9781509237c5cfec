--------------------------- MODULE MtQueue_proofs ---------------------------
(* Proofs about MtQueue, for any number of threads and any max-length.  Every    *)
(* theorem names the mix of calls it needs, as some calls break what the others  *)
(* keep: the way out of a .../wait! call that has timed out clears the locker    *)
(* slot, whoever the locker is; queue-length stores a length measured without a  *)
(* lock; setting max-length tells nobody; a thread terminated under the big lock *)
(* leaves it locked; and dequeue! that finds a close marker makes room silently. *)
EXTENDS MtQueue, WellFoundedInduction, TLAPS

\* No .../wait! call has a timeout.
NoTimeouts == TRUE \notin TimeoutArgs

\* Nobody calls one of the procedures that take the big lock.
NoBigOps == \A t \in Threads : MayCall[t] \cap BigOps = {}

\* Nobody takes the big lock away from its holder.
LockRespected == NoTimeouts \/ NoBigOps

\* Nobody changes the max-length slot, whose setter takes no lock and tells nobody.
NoResizing == \A t \in Threads : "set-max-length" \notin MayCall[t]

\* What a unique operation has found out about the room in the queue stays so.
RoomRespected == NoResizing \/ NoBigOps

\* Nobody calls queue-length, which takes no lock.
NoUnlockedLength == \A t \in Threads : "queue-length" \notin MayCall[t]

\* TypeOK, but for the lower bound of the cached length.
TypeBase ==
    /\ items \in Seq(Items)
    /\ len \in Int
    /\ closed \in BOOLEAN
    /\ maxlen \in Int
    /\ sem \in Int
    /\ locker \in Threads \cup {NoThread}
    /\ pc \in [Threads -> Stages]
    /\ req \in [Threads -> Request]
    /\ snap \in [Threads -> Seq(Items)]
    /\ kept \in [Threads -> Seq(Items)]
    /\ ret \in [Threads -> Result]

-----------------------------------------------------------------------------
(* Facts about the building blocks.                                            *)

\* COND_BROADCAST yields stages again.
LEMMA NotifyType ==
    ASSUME NEW p \in [Threads -> Stages], NEW cv
    PROVE  Notify(p, cv) \in [Threads -> Stages]
  BY DEF Notify, Stages, Waits, BigStages

\* COND_BROADCAST only changes threads that sleep, so it moves nobody into or
\* out of the stages under the big lock, when cv is a condition variable.
LEMMA NotifyKeeps ==
    ASSUME NEW p \in [Threads -> Stages], NEW cv \in Waits, NEW t \in Threads
    PROVE  /\ Notify(p, cv)[t] \in BigStages <=> p[t] \in BigStages
           /\ p[t] \notin Waits => Notify(p, cv)[t] = p[t]
           /\ Notify(p, cv)[t] # p[t] => Notify(p, cv)[t] = "again"
  BY DEF Notify, Stages, Waits, BigStages

\* A set of natural numbers that is not empty has a smallest element.
LEMMA LeastNumber ==
    ASSUME NEW T, T \subseteq Nat, T # {}
    PROVE  \E x \in T : \A y \in T : x <= y
<1>1. PICK x \in T : \A y \in T : ~ (<<y, x>> \in OpToRel(<, Nat))
  BY NatLessThanWellFounded, WFMin
<1>2. ASSUME NEW y \in T, y < x PROVE FALSE
  <2>1. <<y, x>> \in Nat \X Nat
    OBVIOUS
  <2>2. <<y, x>> \in OpToRel(<, Nat)
    BY <1>2, <2>1, Zenon DEF OpToRel
  <2> QED
    BY <1>1, <2>2
<1>3. \A y \in T : x <= y
  BY <1>2
<1> QED
  BY <1>3

\* dequeue-int takes off no more cells than there are.
LEMMA LeadingRange ==
    ASSUME items \in Seq(Items)
    PROVE  /\ Leading \in 0..Len(items)
           /\ items # <<>> => Leading \in 1..Len(items)
<1>1. CASE \E i \in 1..Len(items) : items[i] # Marker
  <2> DEFINE T == {i \in 1..Len(items) : items[i] # Marker}
  <2>a. T \subseteq Nat /\ T # {}
    BY <1>1
  <2>1. PICK i \in T : \A j \in T : i <= j
    <3> HIDE DEF T
    <3> QED
      BY <2>a, LeastNumber
  <2>2. items[i] # Marker /\ \A j \in 1..(i - 1) : items[j] = Marker
    BY <2>1
  <2> QED
    BY <1>1, <2>2 DEF Leading
<1>2. CASE ~ \E i \in 1..Len(items) : items[i] # Marker
  BY <1>2 DEF Leading
<1> QED
  BY <1>1, <1>2

\* ... so that what it leaves is a list, shorter by that many cells.
LEMMA DequeueIntLength ==
    ASSUME items \in Seq(Items), len \in Int, DequeueInt
    PROVE  /\ items' \in Seq(Items)
           /\ len' \in Int
           /\ Len(items') = Len(items) - Leading
<1>1. Leading \in 0..Len(items)
  BY LeadingRange
<1>2. items' \in Seq(Items) /\ Len(items') = Len(items) - Leading
  BY <1>1 DEF DequeueInt
<1>3. len' \in Int
  BY <1>1 DEF DequeueInt
<1> QED
  BY <1>2, <1>3

\* What dequeue-int takes, if anything, is an object of the queue.
LEMMA TakenType ==
    ASSUME items \in Seq(Items)
    PROVE  Taken \in SUBSET Items
  BY LeadingRange DEF Taken, NoItem

\* The objects in a list.
LEMMA ObjectsType ==
    ASSUME NEW list \in Seq(Items)
    PROVE  Objects(list) \in SUBSET Items
  BY DEF Objects

\* What the overflow check computes.
LEMMA QLengthType ==
    ASSUME TypeBase
    PROVE  QLength \in Int /\ LenChecked \in Int
  BY DEF TypeBase, QLength, LenChecked

\* The type of a result.
LEMMA ResultType ==
    ASSUME NEW how \in {"none", "ok", "queue", "timeout-val", "error"},
           NEW objs \in SUBSET Items
    PROVE  [how |-> how, objs |-> objs] \in Result
  BY DEF Result

\* A call that returns.
LEMMA ReturnType ==
    ASSUME TypeBase, NEW t \in Threads, NEW p \in [Threads -> Stages],
           NEW how \in {"none", "ok", "queue", "timeout-val", "error"},
           NEW objs \in SUBSET Items,
           Return(t, p, how, objs)
    PROVE  /\ pc' \in [Threads -> Stages]
           /\ ret' \in [Threads -> Result]
  BY ResultType DEF Return, TypeBase, Stages

\* A call that goes on to another stage.
LEMMA StageType ==
    ASSUME TypeBase, NEW t \in Threads, NEW p \in [Threads -> Stages],
           NEW s \in Stages, Stage(t, p, s)
    PROVE  /\ pc' \in [Threads -> Stages]
           /\ ret' \in [Threads -> Result]
  BY DEF Stage, TypeBase

-----------------------------------------------------------------------------
(* Types.                                                                      *)

\* do-ok of the blocking insertions keeps the types.
LEMMA InsertType ==
    ASSUME TypeBase, NEW t \in Threads, NEW p \in [Threads -> Stages],
           NEW c \in BOOLEAN, Insert(t, p, c)
    PROVE  /\ items' \in Seq(Items) /\ len' \in Int /\ closed' \in BOOLEAN
           /\ locker' \in Threads \cup {NoThread}
           /\ pc' \in [Threads -> Stages] /\ ret' \in [Threads -> Result]
<1>1. req[t].obj \in Items
  BY DEF TypeBase, Request
<1>2. items' \in Seq(Items) /\ len' \in Int /\ closed' \in BOOLEAN
  BY <1>1, QLengthType DEF Insert, TypeBase, LenAdd
<1>3. locker' \in Threads \cup {NoThread}
  BY DEF Insert
<1>4. Notify(p, "lockWait") \in [Threads -> Stages]
  BY NotifyType
<1>5. pc' \in [Threads -> Stages] /\ ret' \in [Threads -> Result]
  BY <1>4, ReturnType DEF Insert
<1> QED
  BY <1>2, <1>3, <1>5

\* So do the operations under the mutex alone,
LEMMA TypeLight ==
    ASSUME TypeBase, NEW t \in Threads, Light(t)
    PROVE  TypeBase'
<1> USE DEF TypeBase
<1>0. /\ closed' \in BOOLEAN /\ maxlen' \in Int /\ sem' \in Int
      /\ req' \in [Threads -> Request] /\ snap' \in [Threads -> Seq(Items)]
      /\ kept' \in [Threads -> Seq(Items)]
  BY DEF Light
<1>1. CASE WaitBigLock(t, pc)
  BY <1>0, <1>1, StageType DEF WaitBigLock, Stages, Waits
<1>2. CASE GrabBigLock(t)
  BY <1>0, <1>2, StageType DEF GrabBigLock, Stages, BigStages
<1>3. CASE QWriteOp(t) /\ UNCHANGED locker
  <2>1. CASE Return(t, pc, "error", {}) /\ UNCHANGED <<items, len>>
    BY <1>0, <1>3, <2>1 DEF Return, Result, Stages
  <2>2. CASE len' = LenChecked /\ Return(t, pc, "error", {}) /\ UNCHANGED items
    BY <1>0, <1>3, <2>2, QLengthType DEF Return, Result, Stages
  <2>3. CASE /\ items' = (IF req[t].op = "enqueue!" THEN items \o <<req[t].obj>>
                          ELSE <<req[t].obj>> \o items)
             /\ len' = LenAdd(LenChecked, 1)
             /\ Return(t, Notify(pc, "readerWait"), "queue", {})
    <3>1. req[t].obj \in Items
      BY DEF Request
    <3>2. items' \in Seq(Items)
      BY <2>3, <3>1
    <3>3. len' \in Int
      BY <2>3, QLengthType DEF LenAdd
    <3>4. Notify(pc, "readerWait") \in [Threads -> Stages]
      BY NotifyType
    <3>5. pc' \in [Threads -> Stages] /\ ret' \in [Threads -> Result]
      BY <2>3, <3>4 DEF Return, Result, Stages
    <3> QED
      BY <1>0, <1>3, <3>2, <3>3, <3>5
  <2> QED
    BY <1>3, <2>1, <2>2, <2>3, Zenon DEF QWriteOp
<1>4. CASE Dequeue(t) /\ UNCHANGED locker
  <2>0. DequeueInt
    BY <1>4 DEF Dequeue
  <2>1. items' \in Seq(Items) /\ len' \in Int
    BY <2>0, DequeueIntLength
  <2>2. CASE Return(t, pc, "error", {})
    BY <1>0, <1>4, <2>1, <2>2 DEF Return, Result, Stages
  <2>3. CASE /\ pc' = [pc EXCEPT ![t] = "notify"]
             /\ ret' = [ret EXCEPT ![t] = [how |-> "ok", objs |-> Taken]]
    <3>1. [how |-> "ok", objs |-> Taken] \in Result
      BY TakenType, ResultType
    <3> QED
      BY <1>0, <1>4, <2>1, <2>3, <3>1 DEF Stages
  <2> QED
    BY <1>4, <2>2, <2>3, Zenon DEF Dequeue
<1>5. CASE DequeueAll(t) /\ UNCHANGED locker
  <2>1. Objects(items) \in SUBSET Items
    BY ObjectsType
  <2>2. pc' \in [Threads -> Stages] /\ ret' \in [Threads -> Result]
    BY <1>5, <2>1, ResultType DEF DequeueAll, Stages
  <2> QED
    BY <1>0, <1>5, <2>2 DEF DequeueAll
<1>6. CASE Query(t) /\ UNCHANGED locker
  <2>1. CASE len' = LenChecked /\ Return(t, pc, "ok", {}) /\ UNCHANGED items
    BY <1>0, <1>6, <2>1, QLengthType DEF Return, Result, Stages
  <2>2. CASE Return(t, pc, "error", {}) /\ UNCHANGED <<items, len>>
    BY <1>0, <1>6, <2>2 DEF Return, Result, Stages
  <2>3. CASE /\ items # <<>>
             /\ Return(t, pc, "ok", {items[Len(items)]})
             /\ UNCHANGED <<items, len>>
    <3>1. {items[Len(items)]} \in SUBSET Items
      BY <2>3
    <3> QED
      BY <1>0, <1>6, <2>3, <3>1, ReturnType
  <2> QED
    BY <1>6, <2>1, <2>2, <2>3, Zenon DEF Query
<1> QED
  BY <1>1, <1>2, <1>3, <1>4, <1>5, <1>6 DEF Light

\* enqueue/wait!, queue-push/wait! and mtqueue-close!,
LEMMA TypeWriter ==
    ASSUME TypeBase, NEW t \in Threads, Writer(t)
    PROVE  TypeBase'
<1> USE DEF TypeBase
<1>0. /\ maxlen' \in Int /\ sem' \in Int
      /\ req' \in [Threads -> Request] /\ snap' \in [Threads -> Seq(Items)]
      /\ kept' \in [Threads -> Seq(Items)]
  BY DEF Writer
<1>1. CASE RejectClosed(t)
  <2>1. CASE Return(t, pc, "error", {})
    BY <1>0, <1>1, <2>1 DEF RejectClosed, Return, Result, Stages
  <2>2. CASE Return(t, pc, "timeout-val", {})
    BY <1>0, <1>1, <2>2 DEF RejectClosed, Return, Result, Stages
  <2> QED
    BY <1>1, <2>1, <2>2, Zenon DEF RejectClosed
<1>2. CASE WaitBigLock(t, pc) /\ UNCHANGED closed
  BY <1>0, <1>2, StageType DEF WaitBigLock, Stages, Waits
<1>3. CASE /\ len' = (IF maxlen # 0 THEN LenChecked ELSE len)
           /\ Stage(t, pc, "writerWait")
           /\ UNCHANGED <<items, closed, locker>>
  BY <1>0, <1>3, StageType, QLengthType DEF Stages, Waits
<1>4. CASE WriterOk(t)
  <2>1. Notify(pc, "readerWait") \in [Threads -> Stages]
    BY NotifyType
  <2>2. (closed \/ req[t].close) \in BOOLEAN
    OBVIOUS
  <2> QED
    BY <1>0, <1>4, <2>1, <2>2, InsertType DEF WriterOk
<1> QED
  BY <1>1, <1>2, <1>3, <1>4 DEF Writer

\* dequeue/wait!,
LEMMA TypeReader ==
    ASSUME TypeBase, NEW t \in Threads, Reader(t)
    PROVE  TypeBase'
<1> USE DEF TypeBase
<1>0. /\ maxlen' \in Int /\ closed' \in BOOLEAN
      /\ req' \in [Threads -> Request] /\ snap' \in [Threads -> Seq(Items)]
      /\ kept' \in [Threads -> Seq(Items)]
  BY DEF Reader
<1>1. PICK n \in Int, p \in [Threads -> Stages] : ReaderTurn(t, n, p)
  <2>1. Notify(pc, "writerWait") \in [Threads -> Stages]
    BY NotifyType
  <2>2. CASE pc[t] = "enter"
    <3>1. ReaderTurn(t, sem + 1, Notify(pc, "writerWait"))
      BY <2>2 DEF Reader, ReaderStep
    <3> QED
      BY <2>1, <3>1
  <2>3. CASE pc[t] # "enter"
    <3>1. ReaderTurn(t, sem, pc)
      BY <2>3 DEF Reader, ReaderStep
    <3> QED
      BY <3>1
  <2> QED
    BY <2>2, <2>3
<1>2. CASE WaitBigLock(t, p) /\ sem' = n
  BY <1>0, <1>2, StageType DEF WaitBigLock, Stages, Waits
<1>3. CASE sem' = n /\ Stage(t, p, "readerWait") /\ UNCHANGED <<items, len, locker>>
  BY <1>0, <1>3, StageType DEF Stages, Waits
<1>4. CASE /\ sem' = n - 1
           /\ DequeueInt
           /\ locker' = NoThread
           /\ Return(t, Notify(Notify(p, "writerWait"), "lockWait"),
                     IF NoItem THEN "timeout-val" ELSE "ok", Taken)
  <2>1. items' \in Seq(Items) /\ len' \in Int
    BY <1>4, DequeueIntLength
  <2>2. Notify(Notify(p, "writerWait"), "lockWait") \in [Threads -> Stages]
    BY NotifyType
  <2>3. pc' \in [Threads -> Stages] /\ ret' \in [Threads -> Result]
    BY <1>4, <2>2, TakenType, ReturnType
  <2> QED
    BY <1>0, <1>4, <2>1, <2>3
<1> QED
  BY <1>1, <1>2, <1>3, <1>4 DEF ReaderTurn

\* and the start of a call.
LEMMA TypeCall ==
    ASSUME MtQueueAssumption, TypeBase, NEW t \in Threads, Call(t)
    PROVE  TypeBase'
<1> USE DEF TypeBase
<1>1. PICK op \in MayCall[t] :
      \E obj \in ObjArgs(op),
         timed \in IF op \in TimedOps THEN TimeoutArgs ELSE {FALSE},
         close \in IF op \in TimedOps THEN CloseArgs ELSE {op = "mtqueue-close!"} :
         /\ op = "dequeue/wait!" => sem < MaxReaders
         /\ req' = [req EXCEPT ![t] =
                [op |-> op, obj |-> obj, timed |-> timed, close |-> close,
                 strict |-> op # "mtqueue-close!"]]
  BY Zenon DEF Call
<1>2. PICK obj \in ObjArgs(op),
           timed \in IF op \in TimedOps THEN TimeoutArgs ELSE {FALSE},
           close \in IF op \in TimedOps THEN CloseArgs ELSE {op = "mtqueue-close!"} :
           req' = [req EXCEPT ![t] =
             [op |-> op, obj |-> obj, timed |-> timed, close |-> close,
              strict |-> op # "mtqueue-close!"]]
  BY <1>1, Zenon
<1>3. op \in Ops
  BY DEF MtQueueAssumption
<1>4. obj \in Items
  BY DEF ObjArgs, Items
<1>5. timed \in BOOLEAN
  BY DEF MtQueueAssumption
<1>6. close \in BOOLEAN
  BY DEF MtQueueAssumption
<1>7. (op # "mtqueue-close!") \in BOOLEAN
  OBVIOUS
<1>8. [op |-> op, obj |-> obj, timed |-> timed, close |-> close,
       strict |-> op # "mtqueue-close!"] \in Request
  BY <1>3, <1>4, <1>5, <1>6, <1>7, Zenon DEF Request
<1>9. req' \in [Threads -> Request]
  BY <1>2, <1>8
<1> QED
  BY <1>9 DEF Call, queueVars, Stages

\* The actions under the big lock.
LEMMA TypeBig ==
    ASSUME TypeBase, NEW t \in Threads,
           \/ ReadHead(t) \/ CheckRoom(t) \/ PutUnique(t) \/ TellReaders(t)
           \/ ScanOne(t) \/ ScanEnd(t) \/ CommitRemoval(t) \/ ReleaseBigLock(t)
           \/ Terminated(t)
    PROVE  TypeBase'
<1> USE DEF TypeBase
<1>1. CASE ReadHead(t)
  <2>1. Objects(items) \in SUBSET Items
    BY ObjectsType
  <2>2. ret' \in [Threads -> Result]
    <3> DEFINE how == IF req[t].op \in UniqueOps THEN "queue" ELSE "ok"
               objs == IF req[t].op = "queue->list" THEN Objects(items) ELSE {}
    <3>1. [how |-> how, objs |-> objs] \in Result
      BY <2>1, ResultType
    <3> QED
      BY <1>1, <3>1 DEF ReadHead
  <2>3. pc' \in [Threads -> Stages]
    <3>1. \E s \in {"scan", "put", "unlock"} : pc' = [pc EXCEPT ![t] = s]
      BY <1>1, Zenon DEF ReadHead
    <3> QED
      BY <3>1 DEF Stages, BigStages
  <2> QED
    BY <1>1, <2>2, <2>3 DEF ReadHead, queueVars
<1>2. CASE PutUnique(t)
  <2>0. /\ closed' \in BOOLEAN /\ maxlen' \in Int /\ sem' \in Int
        /\ locker' \in Threads \cup {NoThread}
        /\ req' \in [Threads -> Request] /\ snap' \in [Threads -> Seq(Items)]
        /\ kept' \in [Threads -> Seq(Items)] /\ ret' \in [Threads -> Result]
        /\ pc' \in [Threads -> Stages]
    BY <1>2 DEF PutUnique, Stage, Stages, BigStages
  <2>2. req[t].obj \in Items
    BY DEF Request
  <2>3. CASE items' = items \o <<req[t].obj>> /\ len' = LenAdd(len, 1)
    BY <2>0, <2>2, <2>3, SMTT(30) DEF LenAdd
  <2>4. CASE SetContent(<<req[t].obj>> \o snap[t])
    BY <2>0, <2>2, <2>4, SMTT(30) DEF SetContent
  <2> QED
    BY <1>2, <2>3, <2>4, Zenon DEF PutUnique
<1>9. CASE CheckRoom(t)
  <2>1. \/ /\ pc' = [pc EXCEPT ![t] = "unlock"]
           /\ ret' = [ret EXCEPT ![t] = [how |-> "error", objs |-> {}]]
        \/ pc' = [pc EXCEPT ![t] = "insert"] /\ ret' = ret
    BY <1>9, Zenon DEF CheckRoom, Stage
  <2>2. pc' \in [Threads -> Stages] /\ ret' \in [Threads -> Result]
    <3>1. [how |-> "error", objs |-> {}] \in Result
      BY ResultType
    <3>2. ret' \in [Threads -> Result]
      BY <2>1, <3>1
    <3>3. pc' \in [Threads -> Stages]
      BY <2>1 DEF Stages, BigStages
    <3> QED
      BY <3>2, <3>3
  <2>3. len' \in Int
    BY <1>9, QLengthType DEF CheckRoom
  <2>4. UNCHANGED <<items, closed, maxlen, sem, locker, req, snap, kept>>
    BY <1>9 DEF CheckRoom
  <2> QED
    BY <2>2, <2>3, <2>4
<1>3. CASE TellReaders(t)
  BY <1>3, NotifyType DEF TellReaders, queueVars, Stages, BigStages
<1>4. CASE ScanOne(t)
  <2>1. snap[t] \in Seq(Items) /\ snap[t] # <<>>
    BY <1>4 DEF ScanOne
  <2>2. Tail(snap[t]) \in Seq(Items) /\ Head(snap[t]) \in Items
    BY <2>1
  <2>3. snap' \in [Threads -> Seq(Items)]
    BY <1>4, <2>2 DEF ScanOne
  <2>4. kept' \in [Threads -> Seq(Items)]
    <3>1. kept[t] \o <<Head(snap[t])>> \in Seq(Items)
      BY <2>2
    <3>2. \/ kept' = [kept EXCEPT ![t] = kept[t] \o <<Head(snap[t])>>]
          \/ kept' = kept
      BY <1>4 DEF ScanOne
    <3> QED
      BY <3>1, <3>2
  <2>5. ret' \in [Threads -> Result]
    <3>1. ret[t] \in Result
      OBVIOUS
    <3>2. [ret[t] EXCEPT !.objs = ret[t].objs \cup {Head(snap[t])}] \in Result
      BY <2>2, <3>1 DEF Result
    <3>3. \/ ret' = [ret EXCEPT ![t] = [ret[t] EXCEPT !.objs = ret[t].objs \cup {Head(snap[t])}]]
          \/ ret' = ret
      BY <1>4 DEF ScanOne
    <3> QED
      BY <3>2, <3>3
  <2> QED
    BY <1>4, <2>3, <2>4, <2>5 DEF ScanOne, queueVars
<1>5. CASE ScanEnd(t)
  BY <1>5, NotifyType DEF ScanEnd, queueVars, Stages, BigStages
<1>6. CASE CommitRemoval(t)
  BY <1>6 DEF CommitRemoval, SetContent, Stage, Stages, BigStages
<1>7. CASE ReleaseBigLock(t)
  BY <1>7, NotifyType DEF ReleaseBigLock, Stages
<1>8. CASE Terminated(t)
  BY <1>8 DEF Terminated, Stage, queueVars, Stages
<1> QED
  BY <1>1, <1>2, <1>3, <1>4, <1>5, <1>6, <1>7, <1>8, <1>9

\* The actions that remain.
LEMMA TypeRest ==
    ASSUME MtQueueAssumption, TypeBase, NEW t \in Threads,
           \/ Returned(t) \/ NotifyWriters(t) \/ Expire(t) \/ TimedOut(t) \/ SpuriousWakeup(t)
           \/ MeasureLength(t) \/ StoreLength(t) \/ SetMaxLength(t)
    PROVE  TypeBase'
<1> USE DEF TypeBase
<1>1. CASE Returned(t)
  <2>1. NoResult \in Result
    BY DEF NoResult, Result
  <2>2. NoRequest \in Request
    BY DEF NoRequest, Request, Items, Ops, LightOps
  <2> QED
    BY <1>1, <2>1, <2>2 DEF Returned, queueVars, Stages
<1>2. CASE NotifyWriters(t)
  BY <1>2, NotifyType DEF NotifyWriters, queueVars, Stages
<1>3. CASE TimedOut(t)
  <2>1. pc' \in [Threads -> Stages] /\ ret' \in [Threads -> Result]
    BY <1>3, NotifyType DEF TimedOut, Return, Result, Stages
  <2> QED
    BY <1>3, <2>1 DEF TimedOut
<1>4. CASE SpuriousWakeup(t) \/ Expire(t)
  BY <1>4 DEF SpuriousWakeup, Expire, queueVars, Stages
<1>5. CASE MeasureLength(t)
  <2>1. CASE snap' = [snap EXCEPT ![t] = items] /\ Stage(t, pc, "store")
    BY <1>5, <2>1 DEF MeasureLength, queueVars, Stage, Stages
  <2>2. CASE Return(t, pc, "ok", {}) /\ UNCHANGED snap
    BY <1>5, <2>2 DEF MeasureLength, queueVars, Return, Result, Stages
  <2> QED
    BY <1>5, <2>1, <2>2 DEF MeasureLength
<1>6. CASE StoreLength(t)
  BY <1>6 DEF StoreLength, Return, Result, Stages
<1>7. CASE SetMaxLength(t)
  BY <1>7 DEF SetMaxLength, MtQueueAssumption, Return, Result, Stages
<1> QED
  BY <1>1, <1>2, <1>3, <1>4, <1>5, <1>6, <1>7

\* Every step of the queue keeps the types.
LEMMA TypeStep ==
    ASSUME MtQueueAssumption, TypeBase, [Next]_vars
    PROVE  TypeBase'
<1>1. CASE UNCHANGED vars
  BY <1>1 DEF TypeBase, vars
<1>2. CASE Next
  <2>1. PICK t \in Threads :
        \/ Call(t) \/ Returned(t)
        \/ Light(t) \/ NotifyWriters(t)
        \/ Writer(t) \/ Reader(t) \/ Expire(t) \/ TimedOut(t) \/ SpuriousWakeup(t)
        \/ ReadHead(t) \/ CheckRoom(t) \/ PutUnique(t) \/ TellReaders(t)
        \/ ScanOne(t) \/ ScanEnd(t) \/ CommitRemoval(t) \/ ReleaseBigLock(t)
        \/ Terminated(t)
        \/ MeasureLength(t) \/ StoreLength(t) \/ SetMaxLength(t)
    BY <1>2, Zenon DEF Next
  <2> QED
    BY <2>1, TypeCall, TypeLight, TypeWriter, TypeReader, TypeBig, TypeRest
<1> QED
  BY <1>1, <1>2

-----------------------------------------------------------------------------
(* The big lock.                                                               *)

\* No call that breaks the lock discipline is in progress.
Disciplined ==
    \A t \in Threads :
        /\ NoTimeouts => ~req[t].timed /\ pc[t] # "expired"
        /\ NoBigOps => req[t].op \notin BigOps /\ pc[t] \notin BigStages
        /\ NoResizing => req[t].op # "set-max-length"

\* What a thread under the big lock has read from the queue is still so: the
\* list that queue-push-unique! puts its object in front of is the content, and
\* remove-from-queue! has no more items than the queue.
WorkCurrent ==
    \A t \in Threads :
        /\ pc[t] \in {"put", "insert"} => snap[t] = items
        /\ pc[t] = "scan" => Len(kept[t]) + Len(snap[t]) <= Len(items)
        /\ pc[t] = "commit" => Len(kept[t]) <= Len(items)

LockInv == TypeBase /\ BigLockExclusive /\ Disciplined /\ WorkCurrent

\* Nobody is measuring the length without a lock.
Unmeasured == \A t \in Threads : req[t].op # "queue-length" /\ pc[t] # "store"

\* There is still room for the object that a unique operation is to insert.
RoomKept ==
    RoomRespected => \A t \in Threads :
        pc[t] = "insert" /\ maxlen > 0 => Len(items) + 1 <= maxlen

Inv == LockInv /\ LenExact /\ Unmeasured /\ RoomKept

\* When big-locked? is false, nobody is between %lock-mtq and %unlock-mtq.
LEMMA NobodyWorks ==
    ASSUME MtQueueAssumption, TypeBase, BigLockExclusive, ~BigLocked,
           NEW u \in Threads
    PROVE  pc[u] \notin BigStages
  BY DEF MtQueueAssumption, BigLockExclusive, BigLocked, BigStages

\* What a step that takes the mutex does to the threads under the big lock: it
\* leaves them, the list and the locker alone, or there are none and one enters.
Undisturbed(u) ==
    pc'[u] \in BigStages =>
        \/ pc'[u] = pc[u] /\ UNCHANGED <<items, locker>>
        \/ pc'[u] = "big" /\ locker' = u

\* Such a step keeps the big lock exclusive and what its holder has read current.
LEMMA UndisturbedKeeps ==
    ASSUME BigLockExclusive, WorkCurrent, UNCHANGED <<snap, kept>>,
           \A u \in Threads : Undisturbed(u)
    PROVE  BigLockExclusive' /\ WorkCurrent'
<1>1. BigLockExclusive'
  BY DEF BigLockExclusive, Undisturbed
<1>2. ASSUME NEW u \in Threads, pc'[u] \in {"put", "insert", "scan", "commit"}
      PROVE  pc'[u] = pc[u] /\ UNCHANGED <<items, snap, kept>>
  BY <1>2 DEF Undisturbed, BigStages
<1>3. WorkCurrent'
  BY <1>2 DEF WorkCurrent
<1> QED
  BY <1>1, <1>3

\* The operations under the mutex alone are such steps,
LEMMA LightFrame ==
    ASSUME MtQueueAssumption, TypeBase, BigLockExclusive, NEW t \in Threads, Light(t),
           NEW u \in Threads
    PROVE  Undisturbed(u)
<1> USE DEF TypeBase
<1>1. CASE WaitBigLock(t, pc)
  BY <1>1 DEF WaitBigLock, Stage, Undisturbed, BigStages
<1>2. CASE ~BigLocked /\ GrabBigLock(t)
  BY <1>2, NobodyWorks DEF GrabBigLock, Stage, Undisturbed
<1>3. CASE ~BigLocked /\ (QWriteOp(t) \/ Dequeue(t) \/ DequeueAll(t) \/ Query(t))
  <2>1. pc[u] \notin BigStages
    BY <1>3, NobodyWorks
  <2>2. \/ pc' = [pc EXCEPT ![t] = "return"]
        \/ pc' = [pc EXCEPT ![t] = "notify"]
        \/ pc' = [Notify(pc, "readerWait") EXCEPT ![t] = "return"]
    BY <1>3, Zenon DEF QWriteOp, Dequeue, DequeueAll, Query, Return
  <2>3. /\ Notify(pc, "readerWait") \in [Threads -> Stages]
        /\ Notify(pc, "readerWait")[u] \notin BigStages
    BY <2>1, NotifyType, NotifyKeeps DEF Waits
  <2> QED
    BY <2>1, <2>2, <2>3 DEF Undisturbed, BigStages
<1> QED
  BY <1>1, <1>2, <1>3, Zenon DEF Light

\* and the blocking insertions,
LEMMA WriterFrame ==
    ASSUME MtQueueAssumption, TypeBase, BigLockExclusive, NEW t \in Threads, Writer(t),
           NEW u \in Threads
    PROVE  Undisturbed(u)
<1> USE DEF TypeBase
<1>1. CASE RejectClosed(t)
  <2>1. pc' = [pc EXCEPT ![t] = "return"]
    BY <1>1, Zenon DEF RejectClosed, Return
  <2> QED
    BY <1>1, <2>1 DEF RejectClosed, Undisturbed, BigStages
<1>2. CASE WaitBigLock(t, pc)
  BY <1>2 DEF WaitBigLock, Stage, Undisturbed, BigStages
<1>3. CASE Stage(t, pc, "writerWait") /\ UNCHANGED <<items, closed, locker>>
  BY <1>3 DEF Stage, Undisturbed, BigStages
<1>4. CASE ~BigLocked /\ WriterOk(t)
  <2> DEFINE p == Notify(Notify(pc, "readerWait"), "lockWait")
  <2>1. pc[u] \notin BigStages
    BY <1>4, NobodyWorks
  <2>2. Notify(pc, "readerWait") \in [Threads -> Stages]
    BY NotifyType
  <2>3. p \in [Threads -> Stages] /\ p[u] \notin BigStages
    BY <2>1, <2>2, NotifyType, NotifyKeeps DEF Waits
  <2>4. pc' = [p EXCEPT ![t] = "return"]
    BY <1>4 DEF WriterOk, Insert, Return
  <2> QED
    BY <2>3, <2>4 DEF Undisturbed, BigStages
<1> QED
  BY <1>1, <1>2, <1>3, <1>4, Zenon DEF Writer

\* and dequeue/wait!.
LEMMA ReaderFrame ==
    ASSUME MtQueueAssumption, TypeBase, BigLockExclusive, NEW t \in Threads, Reader(t),
           NEW u \in Threads
    PROVE  Undisturbed(u)
<1> USE DEF TypeBase
<1> DEFINE started == Notify(pc, "writerWait")
<1>0. /\ started \in [Threads -> Stages]
      /\ started[u] \in BigStages => started[u] = pc[u]
  BY NotifyType, NotifyKeeps DEF Waits, BigStages
<1>1. \/ ReaderTurn(t, sem + 1, started)
      \/ ReaderTurn(t, sem, pc)
  BY Zenon DEF Reader, ReaderStep
<1>2. PICK n \in Int, p \in [Threads -> Stages] :
      /\ ReaderTurn(t, n, p)
      /\ p[u] \in BigStages => p[u] = pc[u]
  <2> HIDE DEF started
  <2>1. sem \in Int /\ sem + 1 \in Int /\ pc \in [Threads -> Stages]
    OBVIOUS
  <2> QED
    BY <1>0, <1>1, <2>1, Zenon
<1>3. p[u] \in BigStages => p[u] = pc[u]
  BY <1>2
<1>4. CASE WaitBigLock(t, p)
  BY <1>2, <1>3, <1>4 DEF WaitBigLock, Stage, Undisturbed, BigStages
<1>5. CASE Stage(t, p, "readerWait") /\ UNCHANGED <<items, len, locker>>
  BY <1>2, <1>3, <1>5 DEF Stage, Undisturbed, BigStages
<1>6. CASE /\ ~BigLocked
           /\ Return(t, Notify(Notify(p, "writerWait"), "lockWait"),
                     IF NoItem THEN "timeout-val" ELSE "ok", Taken)
  <2> DEFINE q == Notify(Notify(p, "writerWait"), "lockWait")
  <2>1. pc[u] \notin BigStages
    BY <1>6, NobodyWorks
  <2>2. p[u] \notin BigStages
    BY <1>3, <2>1
  <2>3. Notify(p, "writerWait") \in [Threads -> Stages]
    BY <1>2, NotifyType
  <2>4. q \in [Threads -> Stages] /\ q[u] \notin BigStages
    BY <1>2, <2>2, <2>3, NotifyType, NotifyKeeps DEF Waits
  <2>5. pc' = [q EXCEPT ![t] = "return"]
    BY <1>6 DEF Return
  <2> QED
    BY <2>4, <2>5 DEF Undisturbed, BigStages
<1> QED
  BY <1>2, <1>4, <1>5, <1>6, Zenon DEF ReaderTurn

\* A step of the thread under the big lock: it stays there as the locker, or it
\* leaves; there is nobody else whose work it could spoil.
LEMMA BigFrame ==
    ASSUME MtQueueAssumption, LockInv, TypeBase', NEW t \in Threads,
           \/ ReadHead(t) \/ CheckRoom(t) \/ PutUnique(t) \/ TellReaders(t)
           \/ ScanOne(t) \/ ScanEnd(t) \/ CommitRemoval(t) \/ ReleaseBigLock(t)
           \/ Terminated(t)
    PROVE  BigLockExclusive' /\ WorkCurrent'
<1> USE DEF TypeBase
<1>0. pc[t] \in BigStages
  BY DEF ReadHead, CheckRoom, PutUnique, TellReaders, ScanOne, ScanEnd, CommitRemoval,
         ReleaseBigLock, Terminated, BigStages
<1>1. locker = t
  BY <1>0 DEF LockInv, BigLockExclusive
<1>2. \A u \in Threads : u # t => pc[u] \notin BigStages
  BY <1>1 DEF LockInv, BigLockExclusive
<1>3. ASSUME NEW u \in Threads, u # t PROVE pc'[u] \notin BigStages
  <2>1. \/ pc'[u] = pc[u]
        \/ \E cv \in Waits : pc'[u] = Notify(pc, cv)[u]
    <3>1. CASE ReadHead(t)
      <4>1. \E s \in {"scan", "put", "unlock"} : pc' = [pc EXCEPT ![t] = s]
        BY <3>1, Zenon DEF ReadHead
      <4> QED
        BY <1>3, <4>1
    <3>2. CASE PutUnique(t)
      BY <1>3, <3>2 DEF PutUnique, Stage
    <3>8. CASE CheckRoom(t)
      <4>1. \E s \in {"insert", "unlock"} : pc' = [pc EXCEPT ![t] = s]
        BY <3>8, Zenon DEF CheckRoom, Stage
      <4> QED
        BY <1>3, <4>1
    <3>3. CASE TellReaders(t)
      BY <1>3, <3>3, NotifyType DEF TellReaders, Waits
    <3>4. CASE ScanOne(t)
      BY <3>4 DEF ScanOne
    <3>5. CASE ScanEnd(t)
      BY <1>3, <3>5, NotifyType DEF ScanEnd, Waits
    <3>6. CASE CommitRemoval(t) \/ Terminated(t)
      BY <1>3, <3>6 DEF CommitRemoval, Terminated, Stage
    <3>7. CASE ReleaseBigLock(t)
      BY <1>3, <3>7, NotifyType DEF ReleaseBigLock, Waits
    <3> QED
      BY <3>1, <3>2, <3>3, <3>4, <3>5, <3>6, <3>7, <3>8
  <2>2. pc[u] \notin BigStages /\ pc \in [Threads -> Stages]
    BY <1>2, <1>3 DEF LockInv
  <2>3. ASSUME NEW cv \in Waits PROVE Notify(pc, cv)[u] \notin BigStages
    BY <2>2, NotifyKeeps
  <2> QED
    BY <2>1, <2>2, <2>3
<1>4. pc'[t] \in BigStages => locker' = t
  <2>1. CASE ReleaseBigLock(t)
    BY <2>1, NotifyType DEF ReleaseBigLock, BigStages
  <2>2. CASE ~ReleaseBigLock(t)
    <3>1. UNCHANGED locker
      BY <2>2 DEF ReadHead, CheckRoom, PutUnique, TellReaders, ScanOne, ScanEnd, CommitRemoval,
                  Terminated, queueVars
    <3> QED
      BY <1>1, <3>1
  <2> QED
    BY <2>1, <2>2
<1>5. BigLockExclusive'
  BY <1>3, <1>4 DEF BigLockExclusive
<1>6. /\ pc'[t] \in {"put", "insert"} => snap'[t] = items'
      /\ pc'[t] = "scan" => Len(kept'[t]) + Len(snap'[t]) <= Len(items')
      /\ pc'[t] = "commit" => Len(kept'[t]) <= Len(items')
  <2>1. CASE ReadHead(t)
    <3>1. snap'[t] = items /\ kept'[t] = <<>> /\ items' = items
      BY <2>1 DEF ReadHead, queueVars
    <3>2. pc'[t] # "commit"
      BY <2>1 DEF ReadHead
    <3> QED
      BY <3>1, <3>2
  <2>2. CASE ScanOne(t)
    <3>1. /\ pc[t] = "scan" /\ pc' = pc /\ items' = items
          /\ snap[t] # <<>> /\ snap'[t] = Tail(snap[t])
      BY <2>2 DEF ScanOne, queueVars
    <3>2. Len(snap'[t]) = Len(snap[t]) - 1
      BY <3>1
    <3>3. kept'[t] = kept[t] \/ kept'[t] = kept[t] \o <<Head(snap[t])>>
      BY <2>2 DEF ScanOne
    <3>4. Len(kept[t] \o <<Head(snap[t])>>) = Len(kept[t]) + 1
      BY <3>1
    <3>5. Len(kept[t]) + Len(snap[t]) <= Len(items)
      BY <3>1 DEF LockInv, WorkCurrent
    <3>6. Len(kept[t]) \in Nat /\ Len(snap[t]) \in Nat /\ Len(items) \in Nat
      BY SMTT(30) DEF LockInv
    <3>7. Len(kept'[t]) \in Nat /\ Len(kept'[t]) <= Len(kept[t]) + 1
      BY <3>3, <3>4, <3>6
    <3>8. pc'[t] = "scan" /\ items' = items
      BY <3>1
    <3>9. Len(kept'[t]) + Len(snap'[t]) <= Len(items)
      <4> DEFINE a == Len(kept[t])  b == Len(snap[t])  c == Len(items)
                 d == Len(kept'[t]) e == Len(snap'[t])
      <4>1. a \in Nat /\ b \in Nat /\ c \in Nat /\ d \in Nat
            /\ d <= a + 1 /\ e = b - 1 /\ a + b <= c
        BY <3>2, <3>5, <3>6, <3>7, Zenon
      <4>2. d + e <= c
        <5> HIDE DEF a, b, c, d, e
        <5> QED
          BY <4>1
      <4> QED
        BY <4>2, Zenon
    <3> QED
      BY <3>8, <3>9, Zenon
  <2>3. CASE ScanEnd(t)
    <3>1. pc[t] = "scan" /\ snap[t] = <<>> /\ UNCHANGED <<items, kept>>
      BY <2>3 DEF ScanEnd, queueVars
    <3>2. Len(kept[t]) + Len(snap[t]) <= Len(items)
      BY <3>1 DEF LockInv, WorkCurrent
    <3>3. pc'[t] \in {"unlock", "commit"}
      BY <2>3, NotifyType DEF ScanEnd
    <3> QED
      BY <3>1, <3>2, <3>3
  <2>4. CASE PutUnique(t)
    BY <2>4 DEF PutUnique, Stage
  <2>6. CASE CheckRoom(t)
    <3>1. \E s \in {"insert", "unlock"} : pc' = [pc EXCEPT ![t] = s]
      BY <2>6, Zenon DEF CheckRoom, Stage
    <3>2. snap[t] = items /\ snap' = snap /\ items' = items
      BY <2>6 DEF CheckRoom, LockInv, WorkCurrent
    <3> QED
      BY <3>1, <3>2
  <2>5. CASE TellReaders(t) \/ CommitRemoval(t) \/ ReleaseBigLock(t) \/ Terminated(t)
    BY <2>5, NotifyType DEF TellReaders, CommitRemoval, ReleaseBigLock, Terminated, Stage
  <2> QED
    BY <2>1, <2>2, <2>3, <2>4, <2>5, <2>6
<1>7. WorkCurrent'
  BY <1>3, <1>6 DEF WorkCurrent, BigStages
<1> QED
  BY <1>5, <1>7

\* The actions that remain, but for a call that times out.
LEMMA RestFrame ==
    ASSUME MtQueueAssumption, LockInv, NEW t \in Threads,
           \/ Call(t) \/ Returned(t) \/ NotifyWriters(t) \/ Expire(t) \/ SpuriousWakeup(t)
           \/ SetMaxLength(t) \/ MeasureLength(t) \/ StoreLength(t)
    PROVE  BigLockExclusive' /\ WorkCurrent'
<1> USE DEF TypeBase, LockInv
<1>1. CASE \/ Call(t) \/ NotifyWriters(t) \/ Expire(t) \/ SpuriousWakeup(t)
           \/ SetMaxLength(t)
  <2>1. UNCHANGED <<items, locker, snap, kept>>
    BY <1>1 DEF Call, NotifyWriters, Expire, SpuriousWakeup, SetMaxLength, queueVars
  <2>2. ASSUME NEW u \in Threads PROVE Undisturbed(u)
    <3>1. CASE Call(t) \/ Expire(t) \/ SpuriousWakeup(t)
      BY <2>1, <3>1 DEF Call, Expire, SpuriousWakeup, Undisturbed, BigStages
    <3>2. CASE SetMaxLength(t)
      BY <2>1, <3>2 DEF SetMaxLength, Return, Undisturbed, BigStages
    <3>3. CASE NotifyWriters(t)
      <4> DEFINE p == Notify(pc, "writerWait")
      <4>1. /\ p \in [Threads -> Stages]
            /\ p[u] \in BigStages => p[u] = pc[u]
        BY NotifyType, NotifyKeeps DEF BigStages, Waits
      <4>2. pc' = [p EXCEPT ![t] = "return"]
        BY <3>3 DEF NotifyWriters
      <4> QED
        BY <2>1, <4>1, <4>2 DEF Undisturbed, BigStages
    <3> QED
      BY <1>1, <3>1, <3>2, <3>3
  <2> QED
    BY <2>1, <2>2, UndisturbedKeeps
<1>2. CASE Returned(t)
  <2>1. /\ UNCHANGED <<items, locker>>
        /\ \A u \in Threads : pc'[u] \in BigStages =>
               /\ u # t /\ pc'[u] = pc[u]
               /\ snap'[u] = snap[u] /\ kept'[u] = kept[u]
    BY <1>2 DEF Returned, queueVars, BigStages
  <2> QED
    BY <2>1 DEF BigLockExclusive, WorkCurrent, BigStages
<1>3. CASE MeasureLength(t) \/ StoreLength(t)
  <2>1. pc[t] \in {"enter", "store"} /\ UNCHANGED <<items, locker>>
    BY <1>3 DEF MeasureLength, StoreLength, queueVars
  <2>2. \E s \in {"store", "return"} : pc' = [pc EXCEPT ![t] = s]
    BY <1>3, Zenon DEF MeasureLength, StoreLength, Stage, Return
  <2>3. \A u \in Threads : u # t => snap'[u] = snap[u] /\ kept'[u] = kept[u]
    BY <1>3 DEF MeasureLength, StoreLength
  <2>4. \A u \in Threads : pc'[u] \in BigStages =>
            /\ u # t /\ pc'[u] = pc[u]
            /\ snap'[u] = snap[u] /\ kept'[u] = kept[u]
    BY <2>2, <2>3 DEF BigStages
  <2> QED
    BY <2>1, <2>4 DEF BigLockExclusive, WorkCurrent, BigStages
<1> QED
  BY <1>1, <1>2, <1>3

-----------------------------------------------------------------------------
(* The cached length and the bound.                                            *)

\* While the cached length is exact, so is what the overflow check computes.
LEMMA QLengthExact ==
    ASSUME TypeBase, LenExact
    PROVE  /\ QLength = Len(items)
           /\ LenChecked = -1 \/ LenChecked = Len(items)
  BY DEF TypeBase, LenExact, QLength, LenChecked

\* What a step may do to the list and its cached length.
Bounded == Len(items') > Len(items) /\ maxlen > 0 => Len(items') <= maxlen

\* An insertion of one item after the overflow check, or without it on a queue
\* of max-length 0.
LEMMA InsertOne ==
    ASSUME TypeBase, LenExact, NEW n \in {len, LenChecked},
           items' \in Seq(Items), Len(items') = Len(items) + 1,
           len' = LenAdd(n, 1),
           maxlen > 0 => ~Overflows(1)
    PROVE  LenExact' /\ Bounded
<1>1. n \in Int /\ (n = -1 \/ n = Len(items))
  BY QLengthExact DEF LenExact, TypeBase
<1>2. Len(items) \in Nat
  BY DEF TypeBase
<1>3. LenExact'
  BY <1>1, <1>2 DEF LenExact, LenAdd
<1>4. Bounded
  BY <1>2, QLengthExact DEF Bounded, Overflows, TypeBase
<1> QED
  BY <1>3, <1>4

\* Taking off leading cells.
LEMMA DequeueExact ==
    ASSUME TypeBase, LenExact, DequeueInt
    PROVE  LenExact' /\ Bounded
<1>1. Leading \in 0..Len(items) /\ Len(items') = Len(items) - Leading
  BY LeadingRange, DequeueIntLength DEF TypeBase
<1>2. len' = IF len >= 0 THEN len - Leading ELSE len
  BY DEF DequeueInt
<1>3. Len(items) \in Nat /\ len \in Int
  BY DEF TypeBase
<1> QED
  BY <1>1, <1>2, <1>3 DEF LenExact, Bounded

\* Leaving the list alone, with or without calculating its length.
LEMMA SameExact ==
    ASSUME TypeBase, LenExact, UNCHANGED items, len' = len \/ len' = LenChecked
    PROVE  LenExact' /\ Bounded
<1>1. LenExact'
  BY QLengthExact DEF LenExact
<1>2. Bounded
  BY DEF Bounded, TypeBase
<1> QED
  BY <1>1, <1>2

\* The operations under the mutex alone,
LEMMA LightExact ==
    ASSUME TypeBase, LenExact, NEW t \in Threads, Light(t)
    PROVE  LenExact' /\ Bounded
<1>0. req[t].obj \in Items /\ items \in Seq(Items) /\ Len(items) \in Nat
  BY DEF TypeBase, Request
<1>1. CASE UNCHANGED items /\ (len' = len \/ len' = LenChecked)
  BY <1>1, SameExact
<1>2. CASE DequeueInt
  BY <1>2, DequeueExact
<1>3. CASE items' = <<>> /\ len' = 0
  BY <1>0, <1>3 DEF LenExact, Bounded
<1>4. CASE /\ ~Overflows(1)
           /\ items' = (IF req[t].op = "enqueue!" THEN items \o <<req[t].obj>>
                        ELSE <<req[t].obj>> \o items)
           /\ len' = LenAdd(LenChecked, 1)
  <2>1. items' \in Seq(Items) /\ Len(items') = Len(items) + 1
    BY <1>0, <1>4
  <2> QED
    BY <1>4, <2>1, InsertOne
<1> QED
  BY <1>1, <1>2, <1>3, <1>4, Zenon
     DEF Light, WaitBigLock, GrabBigLock, QWriteOp, Dequeue, DequeueAll, Query

\* the blocking insertions,
LEMMA WriterExact ==
    ASSUME TypeBase, LenExact, NEW t \in Threads, Writer(t)
    PROVE  LenExact' /\ Bounded
<1>0. req[t].obj \in Items /\ items \in Seq(Items) /\ maxlen \in Int
  BY DEF TypeBase, Request
<1>1. CASE UNCHANGED items /\ (len' = len \/ len' = LenChecked)
  BY <1>1, SameExact
<1>2. CASE ~WriterMustWait /\ WriterOk(t)
  <2>1. items' \in Seq(Items) /\ Len(items') = Len(items) + 1
    BY <1>0, <1>2 DEF WriterOk, Insert
  <2>2. maxlen > 0 => ~Overflows(1)
    BY <1>0, <1>2 DEF WriterMustWait
  <2>3. PICK n \in {len, LenChecked} : len' = LenAdd(n, 1)
    BY <1>2 DEF WriterOk, Insert
  <2> QED
    BY <2>1, <2>2, <2>3, InsertOne
<1>3. \/ UNCHANGED items /\ (len' = len \/ len' = LenChecked)
      \/ ~WriterMustWait /\ WriterOk(t)
  <2>1. CASE RejectClosed(t)
    BY <2>1 DEF RejectClosed
  <2>2. CASE WaitBigLock(t, pc)
    BY <2>2 DEF WaitBigLock
  <2>3. CASE len' = (IF maxlen # 0 THEN LenChecked ELSE len) /\ UNCHANGED <<items, closed, locker>>
    BY <2>3
  <2> QED
    BY <2>1, <2>2, <2>3, Zenon DEF Writer
<1> QED
  BY <1>1, <1>2, <1>3

\* dequeue/wait!
LEMMA ReaderExact ==
    ASSUME TypeBase, LenExact, NEW t \in Threads, Reader(t)
    PROVE  LenExact' /\ Bounded
<1>1. CASE UNCHANGED <<items, len>>
  BY <1>1, SameExact
<1>2. CASE DequeueInt
  BY <1>2, DequeueExact
<1> QED
  BY <1>1, <1>2, Zenon DEF Reader, ReaderStep, ReaderTurn, WaitBigLock

\* and the operations under the big lock keep the cached length exact, and insert
\* within the bound.
LEMMA BigExact ==
    ASSUME Inv, NEW t \in Threads,
           \/ ReadHead(t) \/ CheckRoom(t) \/ PutUnique(t) \/ TellReaders(t)
           \/ ScanOne(t) \/ ScanEnd(t) \/ CommitRemoval(t) \/ ReleaseBigLock(t)
           \/ Terminated(t)
    PROVE  LenExact' /\ (RoomRespected \/ ~PutUnique(t) => Bounded)
<1> USE DEF Inv, LockInv
<1>0. /\ req[t].obj \in Items /\ items \in Seq(Items) /\ maxlen \in Int
      /\ snap[t] \in Seq(Items) /\ kept[t] \in Seq(Items)
  BY DEF TypeBase, Request
<1>1. CASE UNCHANGED items /\ (len' = len \/ len' = LenChecked)
  BY <1>1, SameExact
<1>2. CASE /\ PutUnique(t) /\ pc[t] = "insert"
           /\ items' = items \o <<req[t].obj>> /\ len' = LenAdd(len, 1)
  <2>1. Len(items') = Len(items) + 1 /\ Len(items) \in Nat /\ len \in Int
    BY <1>0, <1>2 DEF TypeBase
  <2>2. RoomRespected /\ maxlen > 0 => Len(items) + 1 <= maxlen
    BY <1>2 DEF RoomKept
  <2>3. Len(items') = 1 + Len(items) /\ (len = -1 \/ len = Len(items))
    BY <2>1 DEF LenExact
  <2>4. LenExact'
    BY <1>2, <2>1, <2>3 DEF LenExact, LenAdd
  <2>5. RoomRespected => Bounded
    BY <2>1, <2>2 DEF Bounded
  <2> QED
    BY <1>2, <2>4, <2>5
<1>3. CASE PutUnique(t) /\ pc[t] = "insert" /\ SetContent(<<req[t].obj>> \o snap[t])
  <2>1. snap[t] = items
    BY <1>3 DEF WorkCurrent
  <2>2. len' = -1 /\ Len(items') = Len(items) + 1
    BY <1>0, <1>3, <2>1 DEF SetContent
  <2>3. RoomRespected /\ maxlen > 0 => Len(items) + 1 <= maxlen
    BY <1>3 DEF RoomKept
  <2>4. LenExact'
    BY <2>2 DEF LenExact
  <2>5. RoomRespected => Bounded
    BY <2>2, <2>3 DEF Bounded
  <2> QED
    BY <1>3, <2>4, <2>5
<1>4. CASE pc[t] = "commit" /\ SetContent(kept[t])
  <2>1. Len(kept[t]) <= Len(items)
    BY <1>4 DEF WorkCurrent
  <2> QED
    BY <1>0, <1>4, <2>1 DEF SetContent, LenExact, Bounded
<1>5. CASE PutUnique(t)
  BY <1>1, <1>2, <1>3, <1>5, Zenon DEF PutUnique
<1>6. CASE CommitRemoval(t)
  BY <1>4, <1>6 DEF CommitRemoval
<1>7. CASE \/ ReadHead(t) \/ CheckRoom(t) \/ TellReaders(t) \/ ScanOne(t) \/ ScanEnd(t)
           \/ ReleaseBigLock(t) \/ Terminated(t)
  BY <1>1, <1>7 DEF ReadHead, CheckRoom, TellReaders, ScanOne, ScanEnd, ReleaseBigLock, Terminated,
                    queueVars
<1> QED
  BY <1>5, <1>6, <1>7

-----------------------------------------------------------------------------
(* Where a step takes the threads.                                             *)

\* A step of t takes t to one of the stages S, and may wake up others.
Goes(t, S) ==
    /\ pc'[t] \in S
    /\ \A u \in Threads \ {t} : pc'[u] = pc[u] \/ (pc[u] \in Waits /\ pc'[u] = "again")

\* Stages in which some sleepers have been woken up.
Woken(p) ==
    /\ p \in [Threads -> Stages]
    /\ \A u \in Threads : p[u] = pc[u] \/ (pc[u] \in Waits /\ p[u] = "again")

LEMMA WokenNotify ==
    ASSUME TypeBase
    PROVE  /\ Woken(pc)
           /\ \A p : \A cv \in Waits :
                 Woken(p) => /\ Woken(Notify(p, cv))
                             /\ \A u \in Threads : Notify(p, cv)[u] # cv
<1>1. Woken(pc)
  BY DEF TypeBase, Woken
<1>2. ASSUME NEW p, NEW cv \in Waits, Woken(p)
      PROVE  Woken(Notify(p, cv)) /\ \A u \in Threads : Notify(p, cv)[u] # cv
  <2>1. Notify(p, cv) \in [Threads -> Stages]
    BY <1>2, NotifyType DEF Woken
  <2> QED
    BY <1>2, <2>1 DEF Woken, Notify, Waits
<1> QED
  BY <1>1, <1>2

LEMMA WokenGoes ==
    ASSUME NEW p, Woken(p), NEW t \in Threads, NEW s, pc' = [p EXCEPT ![t] = s]
    PROVE  Goes(t, {s})
  BY DEF Woken, Goes

LEMMA LightGoes ==
    ASSUME TypeBase, NEW t \in Threads, Light(t)
    PROVE  /\ pc[t] \in {"enter", "again"}
           /\ \/ Goes(t, {"return", "notify", "lockWait"})
              \/ ~BigLocked /\ GrabBigLock(t) /\ Goes(t, {"big"})
<1>1. \/ pc' = [pc EXCEPT ![t] = "return"]
      \/ pc' = [pc EXCEPT ![t] = "notify"]
      \/ pc' = [pc EXCEPT ![t] = "lockWait"]
      \/ ~BigLocked /\ GrabBigLock(t) /\ pc' = [pc EXCEPT ![t] = "big"]
      \/ pc' = [Notify(pc, "readerWait") EXCEPT ![t] = "return"]
  BY Zenon DEF Light, WaitBigLock, GrabBigLock, QWriteOp, Dequeue, DequeueAll, Query,
               Return, Stage
<1>2. Woken(pc) /\ Woken(Notify(pc, "readerWait"))
  BY WokenNotify DEF Waits
<1>3. \/ Goes(t, {"return"}) \/ Goes(t, {"notify"}) \/ Goes(t, {"lockWait"})
      \/ ~BigLocked /\ GrabBigLock(t) /\ Goes(t, {"big"})
  BY <1>1, <1>2, WokenGoes
<1> QED
  BY <1>3 DEF Light, Goes

LEMMA WriterGoes ==
    ASSUME TypeBase, NEW t \in Threads, Writer(t)
    PROVE  pc[t] \in {"enter", "again"} /\ Goes(t, {"return", "lockWait", "writerWait"})
<1>1. \/ pc' = [pc EXCEPT ![t] = "return"]
      \/ pc' = [pc EXCEPT ![t] = "lockWait"]
      \/ pc' = [pc EXCEPT ![t] = "writerWait"]
      \/ pc' = [Notify(Notify(pc, "readerWait"), "lockWait") EXCEPT ![t] = "return"]
  BY Zenon DEF Writer, RejectClosed, WaitBigLock, WriterOk, Insert, Return, Stage
<1>2. Woken(pc) /\ Woken(Notify(Notify(pc, "readerWait"), "lockWait"))
  <2>1. Woken(Notify(pc, "readerWait"))
    BY WokenNotify DEF Waits
  <2> QED
    BY <2>1, WokenNotify DEF Waits
<1>3. Goes(t, {"return"}) \/ Goes(t, {"lockWait"}) \/ Goes(t, {"writerWait"})
  BY <1>1, <1>2, WokenGoes
<1> QED
  BY <1>3 DEF Writer, Goes

LEMMA ReaderGoes ==
    ASSUME TypeBase, NEW t \in Threads, Reader(t)
    PROVE  pc[t] \in {"enter", "again"} /\ Goes(t, {"return", "lockWait", "readerWait"})
<1>1. PICK n, p : Woken(p) /\ ReaderTurn(t, n, p)
  <2>1. Woken(pc) /\ Woken(Notify(pc, "writerWait"))
    BY WokenNotify DEF Waits
  <2>2. ReaderTurn(t, sem + 1, Notify(pc, "writerWait")) \/ ReaderTurn(t, sem, pc)
    BY Zenon DEF Reader, ReaderStep
  <2> QED
    BY <2>1, <2>2, Zenon
<1>2. \/ pc' = [p EXCEPT ![t] = "lockWait"]
      \/ pc' = [p EXCEPT ![t] = "readerWait"]
      \/ pc' = [Notify(Notify(p, "writerWait"), "lockWait") EXCEPT ![t] = "return"]
  BY <1>1, Zenon DEF ReaderTurn, WaitBigLock, Stage, Return
<1>3. Woken(Notify(Notify(p, "writerWait"), "lockWait"))
  <2>1. Woken(Notify(p, "writerWait"))
    BY <1>1, WokenNotify DEF Waits
  <2> QED
    BY <2>1, WokenNotify DEF Waits
<1>4. Goes(t, {"return"}) \/ Goes(t, {"lockWait"}) \/ Goes(t, {"readerWait"})
  BY <1>1, <1>2, <1>3, WokenGoes
<1> QED
  BY <1>4 DEF Reader, Goes

LEMMA RestGoes ==
    ASSUME TypeBase, NEW t \in Threads
    PROVE  /\ Call(t) => pc[t] = "idle" /\ Goes(t, {"enter"})
           /\ Returned(t) => pc[t] = "return" /\ Goes(t, {"idle"})
           /\ NotifyWriters(t) => pc[t] = "notify" /\ Goes(t, {"return"})
           /\ Expire(t) => pc[t] \in {"readerWait", "writerWait"} /\ Goes(t, {"expired"})
           /\ TimedOut(t) => pc[t] = "expired" /\ Goes(t, {"return"})
           /\ SpuriousWakeup(t) => pc[t] \in Waits /\ Goes(t, {"again"})
           /\ SetMaxLength(t) => pc[t] = "enter" /\ Goes(t, {"return"})
           /\ MeasureLength(t) => pc[t] = "enter" /\ Goes(t, {"store", "return"})
           /\ StoreLength(t) => pc[t] = "store" /\ Goes(t, {"return"})
<1>1. /\ Woken(pc) /\ Woken(Notify(pc, "writerWait")) /\ Woken(Notify(pc, "lockWait"))
  BY WokenNotify DEF Waits
<1>2. /\ Call(t) => pc' = [pc EXCEPT ![t] = "enter"]
      /\ Returned(t) => pc' = [pc EXCEPT ![t] = "idle"]
      /\ NotifyWriters(t) => pc' = [Notify(pc, "writerWait") EXCEPT ![t] = "return"]
      /\ TimedOut(t) => pc' = [Notify(pc, "lockWait") EXCEPT ![t] = "return"]
      /\ Expire(t) => pc' = [pc EXCEPT ![t] = "expired"]
      /\ SpuriousWakeup(t) => pc' = [pc EXCEPT ![t] = "again"]
      /\ SetMaxLength(t) => pc' = [pc EXCEPT ![t] = "return"]
      /\ StoreLength(t) => pc' = [pc EXCEPT ![t] = "return"]
  BY DEF Call, Returned, NotifyWriters, Expire, TimedOut, SpuriousWakeup, SetMaxLength, StoreLength,
         Return
<1>3. MeasureLength(t) => \/ pc' = [pc EXCEPT ![t] = "store"]
                          \/ pc' = [pc EXCEPT ![t] = "return"]
  BY Zenon DEF MeasureLength, Stage, Return
<1>4. MeasureLength(t) => Goes(t, {"store"}) \/ Goes(t, {"return"})
  BY <1>1, <1>3, WokenGoes
<1>5. MeasureLength(t) => Goes(t, {"store", "return"})
  BY <1>4 DEF Goes
<1>6. Call(t) => pc[t] = "idle" /\ Goes(t, {"enter"})
  BY <1>1, <1>2, WokenGoes DEF Call
<1>7. Returned(t) => pc[t] = "return" /\ Goes(t, {"idle"})
  BY <1>1, <1>2, WokenGoes DEF Returned
<1>8. NotifyWriters(t) => pc[t] = "notify" /\ Goes(t, {"return"})
  BY <1>1, <1>2, WokenGoes DEF NotifyWriters
<1>14. Expire(t) => pc[t] \in {"readerWait", "writerWait"} /\ Goes(t, {"expired"})
  BY <1>1, <1>2, WokenGoes DEF Expire
<1>9. TimedOut(t) => pc[t] = "expired" /\ Goes(t, {"return"})
  BY <1>1, <1>2, WokenGoes DEF TimedOut
<1>10. SpuriousWakeup(t) => pc[t] \in Waits /\ Goes(t, {"again"})
  BY <1>1, <1>2, WokenGoes DEF SpuriousWakeup
<1>11. SetMaxLength(t) => pc[t] = "enter" /\ Goes(t, {"return"})
  BY <1>1, <1>2, WokenGoes DEF SetMaxLength
<1>12. StoreLength(t) => pc[t] = "store" /\ Goes(t, {"return"})
  BY <1>1, <1>2, WokenGoes DEF StoreLength
<1>13. MeasureLength(t) => pc[t] = "enter"
  BY DEF MeasureLength
<1> QED
  BY <1>5, <1>6, <1>7, <1>8, <1>9, <1>10, <1>11, <1>12, <1>13, <1>14

LEMMA BigGoes ==
    ASSUME TypeBase, NEW t \in Threads
    PROVE  /\ ReadHead(t) => pc[t] = "big" /\ Goes(t, {"scan", "put", "unlock"})
           /\ CheckRoom(t) => pc[t] = "put" /\ Goes(t, {"insert", "unlock"})
           /\ PutUnique(t) => pc[t] = "insert" /\ Goes(t, {"tell"})
           /\ TellReaders(t) => pc[t] = "tell" /\ Goes(t, {"unlock"})
           /\ ScanOne(t) => pc[t] = "scan" /\ Goes(t, {"scan"})
           /\ ScanEnd(t) => pc[t] = "scan" /\ Goes(t, {"commit", "unlock"})
           /\ CommitRemoval(t) => pc[t] = "commit" /\ Goes(t, {"unlock"})
           /\ ReleaseBigLock(t) => pc[t] = "unlock" /\ Goes(t, {"return"})
           /\ Terminated(t) => pc[t] \in BigStages /\ Goes(t, {"dead"})
<1>1. /\ Woken(pc) /\ Woken(Notify(pc, "writerWait")) /\ Woken(Notify(pc, "lockWait"))
      /\ Woken(Notify(pc, "readerWait"))
  BY WokenNotify DEF Waits
<1>2. /\ TellReaders(t) => pc' = [Notify(pc, "readerWait") EXCEPT ![t] = "unlock"]
      /\ CommitRemoval(t) => pc' = [pc EXCEPT ![t] = "unlock"]
      /\ PutUnique(t) => pc' = [pc EXCEPT ![t] = "tell"]
      /\ ReleaseBigLock(t) => pc' = [Notify(pc, "lockWait") EXCEPT ![t] = "return"]
      /\ Terminated(t) => pc' = [pc EXCEPT ![t] = "dead"]
  BY DEF TellReaders, CommitRemoval, PutUnique, ReleaseBigLock, Terminated, Stage
<1>3. ScanOne(t) => pc[t] = "scan" /\ Goes(t, {"scan"})
  BY DEF ScanOne, Goes
<1>4. ReadHead(t) => \E s \in {"scan", "put", "unlock"} : pc' = [pc EXCEPT ![t] = s]
  BY Zenon DEF ReadHead
<1>5. ReadHead(t) => Goes(t, {"scan", "put", "unlock"})
  BY <1>1, <1>4 DEF Goes, Woken
<1>6. CheckRoom(t) => \E s \in {"insert", "unlock"} : pc' = [pc EXCEPT ![t] = s]
  BY Zenon DEF CheckRoom, Stage
<1>7. CheckRoom(t) => Goes(t, {"insert", "unlock"})
  BY <1>1, <1>6 DEF Goes, Woken
<1>16. PutUnique(t) => pc[t] = "insert" /\ Goes(t, {"tell"})
  BY <1>1, <1>2, WokenGoes DEF PutUnique
<1>8. ScanEnd(t) => \/ pc' = [pc EXCEPT ![t] = "unlock"]
                    \/ pc' = [Notify(pc, "writerWait") EXCEPT ![t] = "commit"]
  BY DEF ScanEnd
<1>9. ScanEnd(t) => Goes(t, {"unlock"}) \/ Goes(t, {"commit"})
  BY <1>1, <1>8, WokenGoes
<1>10. ScanEnd(t) => Goes(t, {"commit", "unlock"})
  BY <1>9 DEF Goes
<1>11. TellReaders(t) => pc[t] = "tell" /\ Goes(t, {"unlock"})
  BY <1>1, <1>2, WokenGoes DEF TellReaders
<1>12. CommitRemoval(t) => pc[t] = "commit" /\ Goes(t, {"unlock"})
  BY <1>1, <1>2, WokenGoes DEF CommitRemoval
<1>13. ReleaseBigLock(t) => pc[t] = "unlock" /\ Goes(t, {"return"})
  BY <1>1, <1>2, WokenGoes DEF ReleaseBigLock
<1>14. Terminated(t) => pc[t] \in BigStages /\ Goes(t, {"dead"})
  BY <1>1, <1>2, WokenGoes DEF Terminated
<1>15. /\ ReadHead(t) => pc[t] = "big"
       /\ CheckRoom(t) => pc[t] = "put"
       /\ ScanEnd(t) => pc[t] = "scan"
  BY DEF ReadHead, CheckRoom, ScanEnd
<1> QED
  BY <1>3, <1>5, <1>7, <1>10, <1>11, <1>12, <1>13, <1>14, <1>15, <1>16

-----------------------------------------------------------------------------
(* The theorems.                                                               *)

\* Only MeasureLength takes a thread to the stage "store".
LEMMA NoStore ==
    ASSUME TypeBase, NEW t \in Threads, NEW u \in Threads, pc[u] # "store",
           \/ Call(t) \/ Returned(t)
           \/ Light(t) \/ NotifyWriters(t)
           \/ Writer(t) \/ Reader(t) \/ Expire(t) \/ TimedOut(t) \/ SpuriousWakeup(t)
           \/ ReadHead(t) \/ CheckRoom(t) \/ PutUnique(t) \/ TellReaders(t)
           \/ ScanOne(t) \/ ScanEnd(t) \/ CommitRemoval(t) \/ ReleaseBigLock(t)
           \/ Terminated(t) \/ SetMaxLength(t)
    PROVE  pc'[u] # "store"
<1> USE DEF TypeBase
<1> DEFINE N(cv) == Notify(pc, cv)
           Kept(p) == p \in [Threads -> Stages] /\ p[u] # "store"
           Others == {"idle", "enter", "return", "notify", "lockWait", "readerWait",
                      "writerWait", "big", "scan", "put", "insert", "tell", "commit",
                      "unlock", "again", "expired", "dead"}
<1>1. ASSUME NEW p, Kept(p), NEW s \in Others, pc' = [p EXCEPT ![t] = s]
      PROVE  pc'[u] # "store"
  BY <1>1
<1>2. Kept(pc)
  OBVIOUS
<1>3. ASSUME NEW p, Kept(p), NEW cv PROVE Kept(Notify(p, cv))
  <2>1. Notify(p, cv) \in [Threads -> Stages]
    BY <1>3, NotifyType
  <2> QED
    BY <1>3, <2>1 DEF Notify
<1>4. CASE \/ Call(t) \/ Returned(t) \/ Expire(t) \/ SpuriousWakeup(t) \/ ScanOne(t)
           \/ PutUnique(t) \/ CommitRemoval(t) \/ Terminated(t) \/ SetMaxLength(t)
  BY <1>4 DEF Call, Returned, Expire, SpuriousWakeup, ScanOne, PutUnique, CommitRemoval,
              Terminated, SetMaxLength, Stage, Return
<1>5. CASE ReadHead(t)
  <2>1. \E s \in {"scan", "put", "unlock"} : pc' = [pc EXCEPT ![t] = s]
    BY <1>5, Zenon DEF ReadHead
  <2> QED
    BY <2>1
<1>6. CASE CheckRoom(t)
  <2>1. \E s \in {"insert", "unlock"} : pc' = [pc EXCEPT ![t] = s]
    BY <1>6, Zenon DEF CheckRoom, Stage
  <2> QED
    BY <2>1
<1>7. CASE NotifyWriters(t) \/ TellReaders(t) \/ ReleaseBigLock(t) \/ TimedOut(t)
  <2>1. PICK cv \in Waits, s \in {"return", "unlock"} :
        pc' = [Notify(pc, cv) EXCEPT ![t] = s]
    BY <1>7 DEF NotifyWriters, TellReaders, ReleaseBigLock, TimedOut, Return, Waits
  <2> QED
    BY <1>1, <1>2, <1>3, <2>1
<1>8. CASE ScanEnd(t)
  <2>1. \/ pc' = [pc EXCEPT ![t] = "unlock"]
        \/ pc' = [Notify(pc, "writerWait") EXCEPT ![t] = "commit"]
    BY <1>8 DEF ScanEnd
  <2> QED
    BY <1>1, <1>2, <1>3, <2>1
<1>9. CASE Light(t)
  <2>1. \/ pc' = [pc EXCEPT ![t] = "return"]
        \/ pc' = [pc EXCEPT ![t] = "notify"]
        \/ pc' = [pc EXCEPT ![t] = "lockWait"]
        \/ pc' = [pc EXCEPT ![t] = "big"]
        \/ pc' = [Notify(pc, "readerWait") EXCEPT ![t] = "return"]
    BY <1>9, Zenon DEF Light, WaitBigLock, GrabBigLock, QWriteOp, Dequeue, DequeueAll,
                       Query, Return, Stage
  <2> QED
    BY <1>1, <1>2, <1>3, <2>1
<1>10. CASE Writer(t)
  <2>1. \/ pc' = [pc EXCEPT ![t] = "return"]
        \/ pc' = [pc EXCEPT ![t] = "lockWait"]
        \/ pc' = [pc EXCEPT ![t] = "writerWait"]
        \/ pc' = [Notify(Notify(pc, "readerWait"), "lockWait") EXCEPT ![t] = "return"]
    BY <1>10, Zenon DEF Writer, RejectClosed, WaitBigLock, WriterOk, Insert, Return, Stage
  <2>2. Kept(Notify(Notify(pc, "readerWait"), "lockWait"))
    <3> HIDE DEF Kept
    <3> QED
      BY <1>2, <1>3
  <2> QED
    BY <1>1, <1>2, <2>1, <2>2
<1>11. CASE Reader(t)
  <2> DEFINE started == Notify(pc, "writerWait")
  <2>1. ReaderTurn(t, sem + 1, started) \/ ReaderTurn(t, sem, pc)
    BY <1>11, Zenon DEF Reader, ReaderStep
  <2>2. PICK n, p : Kept(p) /\ ReaderTurn(t, n, p)
    <3>1. Kept(started)
      BY <1>2, <1>3
    <3> HIDE DEF Kept, started
    <3> QED
      BY <1>2, <2>1, <3>1, Zenon
  <2>3. \/ pc' = [p EXCEPT ![t] = "lockWait"]
        \/ pc' = [p EXCEPT ![t] = "readerWait"]
        \/ pc' = [Notify(Notify(p, "writerWait"), "lockWait") EXCEPT ![t] = "return"]
    BY <2>2, Zenon DEF ReaderTurn, WaitBigLock, Stage, Return
  <2>4. Kept(Notify(Notify(p, "writerWait"), "lockWait"))
    <3> HIDE DEF Kept
    <3> QED
      BY <1>3, <2>2
  <2> QED
    BY <1>1, <2>2, <2>3, <2>4
<1> QED
  BY <1>4, <1>5, <1>6, <1>7, <1>8, <1>9, <1>10, <1>11

\* Only Expire takes a thread to the stage "expired", and only CheckRoom to the
\* stage "insert".
LEMMA NewStage ==
    ASSUME TypeBase, NEW t \in Threads, NEW u \in Threads,
        \/ Call(t) \/ Returned(t)
        \/ Light(t) \/ NotifyWriters(t)
        \/ Writer(t) \/ Reader(t) \/ Expire(t) \/ TimedOut(t) \/ SpuriousWakeup(t)
        \/ ReadHead(t) \/ CheckRoom(t) \/ PutUnique(t) \/ TellReaders(t)
        \/ ScanOne(t) \/ ScanEnd(t) \/ CommitRemoval(t) \/ ReleaseBigLock(t)
        \/ Terminated(t)
        \/ MeasureLength(t) \/ StoreLength(t) \/ SetMaxLength(t)
    PROVE  /\ pc'[u] = "expired" => Expire(t) \/ pc[u] = "expired"
           /\ pc'[u] = "insert" => (CheckRoom(t) /\ u = t) \/ (u # t /\ pc[u] = "insert")
<1> DEFINE Elsewhere == {"enter", "idle", "return", "notify", "lockWait", "readerWait",
                         "writerWait", "again", "store", "big", "scan", "put", "tell",
                         "commit", "unlock", "dead"}
<1>1. \/ Goes(t, Elsewhere)
      \/ Expire(t) /\ Goes(t, {"expired"})
      \/ CheckRoom(t) /\ Goes(t, {"insert", "unlock"})
  <2>1. CASE Light(t)
    BY <2>1, LightGoes DEF Goes
  <2>2. CASE Writer(t) \/ Reader(t)
    BY <2>2, WriterGoes, ReaderGoes DEF Goes
  <2>3. CASE \/ Call(t) \/ Returned(t) \/ NotifyWriters(t) \/ Expire(t) \/ TimedOut(t)
             \/ SpuriousWakeup(t) \/ MeasureLength(t) \/ StoreLength(t) \/ SetMaxLength(t)
    BY <2>3, RestGoes DEF Goes
  <2>4. CASE \/ ReadHead(t) \/ CheckRoom(t) \/ PutUnique(t) \/ TellReaders(t)
             \/ ScanOne(t) \/ ScanEnd(t) \/ CommitRemoval(t) \/ ReleaseBigLock(t)
             \/ Terminated(t)
    BY <2>4, BigGoes DEF Goes
  <2> QED
    BY <2>1, <2>2, <2>3, <2>4
<1> QED
  BY <1>1 DEF Goes

\* Nobody comes under the big lock without a call that takes it.
LEMMA NobodyGrabs ==
    ASSUME TypeBase, NEW t \in Threads, NEW u \in Threads,
           pc[t] \notin BigStages, pc[u] \notin BigStages, req[t].op \notin BigOps,
           \/ Call(t) \/ Returned(t)
           \/ Light(t) \/ NotifyWriters(t)
           \/ Writer(t) \/ Reader(t) \/ Expire(t) \/ TimedOut(t) \/ SpuriousWakeup(t)
           \/ ReadHead(t) \/ CheckRoom(t) \/ PutUnique(t) \/ TellReaders(t)
           \/ ScanOne(t) \/ ScanEnd(t) \/ CommitRemoval(t) \/ ReleaseBigLock(t)
           \/ Terminated(t) \/ SetMaxLength(t) \/ MeasureLength(t) \/ StoreLength(t)
    PROVE  pc'[u] \notin BigStages
<1> USE DEF TypeBase
<1> DEFINE Kept(p) == p \in [Threads -> Stages] /\ p[u] \notin BigStages
           Others == {"idle", "enter", "return", "notify", "lockWait", "readerWait",
                      "writerWait", "again", "expired"}
<1>1. ASSUME NEW p, Kept(p), NEW s \in Others, pc' = [p EXCEPT ![t] = s]
      PROVE  pc'[u] \notin BigStages
  BY <1>1 DEF BigStages
<1>2. Kept(pc)
  OBVIOUS
<1>3. ASSUME NEW p, Kept(p), NEW cv PROVE Kept(Notify(p, cv))
  <2>1. Notify(p, cv) \in [Threads -> Stages]
    BY <1>3, NotifyType
  <2> QED
    BY <1>3, <2>1 DEF Notify, BigStages
<1>4. CASE \/ Call(t) \/ Returned(t) \/ Expire(t) \/ SpuriousWakeup(t)
           \/ SetMaxLength(t)
  BY <1>1, <1>2, <1>4 DEF Call, Returned, Expire, SpuriousWakeup, SetMaxLength, Stage, Return
<1>5. CASE NotifyWriters(t) \/ TimedOut(t)
  <2>1. PICK cv \in Waits : pc' = [Notify(pc, cv) EXCEPT ![t] = "return"]
    BY <1>5 DEF NotifyWriters, TimedOut, Return, Waits
  <2> QED
    BY <1>1, <1>2, <1>3, <2>1
<1>6. CASE Light(t)
  <2>1. \/ pc' = [pc EXCEPT ![t] = "return"]
        \/ pc' = [pc EXCEPT ![t] = "notify"]
        \/ pc' = [pc EXCEPT ![t] = "lockWait"]
        \/ pc' = [Notify(pc, "readerWait") EXCEPT ![t] = "return"]
    BY <1>6, Zenon DEF Light, WaitBigLock, GrabBigLock, QWriteOp, Dequeue, DequeueAll,
                       Query, Return, Stage
  <2> QED
    BY <1>1, <1>2, <1>3, <2>1
<1>7. CASE Writer(t)
  <2>1. \/ pc' = [pc EXCEPT ![t] = "return"]
        \/ pc' = [pc EXCEPT ![t] = "lockWait"]
        \/ pc' = [pc EXCEPT ![t] = "writerWait"]
        \/ pc' = [Notify(Notify(pc, "readerWait"), "lockWait") EXCEPT ![t] = "return"]
    BY <1>7, Zenon DEF Writer, RejectClosed, WaitBigLock, WriterOk, Insert, Return, Stage
  <2>2. Kept(Notify(Notify(pc, "readerWait"), "lockWait"))
    <3> HIDE DEF Kept
    <3> QED
      BY <1>2, <1>3
  <2> QED
    BY <1>1, <1>2, <2>1, <2>2
<1>8. CASE Reader(t)
  <2> DEFINE started == Notify(pc, "writerWait")
  <2>1. ReaderTurn(t, sem + 1, started) \/ ReaderTurn(t, sem, pc)
    BY <1>8, Zenon DEF Reader, ReaderStep
  <2>2. PICK n, p : Kept(p) /\ ReaderTurn(t, n, p)
    <3>1. Kept(started)
      BY <1>2, <1>3
    <3> HIDE DEF Kept, started
    <3> QED
      BY <1>2, <2>1, <3>1, Zenon
  <2>3. \/ pc' = [p EXCEPT ![t] = "lockWait"]
        \/ pc' = [p EXCEPT ![t] = "readerWait"]
        \/ pc' = [Notify(Notify(p, "writerWait"), "lockWait") EXCEPT ![t] = "return"]
    BY <2>2, Zenon DEF ReaderTurn, WaitBigLock, Stage, Return
  <2>4. Kept(Notify(Notify(p, "writerWait"), "lockWait"))
    <3> HIDE DEF Kept
    <3> QED
      BY <1>3, <2>2
  <2> QED
    BY <1>1, <2>2, <2>3, <2>4
<1>9. ~(\/ ReadHead(t) \/ CheckRoom(t) \/ PutUnique(t) \/ TellReaders(t)
        \/ ScanOne(t) \/ ScanEnd(t) \/ CommitRemoval(t) \/ ReleaseBigLock(t)
        \/ Terminated(t))
  BY DEF ReadHead, CheckRoom, PutUnique, TellReaders, ScanOne, ScanEnd, CommitRemoval, ReleaseBigLock,
         Terminated, BigStages
<1>10. CASE MeasureLength(t) \/ StoreLength(t)
  <2>1. PICK s \in {"store", "return"} : pc' = [pc EXCEPT ![t] = s]
    BY <1>10, Zenon DEF MeasureLength, StoreLength, Stage, Return
  <2> QED
    BY <1>2, <2>1 DEF BigStages
<1> QED
  BY <1>4, <1>5, <1>6, <1>7, <1>8, <1>9, <1>10

\* Only Call stores a request, and it stores none that breaks the discipline.
LEMMA CallDisciplined ==
    ASSUME MtQueueAssumption, TypeBase, NEW t \in Threads, Call(t)
    PROVE  /\ \A u \in Threads : u # t => req'[u] = req[u]
           /\ req'[t].op \in MayCall[t]
           /\ NoTimeouts => ~req'[t].timed
           /\ NoBigOps => req'[t].op \notin BigOps
           /\ NoUnlockedLength => req'[t].op # "queue-length"
           /\ NoResizing => req'[t].op # "set-max-length"
<1>1. PICK op \in MayCall[t] :
      \E obj \in ObjArgs(op),
         timed \in IF op \in TimedOps THEN TimeoutArgs ELSE {FALSE},
         close \in IF op \in TimedOps THEN CloseArgs ELSE {op = "mtqueue-close!"} :
         /\ op = "dequeue/wait!" => sem < MaxReaders
         /\ req' = [req EXCEPT ![t] =
                [op |-> op, obj |-> obj, timed |-> timed, close |-> close,
                 strict |-> op # "mtqueue-close!"]]
  BY Zenon DEF Call
<1>2. PICK obj \in ObjArgs(op),
           timed \in IF op \in TimedOps THEN TimeoutArgs ELSE {FALSE},
           close \in IF op \in TimedOps THEN CloseArgs ELSE {op = "mtqueue-close!"} :
           req' = [req EXCEPT ![t] =
             [op |-> op, obj |-> obj, timed |-> timed, close |-> close,
              strict |-> op # "mtqueue-close!"]]
  BY <1>1, Zenon
<1>3. NoTimeouts => timed = FALSE
  <2>1. CASE op \in TimedOps
    BY <1>2, <2>1 DEF NoTimeouts, MtQueueAssumption
  <2>2. CASE op \notin TimedOps
    BY <1>2, <2>2
  <2> QED
    BY <2>1, <2>2
<1>4. /\ NoUnlockedLength => op # "queue-length"
      /\ NoResizing => op # "set-max-length"
  BY DEF NoUnlockedLength, NoResizing
<1>5. \A u \in Threads : u # t => req'[u] = req[u]
  BY <1>2 DEF TypeBase
<1>6. req'[t] = [op |-> op, obj |-> obj, timed |-> timed, close |-> close,
                 strict |-> op # "mtqueue-close!"]
  BY <1>2 DEF TypeBase
<1>7. (NoTimeouts => req'[t].timed = FALSE) /\ req'[t].op = op
  BY <1>3, <1>6
<1>8. NoBigOps => op \notin BigOps
  BY DEF NoBigOps
<1> QED
  BY <1>4, <1>5, <1>7, <1>8, Zenon

\* No step starts a call that breaks the discipline.
LEMMA DisciplinedStep ==
    ASSUME MtQueueAssumption, TypeBase, Disciplined, NEW t \in Threads,
           \/ Call(t) \/ Returned(t)
           \/ Light(t) \/ NotifyWriters(t)
           \/ Writer(t) \/ Reader(t) \/ Expire(t) \/ TimedOut(t) \/ SpuriousWakeup(t)
           \/ ReadHead(t) \/ CheckRoom(t) \/ PutUnique(t) \/ TellReaders(t)
           \/ ScanOne(t) \/ ScanEnd(t) \/ CommitRemoval(t) \/ ReleaseBigLock(t)
           \/ Terminated(t) \/ SetMaxLength(t) \/ MeasureLength(t) \/ StoreLength(t)
    PROVE  Disciplined' /\ (NoUnlockedLength /\ Unmeasured => Unmeasured')
<1>1. ASSUME NEW u \in Threads, Unmeasured PROVE pc'[u] # "store"
  <2>1. ~(MeasureLength(t) \/ StoreLength(t))
    BY <1>1 DEF Unmeasured, MeasureLength, StoreLength
  <2> QED
    BY <1>1, <2>1, NoStore DEF Unmeasured
<1>2. ASSUME NEW u \in Threads
      PROVE  /\ NoUnlockedLength /\ Unmeasured => req'[u].op # "queue-length"
             /\ NoTimeouts => ~req'[u].timed
             /\ NoBigOps => req'[u].op \notin BigOps
             /\ NoResizing => req'[u].op # "set-max-length"
  <2>0. /\ Unmeasured => req[u].op # "queue-length"
        /\ NoTimeouts => ~req[u].timed
        /\ NoBigOps => req[u].op \notin BigOps
        /\ NoResizing => req[u].op # "set-max-length"
    BY DEF Disciplined, Unmeasured
  <2>1. CASE Call(t)
    <3>1. req'[u] = req[u] \/ u = t
      BY <2>1, CallDisciplined
    <3> QED
      BY <2>0, <2>1, <3>1, CallDisciplined
  <2>2. CASE Returned(t)
    <3>1. req'[u] = req[u] \/ req'[u] = NoRequest
      BY <2>2 DEF Returned, TypeBase
    <3>2. /\ ~NoRequest.timed /\ NoRequest.op # "queue-length"
          /\ NoRequest.op # "set-max-length"
          /\ NoRequest.op \notin BigOps
      BY DEF NoRequest, BigOps, UniqueOps
    <3> QED
      BY <2>0, <3>1, <3>2
  <2>3. CASE ~(Call(t) \/ Returned(t))
    <3>1. req' = req
      BY <2>3 DEF Light, NotifyWriters, Writer, Reader, Expire, TimedOut, SpuriousWakeup, ReadHead,
                  CheckRoom, PutUnique, TellReaders, ScanOne, ScanEnd, CommitRemoval, ReleaseBigLock,
                  Terminated, SetMaxLength, MeasureLength, StoreLength
    <3> QED
      BY <2>0, <3>1
  <2> QED
    BY <2>1, <2>2, <2>3
<1>3. ASSUME NEW u \in Threads, NoBigOps PROVE pc'[u] \notin BigStages
  BY <1>3, NobodyGrabs DEF Disciplined
<1>4. ASSUME NEW u \in Threads, NoTimeouts PROVE pc'[u] # "expired"
  <2>1. ~Expire(t) /\ pc[u] # "expired"
    BY <1>4 DEF Expire, Disciplined
  <2> QED
    BY <2>1, NewStage
<1> QED
  BY <1>1, <1>2, <1>3, <1>4 DEF Disciplined, Unmeasured

\* Every step keeps the big lock and what its holder knows about the queue.
LEMMA LockStep ==
    ASSUME MtQueueAssumption, LockRespected, LockInv, Next
    PROVE  LockInv'
<1>0. TypeBase'
  BY TypeStep DEF LockInv
<1>1. PICK t \in Threads :
        \/ Call(t) \/ Returned(t)
        \/ Light(t) \/ NotifyWriters(t)
        \/ Writer(t) \/ Reader(t) \/ Expire(t) \/ TimedOut(t) \/ SpuriousWakeup(t)
        \/ ReadHead(t) \/ CheckRoom(t) \/ PutUnique(t) \/ TellReaders(t)
        \/ ScanOne(t) \/ ScanEnd(t) \/ CommitRemoval(t) \/ ReleaseBigLock(t)
        \/ Terminated(t)
        \/ MeasureLength(t) \/ StoreLength(t) \/ SetMaxLength(t)
  BY Zenon DEF Next
<1>2. Disciplined'
  BY <1>1, DisciplinedStep DEF LockInv
<1>3. CASE Light(t) \/ Writer(t) \/ Reader(t)
  <2>1. \A u \in Threads : Undisturbed(u)
    BY <1>3, LightFrame, WriterFrame, ReaderFrame DEF LockInv
  <2>2. UNCHANGED <<snap, kept>>
    BY <1>3 DEF Light, Writer, Reader
  <2> QED
    BY <1>0, <1>2, <2>1, <2>2, UndisturbedKeeps DEF LockInv
<1>4. CASE \/ ReadHead(t) \/ CheckRoom(t) \/ PutUnique(t) \/ TellReaders(t)
           \/ ScanOne(t) \/ ScanEnd(t) \/ CommitRemoval(t) \/ ReleaseBigLock(t)
           \/ Terminated(t)
  BY <1>0, <1>2, <1>4, BigFrame DEF LockInv
<1>5. CASE \/ Call(t) \/ Returned(t) \/ NotifyWriters(t) \/ Expire(t) \/ SpuriousWakeup(t)
           \/ SetMaxLength(t) \/ MeasureLength(t) \/ StoreLength(t)
  BY <1>0, <1>2, <1>5, RestFrame DEF LockInv
<1>6. CASE TimedOut(t)
  <2>1. NoBigOps
    BY <1>6 DEF LockRespected, TimedOut, LockInv, Disciplined
  <2>2. \A u \in Threads : pc'[u] \notin BigStages
    BY <1>2, <2>1 DEF Disciplined
  <2>3. BigLockExclusive' /\ WorkCurrent'
    BY <2>2 DEF BigLockExclusive, WorkCurrent, BigStages
  <2> QED
    BY <1>0, <1>2, <2>3 DEF LockInv
<1> QED
  BY <1>1, <1>3, <1>4, <1>5, <1>6

\* Who is about to insert has asked for room, and the room stays.
LEMMA RoomStep ==
    ASSUME MtQueueAssumption, LockRespected, LockInv, LockInv', LenExact, RoomKept,
           NEW t \in Threads,
        \/ Call(t) \/ Returned(t)
        \/ Light(t) \/ NotifyWriters(t)
        \/ Writer(t) \/ Reader(t) \/ Expire(t) \/ TimedOut(t) \/ SpuriousWakeup(t)
        \/ ReadHead(t) \/ CheckRoom(t) \/ PutUnique(t) \/ TellReaders(t)
        \/ ScanOne(t) \/ ScanEnd(t) \/ CommitRemoval(t) \/ ReleaseBigLock(t)
        \/ Terminated(t)
        \/ MeasureLength(t) \/ StoreLength(t) \/ SetMaxLength(t)
    PROVE  RoomKept'
<1> SUFFICES ASSUME RoomRespected, NEW u \in Threads, pc'[u] = "insert", maxlen' > 0
             PROVE  Len(items') + 1 <= maxlen'
  BY DEF RoomKept, RoomRespected
<1>1. ~NoBigOps /\ NoResizing
  BY DEF RoomRespected, LockInv, Disciplined, BigStages
<1>2. NoTimeouts
  BY <1>1 DEF LockRespected
<1>3. ~Expire(t) /\ ~TimedOut(t) /\ ~SetMaxLength(t)
  BY <1>1, <1>2 DEF LockInv, Disciplined, Expire, TimedOut, SetMaxLength
<1>4. CASE CheckRoom(t)
  <2>1. UNCHANGED <<items, maxlen>>
    BY <1>4 DEF CheckRoom
  <2>2. CASE u = t
    <3>1. pc' # [pc EXCEPT ![t] = "unlock"]
      BY <2>2 DEF LockInv, TypeBase
    <3>2. ~Overflows(1)
      BY <1>4, <3>1, Zenon DEF CheckRoom
    <3>3. /\ QLength = Len(items) /\ maxlen \in Int /\ items \in Seq(Items)
          /\ maxlen' = maxlen /\ items' = items
      BY <2>1, QLengthExact DEF LockInv, TypeBase
    <3>4. maxlen < 0 \/ ~(1 + Len(items) > maxlen)
      BY <3>2, <3>3 DEF Overflows
    <3> QED
      BY <3>3, <3>4
  <2>3. CASE u # t
    <3>1. pc'[u] = pc[u]
      BY <1>4, <2>3 DEF CheckRoom, Stage, LockInv, TypeBase
    <3> QED
      BY <2>1, <3>1 DEF RoomKept
  <2> QED
    BY <2>2, <2>3
<1>5. CASE ~CheckRoom(t)
  <2>1. pc[u] = "insert" /\ u # t
    BY <1>5, NewStage DEF LockInv
  <2>2. pc[t] \notin BigStages
    BY <2>1 DEF LockInv, BigLockExclusive, BigStages
  <2>3. ~(\/ ReadHead(t) \/ CheckRoom(t) \/ PutUnique(t) \/ TellReaders(t)
          \/ ScanOne(t) \/ ScanEnd(t) \/ CommitRemoval(t) \/ ReleaseBigLock(t)
          \/ Terminated(t))
    BY <2>2, BigGoes DEF LockInv, BigStages
  <2>4. UNCHANGED <<items, maxlen>>
    <3>1. CASE Light(t) \/ Writer(t) \/ Reader(t)
      <4>1. Undisturbed(u)
        BY <3>1, LightFrame, WriterFrame, ReaderFrame DEF LockInv
      <4> QED
        BY <3>1, <4>1 DEF Undisturbed, BigStages, Light, Writer, Reader
    <3>2. CASE \/ Call(t) \/ Returned(t) \/ NotifyWriters(t) \/ SpuriousWakeup(t)
               \/ MeasureLength(t) \/ StoreLength(t)
      BY <3>2 DEF Call, Returned, NotifyWriters, SpuriousWakeup, MeasureLength, StoreLength,
                  queueVars
    <3> QED
      BY <1>3, <2>3, <3>1, <3>2
  <2> QED
    BY <2>1, <2>4 DEF RoomKept
<1> QED
  BY <1>4, <1>5

\* Every step keeps the cached length exact as well, and inserts within the bound.
LEMMA InvStep ==
    ASSUME MtQueueAssumption, LockRespected, NoUnlockedLength, Inv, Next
    PROVE  /\ Inv'
           /\ RoomRespected \/ ~(\E t \in Threads : PutUnique(t)) => Bounded
<1>0. LockInv'
  BY LockStep DEF Inv
<1>1. PICK t \in Threads :
        \/ Call(t) \/ Returned(t)
        \/ Light(t) \/ NotifyWriters(t)
        \/ Writer(t) \/ Reader(t) \/ Expire(t) \/ TimedOut(t) \/ SpuriousWakeup(t)
        \/ ReadHead(t) \/ CheckRoom(t) \/ PutUnique(t) \/ TellReaders(t)
        \/ ScanOne(t) \/ ScanEnd(t) \/ CommitRemoval(t) \/ ReleaseBigLock(t)
        \/ Terminated(t)
        \/ MeasureLength(t) \/ StoreLength(t) \/ SetMaxLength(t)
  BY Zenon DEF Next
<1>2. ~(MeasureLength(t) \/ StoreLength(t))
  BY DEF Inv, Unmeasured, MeasureLength, StoreLength
<1>3. Unmeasured'
  BY <1>1, DisciplinedStep DEF Inv, LockInv
<1>7. RoomKept'
  BY <1>0, <1>1, RoomStep DEF Inv
<1>4. CASE Light(t) \/ Writer(t) \/ Reader(t)
  BY <1>0, <1>3, <1>4, <1>7, LightExact, WriterExact, ReaderExact DEF Inv, LockInv
<1>5. CASE \/ ReadHead(t) \/ CheckRoom(t) \/ PutUnique(t) \/ TellReaders(t)
           \/ ScanOne(t) \/ ScanEnd(t) \/ CommitRemoval(t) \/ ReleaseBigLock(t)
           \/ Terminated(t)
  BY <1>0, <1>3, <1>5, <1>7, BigExact DEF Inv
<1>6. CASE \/ Call(t) \/ Returned(t) \/ NotifyWriters(t) \/ Expire(t) \/ TimedOut(t) \/ SpuriousWakeup(t)
           \/ SetMaxLength(t)
  <2>1. UNCHANGED <<items, len>>
    BY <1>6 DEF Call, Returned, NotifyWriters, Expire, TimedOut, SpuriousWakeup, SetMaxLength,
                queueVars
  <2> QED
    BY <1>0, <1>3, <1>7, <2>1, SameExact DEF Inv, LockInv
<1> QED
  BY <1>1, <1>2, <1>4, <1>5, <1>6

\* The inductive invariant holds initially.
LEMMA InvInit ==
    ASSUME MtQueueAssumption, Init
    PROVE  Inv
<1>1. NoResult \in Result
  BY DEF NoResult, Result
<1>2. /\ NoRequest \in Request /\ ~NoRequest.timed /\ NoRequest.op # "queue-length"
      /\ NoRequest.op # "set-max-length"
      /\ NoRequest.op \notin BigOps
  BY DEF NoRequest, Request, Items, Ops, LightOps, BigOps, UniqueOps
<1>3. TypeBase
  <2>1. closed \in BOOLEAN
    BY Zenon DEF Init
  <2>2. items \in Seq(Items) /\ snap \in [Threads -> Seq(Items)]
        /\ kept \in [Threads -> Seq(Items)]
    BY DEF Init
  <2>3. len \in Int /\ maxlen \in Int /\ sem \in Int
        /\ locker \in Threads \cup {NoThread} /\ pc \in [Threads -> Stages]
    BY DEF Init, Stages, MtQueueAssumption
  <2>4. req \in [Threads -> Request] /\ ret \in [Threads -> Result]
    BY <1>1, <1>2 DEF Init
  <2> QED
    BY <2>1, <2>2, <2>3, <2>4 DEF TypeBase
<1>4. LenExact
  BY DEF Init, LenExact
<1>5. Disciplined /\ Unmeasured
  BY <1>2 DEF Init, Disciplined, Unmeasured, BigStages
<1>6. BigLockExclusive /\ WorkCurrent /\ RoomKept
  BY DEF Init, BigLockExclusive, WorkCurrent, RoomKept, BigStages
<1> QED
  BY <1>3, <1>4, <1>5, <1>6 DEF Inv, LockInv

\* Stuttering keeps the invariants.
LEMMA InvStutter ==
    ASSUME UNCHANGED vars
    PROVE  (LockInv => LockInv') /\ (Inv => Inv')
<1>1. LockInv => LockInv'
  BY DEF LockInv, TypeBase, BigLockExclusive, Disciplined, WorkCurrent, vars
<1> QED
  BY <1>1 DEF Inv, LenExact, Unmeasured, RoomKept, vars

\* The part of the inductive invariant that is about the big lock, when nobody
\* takes it away from its holder.
THEOREM LockInvariance ==
    ASSUME LockRespected
    PROVE  Spec => []LockInv
<1>1. Init => LockInv
  BY MtQueueAssumption, InvInit DEF Inv
<1>2. LockInv /\ [Next]_vars => LockInv'
  BY MtQueueAssumption, LockStep, InvStutter
<1> QED
  BY <1>1, <1>2, PTL DEF Spec

\* The whole of it, when besides nobody asks for the length without a lock.
THEOREM Invariance ==
    ASSUME LockRespected, NoUnlockedLength
    PROVE  Spec => []Inv
<1>1. Init => Inv
  BY MtQueueAssumption, InvInit
<1>2. Inv /\ [Next]_vars => Inv'
  BY MtQueueAssumption, InvStep, InvStutter
<1> QED
  BY <1>1, <1>2, PTL DEF Spec

\* The state of an <mtqueue> and of the calls on it is well-typed; in particular
\* the cached length, which dequeue-int counts down, never goes below -1.
THEOREM TypeCorrect ==
    ASSUME LockRespected, NoUnlockedLength
    PROVE  Spec => []TypeOK
<1>1. Inv => TypeOK
  BY DEF Inv, LockInv, TypeBase, LenExact, TypeOK
<1> QED
  BY <1>1, Invariance, PTL

\* The cached length of the list is exact whenever it is known.
THEOREM CachedLengthExact ==
    ASSUME LockRespected, NoUnlockedLength
    PROVE  Spec => []LenExact
<1>1. Inv => LenExact
  BY DEF Inv
<1> QED
  BY <1>1, Invariance, PTL

\* Between %lock-mtq and %unlock-mtq there is one thread, the locker, even when
\* threads are terminated there.
THEOREM BigLockIsExclusive ==
    ASSUME LockRespected
    PROVE  Spec => []BigLockExclusive
<1>1. LockInv => BigLockExclusive
  BY DEF LockInv
<1> QED
  BY <1>1, LockInvariance, PTL

\* No insertion, by any of the six operations that insert, takes a bounded queue
\* over its max-length.  The unique operations ask for room in a call before the
\* one that inserts, and hold only the big lock in between, so either nobody sets
\* max-length, the setter of which does not respect that lock, or nobody calls them.
THEOREM InsertionsBounded ==
    ASSUME LockRespected, NoUnlockedLength, RoomRespected
    PROVE  Spec => InsertWithinBound
<1>1. Inv /\ [Next]_vars =>
        [Len(items') > Len(items) /\ maxlen > 0 => Len(items') <= maxlen]_vars
  BY MtQueueAssumption, InvStep DEF Bounded
<1> QED
  BY <1>1, Invariance, PTL DEF Spec, InsertWithinBound

\* The other four insert within the bound however clients change max-length, and
\* whoever uses the unique operations: they check and insert under the mutex.
THEOREM CheckedInsertionsBounded ==
    ASSUME LockRespected, NoUnlockedLength
    PROVE  Spec => [][\/ Len(items') > Len(items) /\ maxlen > 0 => Len(items') <= maxlen
                      \/ \E t \in Threads : PutUnique(t)]_vars
<1>1. Inv /\ [Next]_vars =>
        [\/ Len(items') > Len(items) /\ maxlen > 0 => Len(items') <= maxlen
         \/ \E t \in Threads : PutUnique(t)]_vars
  BY MtQueueAssumption, InvStep DEF Bounded
<1> QED
  BY <1>1, Invariance, PTL DEF Spec

-----------------------------------------------------------------------------
(* What is in the queue.                                                       *)

\* The stages of a call that has not done anything to the queue yet.
EarlyStages == {"enter", "again"} \cup Waits

\* No object but the close marker is in the list twice.
Distinct(list) ==
    \A i, j \in 1..Len(list) : list[i] = list[j] /\ list[i] # Marker => i = j

\* The object that a call is going to insert is not in the queue, and no other
\* call is going to insert it, but for two unique insertions.
ArgumentsNew ==
    /\ \A t \in Threads :
          /\ req[t].op \in PutOps \cup UniqueOps => req[t].obj \in Values
          /\ req[t].op = "mtqueue-close!" => req[t].obj = Marker
          /\ pc[t] \in EarlyStages /\ req[t].op \in PutOps => req[t].obj \notin Objects(items)
    /\ \A t, u \in Threads :
          /\ t # u /\ pc[t] # "idle" /\ pc[u] # "idle"
          /\ req[t].op \in PutOps /\ req[u].op \in PutOps \cup UniqueOps
          => req[t].obj # req[u].obj

\* What a thread under the big lock has found out about the content is still so:
\* the object of a unique insertion is not there, and what remove-from-queue! has
\* kept, and has not looked at, is there, once, and with the hits all there is.
Found(t) ==
    /\ pc[t] \in {"put", "insert"} => req[t].op \in UniqueOps /\ req[t].obj \notin Objects(items)
    /\ pc[t] = "scan" =>
          /\ Distinct(kept[t]) /\ Distinct(snap[t])
          /\ Objects(kept[t]) \cap Objects(snap[t]) \subseteq {Marker}
          /\ Objects(kept[t]) \cup Objects(snap[t]) \subseteq Objects(items)
          /\ Objects(items) \subseteq Objects(kept[t]) \cup Objects(snap[t]) \cup ret[t].objs
    /\ pc[t] = "commit" =>
          /\ Distinct(kept[t]) /\ Objects(kept[t]) \subseteq Objects(items)
          /\ Objects(items) \subseteq Objects(kept[t]) \cup ret[t].objs

WorkExact == \A t \in Threads : Found(t)

ContentInv == NoDuplicates /\ ArgumentsNew /\ WorkExact

\* One more object at either end of a list.
LEMMA ListAdd ==
    ASSUME NEW list \in Seq(Items), NEW x \in Items
    PROVE  /\ Objects(list \o <<x>>) = Objects(list) \cup {x}
           /\ Objects(<<x>> \o list) = Objects(list) \cup {x}
           /\ Distinct(list) /\ (x = Marker \/ x \notin Objects(list))
                 => Distinct(list \o <<x>>) /\ Distinct(<<x>> \o list)
<1> DEFINE m == Len(list)
           a == list \o <<x>>
           b == <<x>> \o list
<1>1. /\ m \in Nat /\ Len(a) = m + 1 /\ Len(b) = m + 1
      /\ a[m + 1] = x /\ \A i \in 1..m : a[i] = list[i]
      /\ b[1] = x /\ \A i \in 1..m : b[i + 1] = list[i]
  OBVIOUS
<1> HIDE DEF m, a, b
<1>2. \A i \in 1..(m + 1) : i = m + 1 \/ i \in 1..m
  BY <1>1
<1>3. \A i \in 1..(m + 1) : i = 1 \/ (i - 1 \in 1..m /\ b[i] = list[i - 1])
  <2> TAKE i \in 1..(m + 1)
  <2>1. i = 1 \/ (i - 1 \in 1..m /\ i = (i - 1) + 1)
    BY <1>1
  <2> QED
    BY <1>1, <2>1
<1>4. Objects(list) = {list[i] : i \in 1..m}
  BY DEF Objects, m
<1>5. Objects(a) = Objects(list) \cup {x}
  <2>1. ASSUME NEW v \in Objects(a) PROVE v \in Objects(list) \cup {x}
    BY <1>1, <1>2, <1>4, <2>1 DEF Objects
  <2>2. ASSUME NEW i \in 1..m PROVE list[i] \in Objects(a)
    <3>1. i \in 1..(m + 1)
      BY <1>1
    <3> QED
      BY <1>1, <3>1 DEF Objects
  <2>3. x \in Objects(a)
    <3>1. m + 1 \in 1..(m + 1)
      BY <1>1
    <3> QED
      BY <1>1, <3>1 DEF Objects
  <2> QED
    BY <1>4, <2>1, <2>2, <2>3
<1>6. Objects(b) = Objects(list) \cup {x}
  <2>1. ASSUME NEW v \in Objects(b) PROVE v \in Objects(list) \cup {x}
    <3>1. PICK i \in 1..(m + 1) : v = b[i]
      BY <1>1, <2>1 DEF Objects
    <3> QED
      BY <1>1, <1>3, <1>4, <3>1
  <2>2. ASSUME NEW i \in 1..m PROVE list[i] \in Objects(b)
    <3>1. i + 1 \in 1..(m + 1)
      BY <1>1
    <3> QED
      BY <1>1, <3>1 DEF Objects
  <2>3. x \in Objects(b)
    <3>1. 1 \in 1..(m + 1)
      BY <1>1
    <3> QED
      BY <1>1, <3>1 DEF Objects
  <2> QED
    BY <1>4, <2>1, <2>2, <2>3
<1>7. ASSUME Distinct(list), x = Marker \/ x \notin Objects(list)
      PROVE  Distinct(a) /\ Distinct(b)
  <2>0. /\ \A i, j \in 1..m : list[i] = list[j] /\ list[i] # Marker => i = j
        /\ x = Marker \/ \A i \in 1..m : list[i] # x
    BY <1>4, <1>7 DEF Distinct, m
  <2>1. Distinct(a)
    <3> SUFFICES ASSUME NEW i \in 1..(m + 1), NEW j \in 1..(m + 1), a[i] = a[j], a[i] # Marker
                 PROVE  i = j
      BY <1>1 DEF Distinct
    <3> QED
      BY <1>1, <1>2, <2>0
  <2>2. Distinct(b)
    <3> SUFFICES ASSUME NEW i \in 1..(m + 1), NEW j \in 1..(m + 1), b[i] = b[j], b[i] # Marker
                 PROVE  i = j
      BY <1>1 DEF Distinct
    <3>1. i = 1 \/ (i - 1 \in 1..m /\ b[i] = list[i - 1])
      BY <1>3
    <3>2. j = 1 \/ (j - 1 \in 1..m /\ b[j] = list[j - 1])
      BY <1>3
    <3>3. CASE i = 1 \/ j = 1
      BY <1>1, <2>0, <3>1, <3>2, <3>3
    <3>4. CASE i # 1 /\ j # 1
      <4>1. i - 1 = j - 1
        BY <2>0, <3>1, <3>2, <3>4
      <4> QED
        BY <4>1
    <3> QED
      BY <3>3, <3>4
  <2> QED
    BY <2>1, <2>2
<1> QED
  BY <1>5, <1>6, <1>7 DEF a, b

\* What is left of a list when cells are taken off its front.
LEMMA ListRest ==
    ASSUME NEW list \in Seq(Items), NEW k \in 0..Len(list)
    PROVE  /\ Objects(SubSeq(list, k + 1, Len(list))) \subseteq Objects(list)
           /\ Distinct(list) => Distinct(SubSeq(list, k + 1, Len(list)))
           /\ \A v \in Objects(list) :
                 \/ v \in Objects(SubSeq(list, k + 1, Len(list)))
                 \/ \E i \in 1..k : v = list[i]
<1> DEFINE m == Len(list)
           r == SubSeq(list, k + 1, Len(list))
<1>1. /\ m \in Nat /\ k \in Nat /\ k <= m /\ Len(r) = m - k
      /\ \A i \in 1..(m - k) : r[i] = list[i + k]
  OBVIOUS
<1>2. Objects(list) = {list[i] : i \in 1..m}
  BY DEF Objects
<1> HIDE DEF m, r
<1>3. Objects(r) = {r[i] : i \in 1..(m - k)}
  BY <1>1 DEF Objects
<1>4. \A i \in 1..(m - k) : i + k \in 1..m
  BY <1>1
<1>5. Objects(r) \subseteq Objects(list)
  BY <1>1, <1>2, <1>3, <1>4
<1>6. ASSUME Distinct(list) PROVE Distinct(r)
  <2> SUFFICES ASSUME NEW i \in 1..(m - k), NEW j \in 1..(m - k), r[i] = r[j], r[i] # Marker
               PROVE  i = j
    BY <1>1 DEF Distinct
  <2>1. i + k = j + k
    BY <1>1, <1>4, <1>6 DEF Distinct, m
  <2> QED
    BY <1>1, <2>1
<1>7. ASSUME NEW v \in Objects(list)
      PROVE  v \in Objects(r) \/ \E i \in 1..k : v = list[i]
  <2>1. PICK i \in 1..m : v = list[i]
    BY <1>2
  <2>2. CASE i <= k
    BY <1>1, <2>1, <2>2
  <2>3. CASE i > k
    <3>1. i - k \in 1..(m - k) /\ r[i - k] = list[i]
      <4>1. i - k \in 1..(m - k) /\ (i - k) + k = i
        BY <1>1, <2>3
      <4> QED
        BY <1>1, <4>1
    <3> QED
      BY <1>3, <2>1, <3>1
  <2> QED
    BY <1>1, <2>2, <2>3
<1> QED
  BY <1>5, <1>6, <1>7 DEF r

\* The first object of a list and the others.
LEMMA ListHead ==
    ASSUME NEW list \in Seq(Items), list # <<>>
    PROVE  /\ Tail(list) \in Seq(Items) /\ Head(list) \in Items
           /\ Objects(list) = Objects(Tail(list)) \cup {Head(list)}
           /\ Distinct(list) => /\ Distinct(Tail(list))
                                /\ Head(list) = Marker \/ Head(list) \notin Objects(Tail(list))
<1> DEFINE r == Tail(list)
           m == Len(list)
<1>1. /\ r \in Seq(Items) /\ Head(list) \in Items /\ Head(list) = list[1]
      /\ m \in Nat /\ m >= 1 /\ Len(r) = m - 1 /\ \A i \in 1..(m - 1) : r[i] = list[i + 1]
  OBVIOUS
<1>2. Objects(list) = {list[i] : i \in 1..m}
  BY DEF Objects
<1> HIDE DEF m, r
<1>3. Objects(r) = {r[i] : i \in 1..(m - 1)}
  BY <1>1 DEF Objects
<1>4. \A i \in 1..(m - 1) : i + 1 \in 1..m /\ i + 1 # 1
  BY <1>1
<1>5. Objects(list) = Objects(r) \cup {Head(list)}
  <2>1. ASSUME NEW i \in 1..m PROVE list[i] \in Objects(r) \cup {Head(list)}
    <3>1. i = 1 \/ (i - 1 \in 1..(m - 1) /\ (i - 1) + 1 = i)
      BY <1>1
    <3>2. i = 1 \/ (i - 1 \in 1..(m - 1) /\ r[i - 1] = list[i])
      BY <1>1, <3>1
    <3> QED
      BY <1>1, <1>3, <3>2
  <2>2. Head(list) \in Objects(list)
    BY <1>1, <1>2
  <2>3. Objects(r) \subseteq Objects(list)
    BY <1>1, <1>2, <1>3, <1>4
  <2> QED
    BY <1>2, <2>1, <2>2, <2>3
<1>6. ASSUME Distinct(list) PROVE Distinct(r)
  <2> SUFFICES ASSUME NEW i \in 1..(m - 1), NEW j \in 1..(m - 1), r[i] = r[j], r[i] # Marker
               PROVE  i = j
    BY <1>1 DEF Distinct
  <2>1. i + 1 = j + 1
    BY <1>1, <1>4, <1>6 DEF Distinct, m
  <2> QED
    BY <1>1, <2>1
<1>7. ASSUME Distinct(list), Head(list) \in Objects(r) PROVE Head(list) = Marker
  <2>1. PICK i \in 1..(m - 1) : r[i] = Head(list)
    BY <1>3, <1>7
  <2>2. list[i + 1] = list[1] /\ i + 1 \in 1..m /\ 1 \in 1..m /\ i + 1 # 1
    BY <1>1, <1>4, <2>1
  <2> QED
    BY <1>1, <1>7, <2>2 DEF Distinct, m
<1> QED
  BY <1>1, <1>5, <1>6, <1>7 DEF r

\* What a step of t may do to the content: nothing is in the queue twice after
\* it, what is new is the close marker or the object of the call of t, which is
\* then over, and what is gone is in the hands of t.
Effect(t) ==
    /\ Distinct(items')
    /\ \A v \in Objects(items') :
          \/ v \in Objects(items)
          \/ v = Marker /\ req[t].op = "mtqueue-close!"
          \/ /\ v = req[t].obj /\ req[t].op \in PutOps \cup UniqueOps
             /\ pc'[t] \notin EarlyStages
    /\ \A v \in Values :
          v \in Objects(items) => v \in Objects(items') \/ v \in ret'[t].objs

LEMMA EffectSame ==
    ASSUME Distinct(items), NEW t, UNCHANGED items
    PROVE  Effect(t)
  BY DEF Effect

LEMMA EffectAdd ==
    ASSUME TypeBase, Distinct(items), NEW t \in Threads,
           req[t].obj = Marker \/ req[t].obj \notin Objects(items),
           \/ req[t].obj = Marker /\ req[t].op = "mtqueue-close!"
           \/ req[t].op \in PutOps \cup UniqueOps /\ pc'[t] \notin EarlyStages,
           items' = items \o <<req[t].obj>> \/ items' = <<req[t].obj>> \o items
    PROVE  Effect(t)
<1>1. req[t].obj \in Items /\ items \in Seq(Items)
  BY DEF TypeBase, Request
<1>2. Objects(items') = Objects(items) \cup {req[t].obj} /\ Distinct(items')
  BY <1>1, ListAdd
<1> QED
  BY <1>2 DEF Effect

LEMMA EffectDequeue ==
    ASSUME MtQueueAssumption, TypeBase, Distinct(items), NEW t \in Threads, DequeueInt,
           ret'[t].objs = Taken
    PROVE  Effect(t)
<1>1. items \in Seq(Items) /\ Leading \in 0..Len(items)
  BY LeadingRange DEF TypeBase
<1>2. items' = SubSeq(items, Leading + 1, Len(items))
  BY DEF DequeueInt
<1>3. /\ Objects(items') \subseteq Objects(items) /\ Distinct(items')
      /\ \A v \in Objects(items) :
            v \in Objects(items') \/ \E i \in 1..Leading : v = items[i]
  BY <1>1, <1>2, ListRest
<1>4. ASSUME NEW i \in 1..Leading, items[i] \in Values
      PROVE  items[i] \in Taken
  <2>1. i \in 1..Len(items) /\ items[i] # Marker
    BY <1>1, <1>4 DEF MtQueueAssumption
  <2>2. ~NoItem
    BY <2>1 DEF NoItem
  <2>3. \A j \in 1..(Leading - 1) : items[j] = Marker
    <3> DEFINE First(k) == items[k] # Marker /\ \A j \in 1..(k - 1) : items[j] = Marker
    <3>1. \E k \in 1..Len(items) : First(k)
      <4> DEFINE T == {k \in 1..Len(items) : items[k] # Marker}
      <4>1. T \subseteq Nat /\ T # {}
        BY <1>1, <2>1
      <4>2. PICK k \in T : \A j \in T : k <= j
        <5> HIDE DEF T
        <5> QED
          BY <4>1, LeastNumber
      <4>3. First(k)
        BY <1>1, <4>2
      <4> QED
        BY <4>2, <4>3
    <3>2. Leading = CHOOSE k \in 1..Len(items) : First(k)
      BY <2>1 DEF Leading
    <3> QED
      BY <3>1, <3>2
  <2>4. i = Leading
    BY <1>1, <2>1, <2>3
  <2> QED
    BY <2>2, <2>4 DEF Taken
<1>5. \A v \in Values : v \in Objects(items) => v \in Objects(items') \/ v \in ret'[t].objs
  BY <1>3, <1>4
<1> QED
  BY <1>3, <1>5 DEF Effect

\* What a call returns.
LEMMA Returns ==
    ASSUME TypeBase, NEW t \in Threads, NEW p, NEW how, NEW objs, Return(t, p, how, objs)
    PROVE  ret'[t].objs = objs /\ \A u \in Threads : u # t => ret'[u] = ret[u]
  BY DEF TypeBase, Return

LEMMA LightEffect ==
    ASSUME MtQueueAssumption, TypeBase, Distinct(items), ArgumentsNew, NEW t \in Threads, Light(t)
    PROVE  Effect(t)
<1>0. pc[t] \in EarlyStages
  BY DEF Light, EarlyStages
<1>1. CASE WaitBigLock(t, pc) \/ GrabBigLock(t) \/ Query(t)
  <2>1. UNCHANGED items
    BY <1>1, Zenon DEF WaitBigLock, GrabBigLock, Query
  <2> QED
    BY <2>1, EffectSame
<1>2. CASE QWriteOp(t)
  <2>1. \/ UNCHANGED items
        \/ /\ \/ items' = items \o <<req[t].obj>>
              \/ items' = <<req[t].obj>> \o items
           /\ pc' = [Notify(pc, "readerWait") EXCEPT ![t] = "return"]
    BY <1>2, Zenon DEF QWriteOp, Return
  <2>2. req[t].op \in PutOps /\ req[t].obj \notin Objects(items)
    BY <1>0, <1>2 DEF QWriteOp, PutOps, ArgumentsNew
  <2>3. pc' = [Notify(pc, "readerWait") EXCEPT ![t] = "return"] => pc'[t] \notin EarlyStages
    BY DEF Notify, EarlyStages, Waits
  <2> QED
    BY <2>1, <2>2, <2>3, EffectSame, EffectAdd
<1>3. CASE Dequeue(t)
  <2>1. ret'[t].objs = Taken
    <3>1. CASE NoItem
      <4>1. Return(t, pc, "error", {})
        BY <1>3, <3>1 DEF Dequeue
      <4> QED
        BY <3>1, <4>1, Returns DEF Taken
    <3>2. CASE ~NoItem
      BY <1>3, <3>2 DEF Dequeue, TypeBase
    <3> QED
      BY <3>1, <3>2
  <2> QED
    BY <1>3, <2>1, EffectDequeue DEF Dequeue
<1>4. CASE DequeueAll(t)
  <2>1. ret'[t].objs = IF items # <<>> /\ items[Len(items)] = Marker
                       THEN Objects(items) \ {Marker}
                       ELSE Objects(items)
    BY <1>4 DEF DequeueAll, TypeBase
  <2>2. \A v \in Values : v \in Objects(items) => v \in ret'[t].objs
    BY <2>1 DEF MtQueueAssumption
  <2>3. items' = <<>>
    BY <1>4 DEF DequeueAll
  <2>4. Objects(items') = {} /\ Distinct(items')
    BY <2>3 DEF Objects, Distinct
  <2> QED
    BY <2>2, <2>4 DEF Effect
<1> QED
  BY <1>1, <1>2, <1>3, <1>4, Zenon DEF Light

LEMMA WriterEffect ==
    ASSUME MtQueueAssumption, TypeBase, Distinct(items), ArgumentsNew, NEW t \in Threads, Writer(t)
    PROVE  Effect(t)
<1>0. pc[t] \in EarlyStages
  BY DEF Writer, EarlyStages
<1>1. UNCHANGED items \/ WriterOk(t)
  BY Zenon DEF Writer, RejectClosed, WaitBigLock
<1>2. CASE WriterOk(t)
  <2>1. /\ \/ items' = items \o <<req[t].obj>>
           \/ items' = <<req[t].obj>> \o items
        /\ pc' = [Notify(Notify(pc, "readerWait"), "lockWait") EXCEPT ![t] = "return"]
    BY <1>2, Zenon DEF WriterOk, Insert, Return
  <2>2. \/ req[t].op = "mtqueue-close!" /\ req[t].obj = Marker
        \/ req[t].op \in PutOps /\ req[t].obj \notin Objects(items)
    BY <1>0 DEF Writer, WriteOps, PutOps, ArgumentsNew
  <2>3. pc'[t] \notin EarlyStages
    BY <2>1 DEF Notify, EarlyStages, Waits
  <2> QED
    BY <2>1, <2>2, <2>3, EffectAdd
<1> QED
  BY <1>1, <1>2, EffectSame

LEMMA ReaderEffect ==
    ASSUME MtQueueAssumption, TypeBase, Distinct(items), NEW t \in Threads, Reader(t)
    PROVE  Effect(t)
<1>1. PICK n, p : ReaderTurn(t, n, p)
  BY Zenon DEF Reader, ReaderStep
<1>2. \/ UNCHANGED items
      \/ /\ DequeueInt
         /\ Return(t, Notify(Notify(p, "writerWait"), "lockWait"),
                   IF NoItem THEN "timeout-val" ELSE "ok", Taken)
  BY <1>1, Zenon DEF ReaderTurn, WaitBigLock
<1>3. CASE /\ DequeueInt
           /\ Return(t, Notify(Notify(p, "writerWait"), "lockWait"),
                     IF NoItem THEN "timeout-val" ELSE "ok", Taken)
  <2>1. ret'[t].objs = Taken
    BY <1>3, Returns
  <2> QED
    BY <1>3, <2>1, EffectDequeue
<1> QED
  BY <1>2, <1>3, EffectSame

LEMMA BigEffect ==
    ASSUME MtQueueAssumption, LockInv, ContentInv, Distinct(items), NEW t \in Threads,
           PutUnique(t) \/ CommitRemoval(t)
    PROVE  Effect(t)
<1> USE DEF LockInv
<1>1. CASE PutUnique(t)
  <2>1. Goes(t, {"tell"}) /\ pc[t] = "insert"
    BY <1>1, BigGoes
  <2>2. pc'[t] \notin EarlyStages
    BY <2>1 DEF Goes, EarlyStages, Waits
  <2>3. req[t].op \in UniqueOps /\ req[t].obj \notin Objects(items)
    BY <2>1 DEF ContentInv, WorkExact, Found
  <2>4. \/ items' = items \o <<req[t].obj>>
        \/ items' = <<req[t].obj>> \o snap[t]
    BY <1>1, Zenon DEF PutUnique, SetContent
  <2>5. snap[t] = items
    BY <2>1 DEF WorkCurrent
  <2> QED
    BY <2>2, <2>3, <2>4, <2>5, EffectAdd
<1>2. CASE CommitRemoval(t)
  <2>1. pc[t] = "commit" /\ items' = kept[t] /\ ret' = ret
    BY <1>2 DEF CommitRemoval, SetContent, Stage
  <2>2. /\ Distinct(kept[t]) /\ Objects(kept[t]) \subseteq Objects(items)
        /\ Objects(items) \subseteq Objects(kept[t]) \cup ret[t].objs
    BY <2>1 DEF ContentInv, WorkExact, Found
  <2> QED
    BY <2>1, <2>2 DEF Effect
<1> QED
  BY <1>1, <1>2

\* A step of t, one disjunct of Next.
Step(t) ==
    \/ Call(t) \/ Returned(t)
    \/ Light(t) \/ NotifyWriters(t)
    \/ Writer(t) \/ Reader(t) \/ Expire(t) \/ TimedOut(t) \/ SpuriousWakeup(t)
    \/ ReadHead(t) \/ CheckRoom(t) \/ PutUnique(t) \/ TellReaders(t)
    \/ ScanOne(t) \/ ScanEnd(t) \/ CommitRemoval(t) \/ ReleaseBigLock(t)
    \/ Terminated(t)
    \/ MeasureLength(t) \/ StoreLength(t) \/ SetMaxLength(t)

\* Every step has such an effect on the content.
LEMMA EffectStep ==
    ASSUME MtQueueAssumption, LockInv, ContentInv, NEW t \in Threads, Step(t)
    PROVE  Effect(t)
<1>0. TypeBase /\ ArgumentsNew /\ Distinct(items)
  BY DEF LockInv, ContentInv, NoDuplicates, Distinct
<1>1. CASE Light(t) \/ Writer(t) \/ Reader(t)
  BY <1>0, <1>1, LightEffect, WriterEffect, ReaderEffect
<1>2. CASE PutUnique(t) \/ CommitRemoval(t)
  BY <1>0, <1>2, BigEffect
<1>3. CASE \/ Call(t) \/ Returned(t) \/ NotifyWriters(t) \/ Expire(t) \/ TimedOut(t) \/ SpuriousWakeup(t)
           \/ ReadHead(t) \/ CheckRoom(t) \/ TellReaders(t) \/ ScanOne(t) \/ ScanEnd(t)
           \/ ReleaseBigLock(t) \/ Terminated(t) \/ MeasureLength(t) \/ StoreLength(t) \/ SetMaxLength(t)
  <2>1. UNCHANGED items
    BY <1>3, Zenon DEF Call, Returned, NotifyWriters, Expire, TimedOut, SpuriousWakeup, ReadHead,
       CheckRoom, TellReaders, ScanOne, ScanEnd, ReleaseBigLock, Terminated, MeasureLength, StoreLength,
       SetMaxLength, queueVars
  <2> QED
    BY <1>0, <2>1, EffectSame
<1> QED
  BY <1>1, <1>2, <1>3, Zenon DEF Step

\* No call begins anew.
Progress ==
    \A u \in Threads : /\ pc'[u] \in EarlyStages => pc[u] \in EarlyStages
                       /\ pc'[u] # "idle" => pc[u] # "idle"

LEMMA GoesProgress ==
    ASSUME NEW t \in Threads, NEW S, Goes(t, S), pc[t] # "idle",
           pc[t] \in EarlyStages \/ S \cap EarlyStages = {}
    PROVE  Progress
  BY DEF Goes, Progress, EarlyStages, Waits

\* A step other than a call is progress.
LEMMA ProgressStep ==
    ASSUME TypeBase, NEW t \in Threads, Step(t), ~Call(t), ~Returned(t)
    PROVE  Progress
<1>1. CASE Light(t)
  <2>1. pc[t] \in {"enter", "again"} /\ \E S : Goes(t, S)
    BY <1>1, LightGoes, Zenon
  <2> QED
    BY <2>1, GoesProgress DEF EarlyStages
<1>2. CASE Writer(t)
  <2>1. pc[t] \in {"enter", "again"} /\ \E S : Goes(t, S)
    BY <1>2, WriterGoes, Zenon
  <2> QED
    BY <2>1, GoesProgress DEF EarlyStages
<1>3. CASE Reader(t)
  <2>1. pc[t] \in {"enter", "again"} /\ \E S : Goes(t, S)
    BY <1>3, ReaderGoes, Zenon
  <2> QED
    BY <2>1, GoesProgress DEF EarlyStages
<1>4. CASE SpuriousWakeup(t)
  <2>1. pc[t] \in Waits /\ Goes(t, {"again"})
    BY <1>4, RestGoes
  <2> QED
    BY <2>1, GoesProgress DEF EarlyStages, Waits
<1>7. CASE Expire(t)
  <2>1. pc[t] \in Waits /\ Goes(t, {"expired"})
    BY <1>7, RestGoes DEF Waits
  <2> QED
    BY <2>1, GoesProgress DEF EarlyStages, Waits
<1>5. CASE NotifyWriters(t) \/ TimedOut(t) \/ SetMaxLength(t) \/ MeasureLength(t) \/ StoreLength(t)
  <2>1. /\ pc[t] \in {"notify", "expired", "enter", "store"}
        /\ Goes(t, {"return"}) \/ Goes(t, {"store", "return"})
    <3>1. CASE NotifyWriters(t)
      BY <3>1, RestGoes
    <3>2. CASE TimedOut(t)
      BY <3>2, RestGoes
    <3>3. CASE SetMaxLength(t)
      BY <3>3, RestGoes
    <3>4. CASE MeasureLength(t)
      BY <3>4, RestGoes
    <3>5. CASE StoreLength(t)
      BY <3>5, RestGoes
    <3> QED
      BY <1>5, <3>1, <3>2, <3>3, <3>4, <3>5
  <2> QED
    BY <2>1 DEF Goes, Progress, EarlyStages, Waits
<1>6. CASE \/ ReadHead(t) \/ CheckRoom(t) \/ PutUnique(t) \/ TellReaders(t) \/ ScanOne(t) \/ ScanEnd(t)
           \/ CommitRemoval(t) \/ ReleaseBigLock(t) \/ Terminated(t)
  <2>1. pc[t] \in BigStages /\ Goes(t, BigStages \cup {"return", "dead"})
    <3>1. CASE ReadHead(t)
      BY <3>1, BigGoes DEF Goes, BigStages
    <3>2. CASE CheckRoom(t) \/ PutUnique(t)
      BY <3>2, BigGoes DEF Goes, BigStages
    <3>3. CASE TellReaders(t)
      BY <3>3, BigGoes DEF Goes, BigStages
    <3>4. CASE ScanOne(t) \/ ScanEnd(t)
      BY <3>4, BigGoes DEF Goes, BigStages
    <3>5. CASE CommitRemoval(t) \/ ReleaseBigLock(t) \/ Terminated(t)
      BY <3>5, BigGoes DEF Goes, BigStages
    <3> QED
      BY <1>6, <3>1, <3>2, <3>3, <3>4, <3>5
  <2> QED
    BY <2>1 DEF Goes, Progress, EarlyStages, Waits, BigStages
<1> QED
  BY <1>1, <1>2, <1>3, <1>4, <1>5, <1>6, <1>7, Zenon DEF Step

\* Only t has its call, its result and the lists it works with changed.
LEMMA OthersKeep ==
    ASSUME TypeBase, NEW t \in Threads, Step(t), NEW u \in Threads, u # t
    PROVE  /\ req'[u] = req[u] /\ ret'[u] = ret[u]
           /\ snap'[u] = snap[u] /\ kept'[u] = kept[u]
<1>1. CASE Light(t)
  <2>1. UNCHANGED <<req, snap, kept>>
    BY <1>1 DEF Light
  <2>2. ret' = ret \/ \E x : ret' = [ret EXCEPT ![t] = x]
    BY <1>1, Zenon DEF Light, WaitBigLock, GrabBigLock, QWriteOp, Dequeue, DequeueAll, Query,
                       Return, Stage
  <2> QED
    BY <2>1, <2>2 DEF TypeBase
<1>2. CASE Writer(t) \/ TimedOut(t) \/ SetMaxLength(t) \/ StoreLength(t)
  <2>1. UNCHANGED <<req, snap, kept>>
    BY <1>2 DEF Writer, TimedOut, SetMaxLength, StoreLength
  <2>2. ret' = ret \/ \E x : ret' = [ret EXCEPT ![t] = x]
    BY <1>2, Zenon DEF Writer, RejectClosed, WaitBigLock, WriterOk, Insert, TimedOut,
                       SetMaxLength, StoreLength, Return, Stage
  <2> QED
    BY <2>1, <2>2 DEF TypeBase
<1>3. CASE Reader(t)
  <2>1. UNCHANGED <<req, snap, kept>>
    BY <1>3 DEF Reader
  <2>2. PICK n, p : ReaderTurn(t, n, p)
    BY <1>3, Zenon DEF Reader, ReaderStep
  <2>3. ret' = ret \/ \E x : ret' = [ret EXCEPT ![t] = x]
    BY <2>2, Zenon DEF ReaderTurn, WaitBigLock, Return, Stage
  <2> QED
    BY <2>1, <2>3 DEF TypeBase
<1>4. CASE Call(t)
  <2>1. UNCHANGED <<ret, snap, kept>>
    BY <1>4 DEF Call
  <2> QED
    BY <1>4, <2>1, CallDisciplined, MtQueueAssumption
<1>5. CASE \/ NotifyWriters(t) \/ Expire(t) \/ SpuriousWakeup(t) \/ TellReaders(t) \/ ScanEnd(t)
           \/ ReleaseBigLock(t) \/ CommitRemoval(t) \/ Terminated(t)
  BY <1>5 DEF NotifyWriters, Expire, SpuriousWakeup, TellReaders, ScanEnd, ReleaseBigLock,
              CommitRemoval, Terminated, Stage
<1>6. CASE Returned(t) \/ ReadHead(t)
  BY <1>6 DEF Returned, ReadHead, TypeBase
<1>7. CASE CheckRoom(t) \/ PutUnique(t)
  <2>1. UNCHANGED <<req, snap, kept>>
    BY <1>7 DEF CheckRoom, PutUnique
  <2>2. ret' = ret \/ \E x : ret' = [ret EXCEPT ![t] = x]
    BY <1>7, Zenon DEF CheckRoom, PutUnique, Stage
  <2> QED
    BY <2>1, <2>2 DEF TypeBase
<1>8. CASE MeasureLength(t)
  <2>1. UNCHANGED <<req, kept>>
    BY <1>8 DEF MeasureLength
  <2>2. /\ ret' = ret \/ \E x : ret' = [ret EXCEPT ![t] = x]
        /\ snap' = snap \/ \E x : snap' = [snap EXCEPT ![t] = x]
    BY <1>8, Zenon DEF MeasureLength, Stage, Return
  <2> QED
    BY <2>1, <2>2 DEF TypeBase
<1>9. CASE ScanOne(t)
  <2>1. UNCHANGED req
    BY <1>9 DEF ScanOne
  <2>2. snap'[u] = snap[u] /\ kept'[u] = kept[u]
    BY <1>9 DEF ScanOne, TypeBase
  <2>3. ret' = ret \/ ret' = [ret EXCEPT ![t].objs = @ \cup {Head(snap[t])}]
    BY <1>9 DEF ScanOne
  <2> QED
    BY <2>1, <2>2, <2>3 DEF TypeBase
<1> QED
  BY <1>1, <1>2, <1>3, <1>4, <1>5, <1>6, <1>7, <1>8, <1>9, Zenon DEF Step

\* A call is made with an object that is nowhere else, but for the unique
\* insertions; every other step inserts at most the object of the call of t.
LEMMA ArgumentsStep ==
    ASSUME MtQueueAssumption, TypeBase, ArgumentsNew, NEW t \in Threads, Step(t), Effect(t)
    PROVE  ArgumentsNew'
<1>1. CASE Call(t)
  <2>1. PICK op \in MayCall[t] :
          \E obj \in ObjArgs(op),
             timed \in IF op \in TimedOps THEN TimeoutArgs ELSE {FALSE},
             close \in IF op \in TimedOps THEN CloseArgs ELSE {op = "mtqueue-close!"} :
             /\ op = "dequeue/wait!" => sem < MaxReaders
             /\ req' = [req EXCEPT ![t] =
                    [op |-> op, obj |-> obj, timed |-> timed, close |-> close,
                     strict |-> op # "mtqueue-close!"]]
    BY <1>1, Zenon DEF Call
  <2>2. PICK obj \in ObjArgs(op),
             timed \in IF op \in TimedOps THEN TimeoutArgs ELSE {FALSE},
             close \in IF op \in TimedOps THEN CloseArgs ELSE {op = "mtqueue-close!"} :
             req' = [req EXCEPT ![t] =
               [op |-> op, obj |-> obj, timed |-> timed, close |-> close,
                strict |-> op # "mtqueue-close!"]]
    BY <2>1, Zenon
  <2>3. req'[t].op = op /\ req'[t].obj = obj
    BY <2>2 DEF TypeBase
  <2>4. /\ items' = items /\ \A u \in Threads : u # t => req'[u] = req[u] /\ pc'[u] = pc[u]
        /\ pc[t] = "idle"
    BY <1>1, <2>2 DEF Call, queueVars, TypeBase
  <2>5. ASSUME op \in PutOps
        PROVE  /\ obj \in Values /\ obj \notin Objects(items)
               /\ \A u \in Threads : pc[u] # "idle" => obj # req[u].obj
    BY <2>2, <2>5 DEF ObjArgs, TypeBase, Request
  <2>6. ASSUME op \in UniqueOps
        PROVE  /\ obj \in Values
               /\ \A u \in Threads :
                     pc[u] # "idle" /\ req[u].op \in PutOps => obj # req[u].obj
    BY <2>2, <2>6 DEF ObjArgs, PutOps, UniqueOps
  <2>7. op = "mtqueue-close!" => obj = Marker
    BY <2>2 DEF ObjArgs, PutOps, UniqueOps
  <2>8. ASSUME NEW u \in Threads
        PROVE  /\ req'[u].op \in PutOps \cup UniqueOps => req'[u].obj \in Values
               /\ req'[u].op = "mtqueue-close!" => req'[u].obj = Marker
               /\ pc'[u] \in EarlyStages /\ req'[u].op \in PutOps
                     => req'[u].obj \notin Objects(items')
    BY <2>3, <2>4, <2>5, <2>6, <2>7 DEF ArgumentsNew
  <2>9. ASSUME NEW u \in Threads, NEW w \in Threads, u # w, pc'[u] # "idle", pc'[w] # "idle",
               req'[u].op \in PutOps, req'[w].op \in PutOps \cup UniqueOps
        PROVE  req'[u].obj # req'[w].obj
    <3>1. CASE u = t
      BY <2>3, <2>4, <2>5, <2>9, <3>1
    <3>2. CASE w = t
      BY <2>3, <2>4, <2>5, <2>6, <2>9, <3>2
    <3>3. CASE u # t /\ w # t
      BY <2>4, <2>9, <3>3 DEF ArgumentsNew
    <3> QED
      BY <3>1, <3>2, <3>3
  <2> QED
    BY <2>8, <2>9 DEF ArgumentsNew
<1>2. CASE Returned(t)
  <2>1. /\ items' = items /\ req'[t] = NoRequest
        /\ \A u \in Threads : u # t => req'[u] = req[u] /\ pc'[u] = pc[u]
    BY <1>2 DEF Returned, queueVars, TypeBase
  <2>2. NoRequest.op \notin PutOps \cup UniqueOps /\ NoRequest.op # "mtqueue-close!"
    BY DEF NoRequest, PutOps, UniqueOps
  <2> QED
    BY <2>1, <2>2 DEF ArgumentsNew
<1>3. CASE ~Call(t) /\ ~Returned(t)
  <2>1. Progress
    BY <1>3, ProgressStep
  <2>2. req' = req /\ pc[t] # "idle"
    BY <1>3 DEF Step, Light, NotifyWriters, Writer, Reader, Expire, TimedOut, SpuriousWakeup, ReadHead,
                CheckRoom, PutUnique, TellReaders, ScanOne, ScanEnd, CommitRemoval, ReleaseBigLock,
                Terminated, SetMaxLength, MeasureLength, StoreLength, Waits, BigStages
  <2>3. ASSUME NEW u \in Threads, pc'[u] \in EarlyStages, req[u].op \in PutOps,
               req[u].obj \in Objects(items')
        PROVE  FALSE
    <3>1. pc[u] \in EarlyStages /\ pc[u] # "idle"
      BY <2>1, <2>3 DEF Progress, EarlyStages, Waits
    <3>2. req[u].obj \notin Objects(items) /\ req[u].obj # Marker
      BY <2>3, <3>1 DEF ArgumentsNew, MtQueueAssumption
    <3>3. /\ req[u].obj = req[t].obj /\ req[t].op \in PutOps \cup UniqueOps
          /\ pc'[t] \notin EarlyStages
      BY <2>3, <3>2 DEF Effect
    <3> QED
      BY <2>2, <2>3, <3>1, <3>3 DEF ArgumentsNew
  <2> QED
    BY <2>1, <2>2, <2>3 DEF ArgumentsNew, Progress
<1> QED
  BY <1>1, <1>2, <1>3

\* A thread whose work is the same has found out the same about the same content.
LEMMA FoundKept ==
    ASSUME NEW u \in Threads, Found(u),
           \/ pc'[u] \notin {"put", "insert", "scan", "commit"}
           \/ /\ UNCHANGED items
              /\ pc'[u] = pc[u] /\ req'[u] = req[u] /\ ret'[u] = ret[u]
              /\ snap'[u] = snap[u] /\ kept'[u] = kept[u]
    PROVE  Found(u)'
<1>1. CASE pc'[u] \notin {"put", "insert", "scan", "commit"}
  BY <1>1 DEF Found
<1>2. CASE /\ UNCHANGED items
           /\ pc'[u] = pc[u] /\ req'[u] = req[u] /\ ret'[u] = ret[u]
           /\ snap'[u] = snap[u] /\ kept'[u] = kept[u]
  BY <1>2 DEF Found
<1> QED
  BY <1>1, <1>2

\* remove-from-queue! goes from one item to the next.
LEMMA ScanOneFound ==
    ASSUME TypeBase, NEW t \in Threads, ScanOne(t), Found(t)
    PROVE  Found(t)'
<1> DEFINE s == snap[t]
           k == kept[t]
<1>1. /\ pc[t] = "scan" /\ pc' = pc /\ items' = items
      /\ s \in Seq(Items) /\ k \in Seq(Items) /\ s # <<>>
      /\ snap'[t] = Tail(s)
  BY DEF ScanOne, TypeBase, queueVars
<1>2. \/ kept'[t] = k \o <<Head(s)>> /\ ret'[t].objs = ret[t].objs
      \/ kept'[t] = k /\ ret'[t].objs = ret[t].objs \cup {Head(s)}
  <2>1. CASE kept' = [kept EXCEPT ![t] = @ \o <<Head(snap[t])>>] /\ UNCHANGED ret
    BY <2>1 DEF TypeBase
  <2>2. CASE ret' = [ret EXCEPT ![t].objs = @ \cup {Head(snap[t])}] /\ UNCHANGED kept
    BY <2>2 DEF TypeBase, Result
  <2> QED
    BY <2>1, <2>2 DEF ScanOne
<1>3. /\ Distinct(k) /\ Distinct(s)
      /\ Objects(k) \cap Objects(s) \subseteq {Marker}
      /\ Objects(k) \cup Objects(s) \subseteq Objects(items)
      /\ Objects(items) \subseteq Objects(k) \cup Objects(s) \cup ret[t].objs
  BY <1>1 DEF Found
<1> HIDE DEF s, k
<1>4. /\ Objects(s) = Objects(Tail(s)) \cup {Head(s)} /\ Distinct(Tail(s))
      /\ Head(s) = Marker \/ Head(s) \notin Objects(Tail(s))
      /\ Head(s) \in Items
  BY <1>1, <1>3, ListHead
<1>5. Head(s) = Marker \/ Head(s) \notin Objects(k)
  BY <1>3, <1>4
<1>6. Objects(k \o <<Head(s)>>) = Objects(k) \cup {Head(s)} /\ Distinct(k \o <<Head(s)>>)
  BY <1>1, <1>3, <1>4, <1>5, ListAdd
<1>7. /\ Distinct(kept'[t]) /\ Distinct(snap'[t])
      /\ Objects(kept'[t]) \cap Objects(snap'[t]) \subseteq {Marker}
      /\ Objects(kept'[t]) \cup Objects(snap'[t]) \subseteq Objects(items')
      /\ Objects(items') \subseteq Objects(kept'[t]) \cup Objects(snap'[t]) \cup ret'[t].objs
  <2>1. CASE kept'[t] = k \o <<Head(s)>> /\ ret'[t].objs = ret[t].objs
    BY <1>1, <1>3, <1>4, <1>6, <2>1
  <2>2. CASE kept'[t] = k /\ ret'[t].objs = ret[t].objs \cup {Head(s)}
    BY <1>1, <1>3, <1>4, <2>2
  <2> QED
    BY <1>2, <2>1, <2>2
<1> QED
  BY <1>1, <1>7 DEF Found

\* What the thread under the big lock has found out stays true.
LEMMA WorkExactStep ==
    ASSUME MtQueueAssumption, LockInv, LockRespected, ContentInv, NEW t \in Threads, Step(t)
    PROVE  WorkExact'
<1> USE DEF LockInv
<1>0. \A u \in Threads : Found(u)
  BY DEF ContentInv, WorkExact
<1>1. ASSUME NEW u \in Threads, u # t
      PROVE  /\ req'[u] = req[u] /\ ret'[u] = ret[u]
             /\ snap'[u] = snap[u] /\ kept'[u] = kept[u]
  BY <1>1, OthersKeep
<1>2. CASE Light(t) \/ Writer(t) \/ Reader(t)
  <2>1. \A u \in Threads : Undisturbed(u)
    BY <1>2, LightFrame, WriterFrame, ReaderFrame
  <2>2. pc'[t] \notin {"put", "insert", "scan", "commit"}
    <3>1. Goes(t, {"return", "notify", "lockWait", "big", "writerWait", "readerWait"})
      BY <1>2, LightGoes, WriterGoes, ReaderGoes DEF Goes
    <3> QED
      BY <3>1 DEF Goes
  <2>3. \A u \in Threads : pc'[u] \notin {"put", "insert", "scan", "commit"}
                              \/ (u # t /\ UNCHANGED items /\ pc'[u] = pc[u])
    BY <2>1, <2>2 DEF Undisturbed, BigStages
  <2> QED
    BY <1>0, <1>1, <2>3, FoundKept DEF WorkExact
<1>3. CASE \/ Call(t) \/ Returned(t) \/ NotifyWriters(t) \/ Expire(t) \/ TimedOut(t) \/ SpuriousWakeup(t)
           \/ SetMaxLength(t) \/ MeasureLength(t) \/ StoreLength(t)
  <2>1. UNCHANGED items
    BY <1>3 DEF Call, Returned, NotifyWriters, Expire, TimedOut, SpuriousWakeup, SetMaxLength,
                MeasureLength, StoreLength, queueVars
  <2>2. Goes(t, {"enter", "idle", "return", "again", "expired", "store"})
    <3>1. CASE Call(t) \/ Returned(t)
      BY <3>1, RestGoes DEF Goes
    <3>2. CASE NotifyWriters(t) \/ TimedOut(t)
      BY <3>2, RestGoes DEF Goes
    <3>3. CASE Expire(t) \/ SpuriousWakeup(t) \/ SetMaxLength(t)
      BY <3>3, RestGoes DEF Goes
    <3>4. CASE MeasureLength(t) \/ StoreLength(t)
      BY <3>4, RestGoes DEF Goes
    <3> QED
      BY <1>3, <3>1, <3>2, <3>3, <3>4
  <2>3. \A u \in Threads : pc'[u] \notin {"put", "insert", "scan", "commit"}
                              \/ (u # t /\ UNCHANGED items /\ pc'[u] = pc[u])
    BY <2>1, <2>2 DEF Goes
  <2> QED
    BY <1>0, <1>1, <2>3, FoundKept DEF WorkExact
<1>4. CASE \/ ReadHead(t) \/ CheckRoom(t) \/ PutUnique(t) \/ TellReaders(t) \/ ScanOne(t) \/ ScanEnd(t)
           \/ CommitRemoval(t) \/ ReleaseBigLock(t) \/ Terminated(t)
  <2>1. pc[t] \in BigStages /\ \E S : Goes(t, S)
    BY <1>4, BigGoes, Zenon DEF BigStages
  <2>2. \A u \in Threads : u # t => pc[u] \notin BigStages
    BY <2>1 DEF BigLockExclusive
  <2>3. \A u \in Threads : u # t => pc'[u] \notin {"put", "insert", "scan", "commit"}
    BY <2>1, <2>2 DEF Goes, BigStages
  <2>4. Found(t)'
    <3>1. CASE ReadHead(t)
      <4>1. /\ items' = items /\ req' = req /\ snap'[t] = items /\ kept'[t] = <<>>
            /\ pc'[t] = IF req[t].op = "remove-from-queue!" THEN "scan"
                        ELSE IF req[t].op \in UniqueOps /\ ~AlreadyThere(t) THEN "put"
                        ELSE "unlock"
        BY <3>1 DEF ReadHead, TypeBase, queueVars
      <4>2. Objects(<<>>) = {} /\ Distinct(<<>>) /\ Distinct(items)
        BY DEF Objects, Distinct, ContentInv, NoDuplicates
      <4> QED
        BY <4>1, <4>2 DEF Found, AlreadyThere
    <3>2. CASE ScanOne(t)
      BY <1>0, <3>2, ScanOneFound
    <3>3. CASE ScanEnd(t)
      <4>1. /\ pc[t] = "scan" /\ snap[t] = <<>> /\ pc'[t] \in {"unlock", "commit"}
            /\ UNCHANGED <<items, req, snap, kept, ret>>
        BY <3>3, BigGoes DEF ScanEnd, queueVars, Goes
      <4>2. Objects(<<>>) = {}
        BY DEF Objects
      <4>3. Found(t)
        BY <1>0
      <4> QED
        BY <4>1, <4>2, <4>3 DEF Found
    <3>5. CASE CheckRoom(t)
      <4>1. pc[t] = "put" /\ Goes(t, {"insert", "unlock"})
        BY <3>5, BigGoes
      <4>2. UNCHANGED <<items, req>> /\ pc'[t] \in {"insert", "unlock"}
        BY <3>5, <4>1 DEF CheckRoom, Goes
      <4>3. Found(t)
        BY <1>0
      <4> QED
        BY <4>1, <4>2, <4>3 DEF Found
    <3>4. CASE \/ PutUnique(t) \/ TellReaders(t) \/ CommitRemoval(t) \/ ReleaseBigLock(t)
               \/ Terminated(t)
      <4>1. Goes(t, {"tell", "unlock", "return", "dead"})
        BY <3>4, BigGoes DEF Goes
      <4> QED
        BY <4>1 DEF Goes, Found
    <3> QED
      BY <1>4, <3>1, <3>2, <3>3, <3>4, <3>5
  <2> QED
    BY <1>0, <2>3, <2>4, FoundKept DEF WorkExact
<1> QED
  BY <1>2, <1>3, <1>4, Zenon DEF Step

\* An object that leaves the queue is in the hands of a thread.
Kept ==
    \A v \in Values :
        v \in Objects(items) /\ v \notin Objects(items') => \E t \in Threads : v \in ret'[t].objs

LEMMA ContentStep ==
    ASSUME MtQueueAssumption, LockRespected, LockInv, LockInv', ContentInv, Next
    PROVE  ContentInv' /\ Kept
<1>1. PICK t \in Threads : Step(t)
  BY Zenon DEF Next, Step
<1>2. Effect(t)
  BY <1>1, EffectStep
<1>3. ArgumentsNew'
  BY <1>1, <1>2, ArgumentsStep DEF LockInv, ContentInv
<1>4. WorkExact'
  BY <1>1, WorkExactStep
<1>5. NoDuplicates'
  BY <1>2 DEF Effect, NoDuplicates, Distinct
<1>6. Kept
  BY <1>2 DEF Effect, Kept
<1> QED
  BY <1>3, <1>4, <1>5, <1>6 DEF ContentInv

\* The content is as it should be, whatever the lengths.
THEOREM ContentInvariance ==
    ASSUME LockRespected
    PROVE  Spec => []ContentInv
<1>1. Init => ContentInv
  <2>1. ASSUME Init PROVE ContentInv
    <3>1. items = <<>> /\ \A t \in Threads : pc[t] = "idle" /\ req[t] = NoRequest
      BY <2>1 DEF Init
    <3>2. NoRequest.op \notin PutOps \cup UniqueOps /\ NoRequest.op # "mtqueue-close!"
      BY DEF NoRequest, PutOps, UniqueOps
    <3>3. NoDuplicates /\ ArgumentsNew
      BY <3>1, <3>2 DEF NoDuplicates, ArgumentsNew
    <3>4. WorkExact
      BY <3>1 DEF WorkExact, Found
    <3> QED
      BY <3>3, <3>4 DEF ContentInv
  <2> QED
    BY <2>1
<1>2. LockInv /\ LockInv' /\ ContentInv /\ [Next]_vars => ContentInv'
  <2>1. UNCHANGED vars /\ ContentInv => ContentInv'
    BY DEF vars, ContentInv, NoDuplicates, ArgumentsNew, WorkExact, Found
  <2> QED
    BY <2>1, MtQueueAssumption, ContentStep
<1> QED
  BY <1>1, <1>2, LockInvariance, PTL DEF Spec

\* The unique insertions never leave an object in the queue twice: what the one
\* thread under the big lock has found absent is absent when it inserts it.
THEOREM ObjectsAreUnique ==
    ASSUME LockRespected
    PROVE  Spec => []NoDuplicates
<1>1. ContentInv => NoDuplicates
  BY DEF ContentInv
<1> QED
  BY <1>1, ContentInvariance, PTL

\* An object leaves the queue as the result of a call: no list that a thread
\* under the big lock stores, read some steps earlier, overwrites an insertion.
THEOREM NoObjectLost ==
    ASSUME LockRespected
    PROVE  Spec => NothingLost
<1>1. LockInv /\ LockInv' /\ ContentInv /\ [Next]_vars
        => [\A v \in Values :
               v \in Objects(items) /\ v \notin Objects(items')
                   => \E t \in Threads : v \in ret'[t].objs]_vars
  BY MtQueueAssumption, ContentStep DEF Kept
<1> QED
  BY <1>1, LockInvariance, ContentInvariance, PTL DEF Spec, NothingLost

-----------------------------------------------------------------------------
(* Nobody sleeps for nothing.                                                  *)

\* Nobody is terminated under the big lock.
NoTermination == Mortal = {} \/ NoBigOps

\* Nobody inserts a close marker, or nobody calls dequeue!, which makes room but
\* does not tell the writers when it finds nothing but a marker.
NoClose == \A t \in Threads : "mtqueue-close!" \notin MayCall[t]
NoDequeue == \A t \in Threads : "dequeue!" \notin MayCall[t]

\* The calls in progress are calls that the threads make.
Allowed == \A t \in Threads : req[t].op \in MayCall[t] \cup {NoRequest.op}

\* Nobody has been terminated.
Alive == \A t \in Threads : pc[t] # "dead"

Unmarked == NoClose => Marker \notin Objects(items)

\* remove-from-queue! has woken up all writers before it sets the new content.
\* No other goes to sleep in between, as a writer only looks whether there is room
\* when nobody has the big lock.
CommitAlone == \A t, u \in Threads : pc[t] = "commit" => pc[u] # "writerWait"

AwakeInv == Allowed /\ Alive /\ Unmarked /\ CommitAlone /\ NobodySleepsForNothing

\* The step of t wakes up the readers, or will, or there is nothing new for them.
ReadersTold(t) ==
    \/ \A u \in Threads : pc'[u] # "readerWait"
    \/ pc'[t] = "tell"
    \/ /\ items = <<>> => items' = <<>>
       /\ pc[t] # "tell"
       /\ pc'[t] = "readerWait" => items' = <<>>

\* The step of t wakes up the writers, or will, or there is no more room for them
\* than before.
WritersTold(t) ==
    \/ \A u \in Threads : pc'[u] # "writerWait"
    \/ pc'[t] = "notify"
    \/ /\ UNCHANGED <<maxlen, sem>> /\ Len(items') >= Len(items)
       /\ pc[t] # "notify"
       /\ pc'[t] = "writerWait" => WriterMustWait

\* The step of t wakes up those who wait for the big lock, or it is held.
LockersTold(t) ==
    \/ \A u \in Threads : pc'[u] # "lockWait"
    \/ locker' = t /\ pc'[t] = "big"
    \/ UNCHANGED locker /\ (pc'[t] = "lockWait" => BigLocked)

CommitTold(t) ==
    /\ pc'[t] = "writerWait" => ~BigLocked
    /\ pc'[t] = "commit" => \A u \in Threads : pc'[u] # "writerWait"

Told(t) ==
    /\ ReadersTold(t) /\ WritersTold(t) /\ LockersTold(t) /\ CommitTold(t)
    /\ pc'[t] # "dead" /\ \E S : Goes(t, S)

\* When the cached length is exact, a writer waits when the list is full.
Full == IF maxlen # 0 THEN maxlen >= 0 /\ 1 + Len(items) > maxlen ELSE sem = 0

LEMMA MustWaitExact ==
    ASSUME TypeBase, LenExact
    PROVE  WriterMustWait <=> Full
<1>1. QLength = Len(items)
  BY QLengthExact
<1> QED
  BY <1>1 DEF WriterMustWait, Overflows, Full

\* A step with which everybody is told keeps everybody awake.
LEMMA ToldKeeps ==
    ASSUME MtQueueAssumption, TypeBase, TypeBase', LenExact, LenExact', BigLockExclusive,
           AwakeInv, NEW t \in Threads, Told(t)
    PROVE  Alive' /\ CommitAlone' /\ NobodySleepsForNothing'
<1>0. \A u \in Threads \ {t} : pc'[u] = pc[u] \/ (pc[u] \in Waits /\ pc'[u] = "again")
  BY DEF Told, Goes
<1>1. Alive'
  BY <1>0 DEF Alive, AwakeInv, Told
<1>2. CommitAlone'
  <2> SUFFICES ASSUME NEW w \in Threads, NEW u \in Threads, pc'[w] = "commit",
                      pc'[u] = "writerWait"
               PROVE  FALSE
    BY DEF CommitAlone
  <2>1. w # t
    BY DEF Told, CommitTold
  <2>2. pc[w] = "commit"
    BY <1>0, <2>1
  <2>3. BigLocked
    BY <2>2, NobodyWorks DEF BigStages
  <2>4. u # t
    BY <2>3 DEF Told, CommitTold
  <2>5. pc[u] = "writerWait"
    BY <1>0, <2>4
  <2> QED
    BY <2>2, <2>5 DEF AwakeInv, CommitAlone
<1>3. ReadersAwake'
  <2> SUFFICES ASSUME items' # <<>>, NEW u \in Threads, pc'[u] = "readerWait"
               PROVE  \E w \in Threads : pc'[w] = "tell"
    BY DEF ReadersAwake
  <2>1. CASE pc'[t] = "tell"
    BY <2>1
  <2>2. CASE /\ items = <<>> => items' = <<>>
             /\ pc[t] # "tell"
             /\ pc'[t] = "readerWait" => items' = <<>>
    <3>1. u # t /\ items # <<>>
      BY <2>2
    <3>2. pc[u] = "readerWait"
      BY <1>0, <3>1
    <3>3. PICK w \in Threads : pc[w] = "tell"
      BY <3>1, <3>2 DEF AwakeInv, NobodySleepsForNothing, ReadersAwake
    <3>4. w # t /\ pc[w] \notin Waits
      BY <2>2, <3>3 DEF Waits
    <3> QED
      BY <1>0, <3>3, <3>4
  <2> QED
    BY <2>1, <2>2 DEF Told, ReadersTold
<1>4. WritersAwake'
  <2> SUFFICES ASSUME ~WriterMustWait', NEW u \in Threads, pc'[u] = "writerWait"
               PROVE  \E w \in Threads : pc'[w] = "notify"
    BY DEF WritersAwake
  <2>1. CASE pc'[t] = "notify"
    BY <2>1
  <2>2. CASE /\ UNCHANGED <<maxlen, sem>> /\ Len(items') >= Len(items)
             /\ pc[t] # "notify"
             /\ pc'[t] = "writerWait" => WriterMustWait
    <3>a. WriterMustWait <=> Full
      BY MustWaitExact
    <3>b. WriterMustWait' <=> Full'
      BY MustWaitExact, PTL
    <3>c. maxlen \in Int /\ items \in Seq(Items) /\ items' \in Seq(Items)
      BY DEF TypeBase
    <3>d. Len(items) \in Nat /\ Len(items') \in Nat
      BY <3>c
    <3>1. ~WriterMustWait
      BY <2>2, <3>a, <3>b, <3>c, <3>d DEF Full
    <3>2. u # t /\ pc[u] = "writerWait"
      BY <1>0, <2>2, <3>1
    <3>3. PICK w \in Threads : pc[w] = "notify"
      BY <3>1, <3>2 DEF AwakeInv, NobodySleepsForNothing, WritersAwake
    <3>4. w # t /\ pc[w] \notin Waits
      BY <2>2, <3>3 DEF Waits
    <3> QED
      BY <1>0, <3>3, <3>4
  <2> QED
    BY <2>1, <2>2 DEF Told, WritersTold
<1>5. LockWaitersHaveLocker'
  <2> SUFFICES ASSUME NEW u \in Threads, pc'[u] = "lockWait"
               PROVE  BigLocked'
    BY DEF LockWaitersHaveLocker
  <2>1. CASE locker' = t /\ pc'[t] = "big"
    BY <2>1 DEF BigLocked, MtQueueAssumption
  <2>2. CASE UNCHANGED locker /\ (pc'[t] = "lockWait" => BigLocked)
    <3>1. BigLocked
      BY <1>0, <2>2 DEF AwakeInv, NobodySleepsForNothing, LockWaitersHaveLocker
    <3>2. locker \in Threads /\ pc'[locker] # "dead"
      BY <1>1, <3>1 DEF BigLocked, Alive, TypeBase
    <3> QED
      BY <2>2, <3>1, <3>2 DEF BigLocked
  <2> QED
    BY <2>1, <2>2 DEF Told, LockersTold
<1> QED
  BY <1>1, <1>2, <1>3, <1>4, <1>5 DEF NobodySleepsForNothing

\* A step that does nothing to the queue but take t elsewhere.
LEMMA ToldNothing ==
    ASSUME NEW t \in Threads, NEW S, Goes(t, S), UNCHANGED <<items, maxlen, sem, locker>>,
           pc[t] \notin {"tell", "notify"},
           S \cap {"readerWait", "writerWait", "commit", "dead"} = {},
           pc'[t] = "lockWait" => BigLocked, items \in Seq(Items)
    PROVE  Told(t)
<1>1. pc'[t] \notin {"readerWait", "writerWait", "commit", "dead"}
  BY DEF Goes
<1>2. Len(items') >= Len(items)
  OBVIOUS
<1> QED
  BY <1>1, <1>2 DEF Told, ReadersTold, WritersTold, LockersTold, CommitTold

\* COND_BROADCAST leaves nobody asleep on its condition variable, and puts nobody
\* to sleep.
LEMMA NotifyQuiet ==
    ASSUME NEW p \in [Threads -> Stages], NEW cv \in Waits, NEW t \in Threads, NEW s, s # cv
    PROVE  /\ \A u \in Threads : [Notify(p, cv) EXCEPT ![t] = s][u] # cv
           /\ \A u \in Threads : Notify(p, cv)[u] # cv
           /\ \A cw \in Waits : s # cw /\ (\A u \in Threads : p[u] # cw)
                 => \A u \in Threads : [Notify(p, cv) EXCEPT ![t] = s][u] # cw
<1>1. \A u \in Threads : Notify(p, cv)[u] = IF p[u] = cv THEN "again" ELSE p[u]
  BY DEF Notify
<1>2. Notify(p, cv) = [u \in Threads |-> Notify(p, cv)[u]]
  BY DEF Notify
<1>3. \A u \in Threads : [Notify(p, cv) EXCEPT ![t] = s][u] = IF u = t THEN s ELSE Notify(p, cv)[u]
  BY <1>2
<1> QED
  BY <1>1, <1>3 DEF Waits

LEMMA LightTold ==
    ASSUME MtQueueAssumption, TypeBase, AwakeInv, NoClose \/ NoDequeue,
           NEW t \in Threads, Light(t)
    PROVE  Told(t)
<1>0. /\ pc[t] \in {"enter", "again"} /\ UNCHANGED <<maxlen, sem>>
      /\ items \in Seq(Items) /\ pc \in [Threads -> Stages] /\ Woken(pc)
  BY WokenNotify DEF Light, TypeBase
<1>1. CASE WaitBigLock(t, pc)
  <2>1. /\ pc' = [pc EXCEPT ![t] = "lockWait"] /\ UNCHANGED <<items, locker>> /\ BigLocked
    BY <1>1 DEF WaitBigLock, Stage
  <2>2. Goes(t, {"lockWait"})
    BY <1>0, <2>1, WokenGoes
  <2> QED
    BY <1>0, <2>1, <2>2, ToldNothing
<1>2. CASE GrabBigLock(t)
  <2>1. pc' = [pc EXCEPT ![t] = "big"] /\ UNCHANGED items /\ locker' = t
    BY <1>2 DEF GrabBigLock, Stage
  <2>2. Goes(t, {"big"}) /\ pc'[t] = "big"
    BY <1>0, <2>1, WokenGoes
  <2>3. Len(items') >= Len(items)
    BY <1>0, <2>1
  <2> QED
    BY <1>0, <2>1, <2>2, <2>3 DEF Told, ReadersTold, WritersTold, LockersTold, CommitTold
<1>3. CASE (QWriteOp(t) \/ Query(t)) /\ UNCHANGED locker
  <2>1. \/ UNCHANGED items /\ pc' = [pc EXCEPT ![t] = "return"]
        \/ /\ items' = items \o <<req[t].obj>> \/ items' = <<req[t].obj>> \o items
           /\ pc' = [Notify(pc, "readerWait") EXCEPT ![t] = "return"]
    BY <1>3, Zenon DEF QWriteOp, Query, Return
  <2>2. CASE UNCHANGED items /\ pc' = [pc EXCEPT ![t] = "return"]
    <3>1. Goes(t, {"return"})
      BY <1>0, <2>2, WokenGoes
    <3>2. pc'[t] = "return"
      BY <3>1 DEF Goes
    <3> QED
      BY <1>0, <1>3, <2>2, <3>1, <3>2, ToldNothing
  <2>3. CASE /\ items' = items \o <<req[t].obj>> \/ items' = <<req[t].obj>> \o items
             /\ pc' = [Notify(pc, "readerWait") EXCEPT ![t] = "return"]
    <3>1. Woken(Notify(pc, "readerWait"))
      BY WokenNotify DEF Waits
    <3>2. Goes(t, {"return"})
      BY <2>3, <3>1, WokenGoes
    <3>3. \A u \in Threads : pc'[u] # "readerWait"
      BY <1>0, <2>3, NotifyQuiet DEF Waits
    <3>4. Len(items') >= Len(items)
      BY <1>0, <2>3
    <3>5. pc'[t] = "return"
      BY <3>2 DEF Goes
    <3> QED
      BY <1>0, <1>3, <3>2, <3>3, <3>4, <3>5
         DEF Told, ReadersTold, WritersTold, LockersTold, CommitTold
  <2> QED
    BY <2>1, <2>2, <2>3
<1>4. CASE Dequeue(t) /\ UNCHANGED locker
  <2>1. /\ req[t].op = "dequeue!" /\ DequeueInt
        /\ \/ NoItem /\ pc' = [pc EXCEPT ![t] = "return"]
           \/ pc' = [pc EXCEPT ![t] = "notify"]
    BY <1>4, Zenon DEF Dequeue, Return
  <2>2. Leading \in 0..Len(items)
    BY <1>0, LeadingRange
  <2>3. items = <<>> => items' = <<>>
    BY <2>1, <2>2 DEF DequeueInt
  <2>4. CASE NoItem /\ pc' = [pc EXCEPT ![t] = "return"]
    <3>1. NoClose
      BY <2>1 DEF NoDequeue, AwakeInv, Allowed, NoRequest
    <3>2. items = <<>>
      <4>1. ASSUME items # <<>> PROVE FALSE
        <5>1. 1 \in 1..Len(items)
          BY <1>0, <4>1
        <5>2. items[1] = Marker
          BY <2>4, <5>1 DEF NoItem
        <5> QED
          BY <3>1, <5>1, <5>2 DEF AwakeInv, Unmarked, Objects
      <4> QED
        BY <4>1
    <3>3. UNCHANGED items
      BY <2>3, <3>2
    <3>4. Goes(t, {"return"})
      BY <1>0, <2>4, WokenGoes
    <3>5. pc'[t] = "return"
      BY <3>4 DEF Goes
    <3> QED
      BY <1>0, <1>4, <3>3, <3>4, <3>5, ToldNothing
  <2>5. CASE pc' = [pc EXCEPT ![t] = "notify"]
    <3>1. Goes(t, {"notify"})
      BY <1>0, <2>5, WokenGoes
    <3>2. pc'[t] = "notify"
      BY <3>1 DEF Goes
    <3> QED
      BY <1>0, <1>4, <2>3, <3>1, <3>2
         DEF Told, ReadersTold, WritersTold, LockersTold, CommitTold
  <2> QED
    BY <2>1, <2>4, <2>5
<1>5. CASE DequeueAll(t) /\ UNCHANGED locker
  <2>1. items' = <<>> /\ pc' = [pc EXCEPT ![t] = "notify"]
    BY <1>5 DEF DequeueAll
  <2>2. Goes(t, {"notify"})
    BY <1>0, <2>1, WokenGoes
  <2>3. pc'[t] = "notify"
    BY <2>2 DEF Goes
  <2> QED
    BY <1>0, <1>5, <2>1, <2>2, <2>3
       DEF Told, ReadersTold, WritersTold, LockersTold, CommitTold
<1> QED
  BY <1>1, <1>2, <1>3, <1>4, <1>5, Zenon DEF Light

LEMMA WriterTold ==
    ASSUME TypeBase, NEW t \in Threads, Writer(t)
    PROVE  Told(t)
<1>0. /\ pc[t] \in {"enter", "again"} /\ UNCHANGED <<maxlen, sem>>
      /\ items \in Seq(Items) /\ pc \in [Threads -> Stages] /\ Woken(pc)
  BY WokenNotify DEF Writer, TypeBase
<1>1. CASE RejectClosed(t) \/ WaitBigLock(t, pc)
  <2>1. /\ UNCHANGED <<items, locker>>
        /\ \/ pc' = [pc EXCEPT ![t] = "return"]
           \/ pc' = [pc EXCEPT ![t] = "lockWait"] /\ BigLocked
    BY <1>1, Zenon DEF RejectClosed, WaitBigLock, Stage, Return
  <2>2. CASE pc' = [pc EXCEPT ![t] = "return"]
    <3>1. Goes(t, {"return"})
      BY <1>0, <2>2, WokenGoes
    <3>2. pc'[t] = "return"
      BY <3>1 DEF Goes
    <3> QED
      BY <1>0, <2>1, <3>1, <3>2, ToldNothing
  <2>3. CASE pc' = [pc EXCEPT ![t] = "lockWait"] /\ BigLocked
    <3>1. Goes(t, {"lockWait"})
      BY <1>0, <2>3, WokenGoes
    <3> QED
      BY <1>0, <2>1, <2>3, <3>1, ToldNothing
  <2> QED
    BY <2>1, <2>2, <2>3
<1>2. CASE /\ ~BigLocked /\ WriterMustWait
           /\ Stage(t, pc, "writerWait")
           /\ UNCHANGED <<items, closed, locker>>
  <2>1. Goes(t, {"writerWait"})
    BY <1>0, <1>2, WokenGoes DEF Stage
  <2>2. pc'[t] = "writerWait" /\ Len(items') >= Len(items)
    BY <1>0, <1>2, <2>1 DEF Goes
  <2> QED
    BY <1>0, <1>2, <2>1, <2>2 DEF Told, ReadersTold, WritersTold, LockersTold, CommitTold
<1>3. CASE WriterOk(t)
  <2> DEFINE p == Notify(pc, "readerWait")
  <2>1. /\ items' = <<req[t].obj>> \o items \/ items' = items \o <<req[t].obj>>
        /\ pc' = [Notify(p, "lockWait") EXCEPT ![t] = "return"]
    BY <1>3, Zenon DEF WriterOk, Insert, Return
  <2>2. p \in [Threads -> Stages] /\ (\A u \in Threads : p[u] # "readerWait") /\ Woken(p)
    BY <1>0, NotifyType, NotifyQuiet, WokenNotify DEF Waits
  <2> HIDE DEF p
  <2>3. \A u \in Threads : pc'[u] # "lockWait" /\ pc'[u] # "readerWait"
    BY <2>1, <2>2, NotifyQuiet DEF Waits
  <2>4. Woken(Notify(p, "lockWait"))
    BY <2>2, WokenNotify DEF Waits
  <2>5. Goes(t, {"return"})
    BY <2>1, <2>4, WokenGoes
  <2>6. pc'[t] = "return"
    BY <2>5 DEF Goes
  <2>7. Len(items') >= Len(items)
    BY <1>0, <2>1
  <2> QED
    BY <1>0, <2>3, <2>5, <2>6, <2>7
       DEF Told, ReadersTold, WritersTold, LockersTold, CommitTold
<1> QED
  BY <1>1, <1>2, <1>3, Zenon DEF Writer

LEMMA ReaderTold ==
    ASSUME TypeBase, NEW t \in Threads, Reader(t)
    PROVE  Told(t)
<1>0. /\ pc[t] \in {"enter", "again"} /\ UNCHANGED maxlen
      /\ items \in Seq(Items) /\ pc \in [Threads -> Stages]
  BY DEF Reader, TypeBase
<1>1. PICK n, p : /\ ReaderTurn(t, n, p) /\ Woken(p)
                  /\ n = sem \/ \A u \in Threads : p[u] # "writerWait"
  <2>1. /\ Woken(pc) /\ Woken(Notify(pc, "writerWait"))
        /\ \A u \in Threads : Notify(pc, "writerWait")[u] # "writerWait"
    BY WokenNotify DEF Waits
  <2>2. ReaderTurn(t, sem + 1, Notify(pc, "writerWait")) \/ ReaderTurn(t, sem, pc)
    BY Zenon DEF Reader, ReaderStep
  <2> QED
    BY <2>1, <2>2, Zenon
<1>2. p \in [Threads -> Stages]
  BY <1>1 DEF Woken
<1>3. CASE \/ WaitBigLock(t, p) /\ sem' = n
           \/ /\ items = <<>> /\ sem' = n
              /\ Stage(t, p, "readerWait")
              /\ UNCHANGED <<items, len, locker>>
  <2>1. /\ UNCHANGED <<items, locker>> /\ sem' = n
        /\ \/ pc' = [p EXCEPT ![t] = "lockWait"] /\ BigLocked
           \/ pc' = [p EXCEPT ![t] = "readerWait"] /\ items = <<>>
    BY <1>3, Zenon DEF WaitBigLock, Stage
  <2>2. PICK s \in {"lockWait", "readerWait"} :
          pc' = [p EXCEPT ![t] = s] /\ (s = "lockWait" => BigLocked)
                                    /\ (s = "readerWait" => items = <<>>)
    BY <2>1
  <2>3. Goes(t, {s})
    BY <1>1, <2>2, WokenGoes
  <2>4. pc'[t] = s /\ Len(items') >= Len(items)
    BY <1>0, <2>1, <2>3 DEF Goes
  <2>5. sem' = sem \/ \A u \in Threads : pc'[u] # "writerWait"
    BY <1>1, <1>2, <2>1, <2>2
  <2>6. WritersTold(t)
    BY <1>0, <2>2, <2>4, <2>5 DEF WritersTold
  <2> QED
    BY <1>0, <2>1, <2>2, <2>3, <2>4, <2>6 DEF Told, ReadersTold, LockersTold, CommitTold
<1>4. CASE /\ DequeueInt
           /\ Return(t, Notify(Notify(p, "writerWait"), "lockWait"),
                     IF NoItem THEN "timeout-val" ELSE "ok", Taken)
  <2> DEFINE q == Notify(p, "writerWait")
  <2>1. pc' = [Notify(q, "lockWait") EXCEPT ![t] = "return"]
    BY <1>4 DEF Return
  <2>2. q \in [Threads -> Stages] /\ (\A u \in Threads : q[u] # "writerWait") /\ Woken(q)
    BY <1>1, <1>2, NotifyType, WokenNotify DEF Waits
  <2> HIDE DEF q
  <2>3. \A u \in Threads : pc'[u] # "lockWait" /\ pc'[u] # "writerWait"
    BY <2>1, <2>2, NotifyQuiet DEF Waits
  <2>4. Woken(Notify(q, "lockWait"))
    BY <2>2, WokenNotify DEF Waits
  <2>5. Goes(t, {"return"})
    BY <2>1, <2>4, WokenGoes
  <2>6. pc'[t] = "return"
    BY <2>5 DEF Goes
  <2>7. Leading \in 0..Len(items)
    BY <1>0, LeadingRange
  <2>8. items = <<>> => items' = <<>>
    BY <1>4, <2>7 DEF DequeueInt
  <2> QED
    BY <1>0, <2>3, <2>5, <2>6, <2>8
       DEF Told, ReadersTold, WritersTold, LockersTold, CommitTold
<1> QED
  BY <1>1, <1>3, <1>4, Zenon DEF ReaderTurn

LEMMA BigTold ==
    ASSUME LockInv, AwakeInv, NoTermination, NEW t \in Threads,
           \/ ReadHead(t) \/ CheckRoom(t) \/ PutUnique(t) \/ TellReaders(t)
           \/ ScanOne(t) \/ ScanEnd(t) \/ CommitRemoval(t) \/ ReleaseBigLock(t)
           \/ Terminated(t)
    PROVE  Told(t)
<1>0. TypeBase /\ items \in Seq(Items) /\ pc \in [Threads -> Stages] /\ Woken(pc)
  BY WokenNotify DEF LockInv, TypeBase
<1>1. CASE ReadHead(t)
  <2>1. pc[t] = "big" /\ Goes(t, {"scan", "put", "unlock"})
    BY <1>0, <1>1, BigGoes
  <2>2. UNCHANGED <<items, maxlen, sem, locker>>
    BY <1>1 DEF ReadHead, queueVars
  <2>3. pc'[t] # "lockWait"
    BY <2>1 DEF Goes
  <2> QED
    BY <1>0, <2>1, <2>2, <2>3, ToldNothing
<1>2. CASE PutUnique(t)
  <2>1. /\ pc[t] = "insert" /\ UNCHANGED <<maxlen, sem, locker>>
        /\ items' = items \o <<req[t].obj>> \/ items' = <<req[t].obj>> \o snap[t]
        /\ pc' = [pc EXCEPT ![t] = "tell"]
    BY <1>2, Zenon DEF PutUnique, SetContent, Stage
  <2>2. snap[t] = items
    BY <2>1 DEF LockInv, WorkCurrent
  <2>3. Len(items') >= Len(items)
    BY <1>0, <2>1, <2>2
  <2>4. Goes(t, {"tell"})
    BY <1>0, <1>2, BigGoes
  <2>5. pc'[t] = "tell"
    BY <1>0, <2>1
  <2> QED
    BY <2>1, <2>3, <2>4, <2>5 DEF Told, ReadersTold, WritersTold, LockersTold, CommitTold
<1>9. CASE CheckRoom(t)
  <2>1. pc[t] = "put" /\ Goes(t, {"insert", "unlock"})
    BY <1>0, <1>9, BigGoes
  <2>2. UNCHANGED <<items, maxlen, sem, locker>>
    BY <1>9 DEF CheckRoom
  <2>3. pc'[t] # "lockWait"
    BY <2>1 DEF Goes
  <2> QED
    BY <1>0, <2>1, <2>2, <2>3, ToldNothing
<1>3. CASE TellReaders(t)
  <2>1. /\ pc[t] = "tell" /\ UNCHANGED <<items, maxlen, sem, locker>>
        /\ pc' = [Notify(pc, "readerWait") EXCEPT ![t] = "unlock"]
    BY <1>3 DEF TellReaders, queueVars
  <2>2. \A u \in Threads : pc'[u] # "readerWait"
    BY <1>0, <2>1, NotifyQuiet DEF Waits
  <2>3. Goes(t, {"unlock"})
    BY <1>0, <1>3, BigGoes
  <2>4. pc'[t] = "unlock" /\ Len(items') >= Len(items)
    BY <1>0, <2>1, <2>3 DEF Goes
  <2> QED
    BY <2>1, <2>2, <2>3, <2>4 DEF Told, ReadersTold, WritersTold, LockersTold, CommitTold
<1>4. CASE ScanOne(t)
  <2>1. pc[t] = "scan" /\ Goes(t, {"scan"})
    BY <1>0, <1>4, BigGoes
  <2>2. UNCHANGED <<items, maxlen, sem, locker>>
    BY <1>4 DEF ScanOne, queueVars
  <2>3. pc'[t] # "lockWait"
    BY <2>1 DEF Goes
  <2> QED
    BY <1>0, <2>1, <2>2, <2>3, ToldNothing
<1>5. CASE ScanEnd(t)
  <2>1. /\ pc[t] = "scan" /\ UNCHANGED <<items, maxlen, sem, locker>>
        /\ \/ pc' = [pc EXCEPT ![t] = "unlock"]
           \/ pc' = [Notify(pc, "writerWait") EXCEPT ![t] = "commit"]
    BY <1>5 DEF ScanEnd, queueVars
  <2>2. Goes(t, {"commit", "unlock"})
    BY <1>0, <1>5, BigGoes
  <2>3. Len(items') >= Len(items)
    BY <1>0, <2>1
  <2>4. pc'[t] = "unlock" \/ \A u \in Threads : pc'[u] # "writerWait"
    <3>1. CASE pc' = [pc EXCEPT ![t] = "unlock"]
      BY <1>0, <3>1
    <3>2. CASE pc' = [Notify(pc, "writerWait") EXCEPT ![t] = "commit"]
      BY <1>0, <3>2, NotifyQuiet DEF Waits
    <3> QED
      BY <2>1, <3>1, <3>2
  <2>5. pc'[t] \in {"commit", "unlock"}
    BY <2>2 DEF Goes
  <2> QED
    BY <2>1, <2>2, <2>3, <2>4, <2>5 DEF Told, ReadersTold, WritersTold, LockersTold, CommitTold
<1>6. CASE CommitRemoval(t)
  <2>1. /\ pc[t] = "commit" /\ UNCHANGED <<maxlen, sem, locker>>
        /\ items' = kept[t] /\ pc' = [pc EXCEPT ![t] = "unlock"]
    BY <1>6 DEF CommitRemoval, SetContent, Stage
  <2>2. Len(kept[t]) <= Len(items) /\ kept[t] \in Seq(Items)
    BY <2>1 DEF LockInv, WorkCurrent, TypeBase
  <2>3. items = <<>> => items' = <<>>
    BY <1>0, <2>1, <2>2
  <2>4. \A u \in Threads : pc'[u] # "writerWait"
    BY <1>0, <2>1 DEF AwakeInv, CommitAlone
  <2>5. Goes(t, {"unlock"})
    BY <1>0, <1>6, BigGoes
  <2>6. pc'[t] = "unlock"
    BY <2>5 DEF Goes
  <2> QED
    BY <2>1, <2>3, <2>4, <2>5, <2>6 DEF Told, ReadersTold, WritersTold, LockersTold, CommitTold
<1>7. CASE ReleaseBigLock(t)
  <2>1. /\ pc[t] = "unlock" /\ UNCHANGED <<items, maxlen, sem>>
        /\ pc' = [Notify(pc, "lockWait") EXCEPT ![t] = "return"]
    BY <1>7 DEF ReleaseBigLock
  <2>2. \A u \in Threads : pc'[u] # "lockWait"
    BY <1>0, <2>1, NotifyQuiet DEF Waits
  <2>3. Goes(t, {"return"})
    BY <1>0, <1>7, BigGoes
  <2>4. pc'[t] = "return" /\ Len(items') >= Len(items)
    BY <1>0, <2>1, <2>3 DEF Goes
  <2> QED
    BY <2>1, <2>2, <2>3, <2>4 DEF Told, ReadersTold, WritersTold, LockersTold, CommitTold
<1>8. ~Terminated(t)
  BY DEF Terminated, NoTermination, LockInv, Disciplined
<1> QED
  BY <1>1, <1>2, <1>3, <1>4, <1>5, <1>6, <1>7, <1>8, <1>9

LEMMA RestTold ==
    ASSUME TypeBase, NEW t \in Threads,
           Call(t) \/ Returned(t) \/ NotifyWriters(t) \/ Expire(t) \/ TimedOut(t) \/ SpuriousWakeup(t)
    PROVE  Told(t)
<1>0. items \in Seq(Items) /\ pc \in [Threads -> Stages]
  BY DEF TypeBase
<1>1. CASE Call(t) \/ Returned(t) \/ Expire(t) \/ SpuriousWakeup(t)
  <2>1. UNCHANGED <<items, maxlen, sem, locker>>
    BY <1>1 DEF Call, Returned, Expire, SpuriousWakeup, queueVars
  <2>2. /\ pc[t] \in {"idle", "return"} \cup Waits
        /\ Goes(t, {"enter", "idle", "again", "expired"})
    <3>1. CASE Call(t)
      BY <3>1, RestGoes DEF Goes
    <3>2. CASE Returned(t)
      BY <3>2, RestGoes DEF Goes
    <3>3. CASE Expire(t) \/ SpuriousWakeup(t)
      BY <3>3, RestGoes DEF Goes, Waits
    <3> QED
      BY <1>1, <3>1, <3>2, <3>3
  <2>3. pc'[t] # "lockWait" /\ pc[t] \notin {"tell", "notify"}
    BY <2>2 DEF Goes, Waits
  <2> QED
    BY <1>0, <2>1, <2>2, <2>3, ToldNothing
<1>2. CASE NotifyWriters(t)
  <2>1. /\ pc[t] = "notify" /\ UNCHANGED <<items, maxlen, sem, locker>>
        /\ pc' = [Notify(pc, "writerWait") EXCEPT ![t] = "return"]
    BY <1>2 DEF NotifyWriters, queueVars
  <2>2. \A u \in Threads : pc'[u] # "writerWait"
    BY <1>0, <2>1, NotifyQuiet DEF Waits
  <2>3. Goes(t, {"return"})
    BY <1>2, RestGoes
  <2>4. pc'[t] = "return"
    BY <2>3 DEF Goes
  <2> QED
    BY <2>1, <2>2, <2>3, <2>4 DEF Told, ReadersTold, WritersTold, LockersTold, CommitTold
<1>3. CASE TimedOut(t)
  <2>1. /\ pc[t] = "expired" /\ UNCHANGED <<items, maxlen, sem>>
        /\ pc' = [Notify(pc, "lockWait") EXCEPT ![t] = "return"]
    BY <1>3 DEF TimedOut, Return
  <2>2. \A u \in Threads : pc'[u] # "lockWait"
    BY <1>0, <2>1, NotifyQuiet DEF Waits
  <2>3. Goes(t, {"return"})
    BY <1>3, RestGoes
  <2>4. pc'[t] = "return" /\ Len(items') >= Len(items)
    BY <1>0, <2>1, <2>3 DEF Goes
  <2> QED
    BY <2>1, <2>2, <2>3, <2>4 DEF Told, ReadersTold, WritersTold, LockersTold, CommitTold
<1> QED
  BY <1>1, <1>2, <1>3

LEMMA AwakeStep ==
    ASSUME MtQueueAssumption, LockRespected, NoResizing, NoTermination, NoClose \/ NoDequeue,
           Inv, Inv', ContentInv, AwakeInv, Next
    PROVE  AwakeInv'
<1>0. TypeBase /\ LockInv
  BY DEF Inv, LockInv
<1>1. PICK t \in Threads : Step(t)
  BY Zenon DEF Next, Step
<1>2. Allowed'
  <2>1. ASSUME NEW u \in Threads PROVE req'[u].op \in MayCall[u] \cup {NoRequest.op}
    <3>0. req[u].op \in MayCall[u] \cup {NoRequest.op}
      BY DEF AwakeInv, Allowed
    <3>1. CASE u # t
      BY <1>0, <1>1, <3>0, <3>1, OthersKeep
    <3>2. CASE u = t /\ Call(t)
      BY <1>0, <3>2, CallDisciplined
    <3>3. CASE u = t /\ Returned(t)
      BY <1>0, <3>3 DEF Returned, TypeBase
    <3>4. CASE ~Call(t) /\ ~Returned(t)
      <4>1. req' = req
        BY <1>1, <3>4 DEF Step, Light, NotifyWriters, Writer, Reader, Expire, TimedOut, SpuriousWakeup,
              ReadHead, CheckRoom, PutUnique, TellReaders, ScanOne, ScanEnd, CommitRemoval, ReleaseBigLock,
              Terminated, SetMaxLength, MeasureLength, StoreLength
      <4> QED
        BY <3>0, <4>1
    <3> QED
      BY <3>1, <3>2, <3>3, <3>4
  <2> QED
    BY <2>1 DEF Allowed
<1>3. Unmarked'
  <2> SUFFICES ASSUME NoClose, Marker \in Objects(items') PROVE FALSE
    BY DEF Unmarked
  <2>1. Effect(t)
    BY <1>0, <1>1, EffectStep
  <2>2. Marker \notin Objects(items)
    BY DEF AwakeInv, Unmarked
  <2>3. req[t].op # "mtqueue-close!"
    BY DEF AwakeInv, Allowed, NoClose, NoRequest
  <2>4. req[t].op \in PutOps \cup UniqueOps => req[t].obj # Marker
    BY DEF ContentInv, ArgumentsNew, MtQueueAssumption
  <2> QED
    BY <2>1, <2>2, <2>3, <2>4 DEF Effect
<1>4. Told(t)
  <2>1. ~MeasureLength(t) /\ ~StoreLength(t)
    BY DEF Inv, Unmeasured, MeasureLength, StoreLength
  <2>2. ~SetMaxLength(t)
    BY DEF AwakeInv, Allowed, NoResizing, NoRequest, SetMaxLength
  <2>3. CASE Light(t) \/ Writer(t) \/ Reader(t)
    BY <1>0, <2>3, LightTold, WriterTold, ReaderTold
  <2>4. CASE \/ ReadHead(t) \/ CheckRoom(t) \/ PutUnique(t) \/ TellReaders(t)
             \/ ScanOne(t) \/ ScanEnd(t) \/ CommitRemoval(t) \/ ReleaseBigLock(t)
             \/ Terminated(t)
    BY <1>0, <2>4, BigTold
  <2>5. CASE Call(t) \/ Returned(t) \/ NotifyWriters(t) \/ Expire(t) \/ TimedOut(t) \/ SpuriousWakeup(t)
    BY <1>0, <2>5, RestTold
  <2> QED
    BY <1>1, <2>1, <2>2, <2>3, <2>4, <2>5, Zenon DEF Step
<1>5. Alive' /\ CommitAlone' /\ NobodySleepsForNothing'
  <2>1. TypeBase' /\ LenExact /\ LenExact' /\ BigLockExclusive
    BY DEF Inv, LockInv
  <2> QED
    BY <1>0, <1>4, <2>1, ToldKeeps
<1> QED
  BY <1>2, <1>3, <1>5 DEF AwakeInv

\* No call sleeps on a condition variable of the queue for nothing: whoever brings
\* about what a reader, a writer or a thread that wants the big lock waits for
\* notifies it, or is about to, in any mix of calls with which the code keeps that.
THEOREM NoWakeupMissed ==
    ASSUME LockRespected, NoUnlockedLength, NoResizing, NoTermination, NoClose \/ NoDequeue
    PROVE  Spec => []NobodySleepsForNothing
<1>1. Init => AwakeInv
  <2>1. ASSUME Init PROVE AwakeInv
    <3>1. /\ items = <<>> /\ locker = NoThread
          /\ \A t \in Threads : pc[t] = "idle" /\ req[t] = NoRequest
      BY <2>1 DEF Init
    <3>2. Allowed /\ Alive /\ CommitAlone
      BY <3>1 DEF Allowed, Alive, CommitAlone
    <3>3. Unmarked
      BY <3>1 DEF Unmarked, Objects
    <3>4. NobodySleepsForNothing
      BY <3>1 DEF NobodySleepsForNothing, ReadersAwake, WritersAwake, LockWaitersHaveLocker
    <3> QED
      BY <3>2, <3>3, <3>4 DEF AwakeInv
  <2> QED
    BY <2>1
<1>2. Inv /\ Inv' /\ ContentInv /\ AwakeInv /\ [Next]_vars => AwakeInv'
  <2>1. UNCHANGED vars /\ AwakeInv => AwakeInv'
    BY DEF vars, AwakeInv, Allowed, Alive, Unmarked, CommitAlone, NobodySleepsForNothing,
           ReadersAwake, WritersAwake, LockWaitersHaveLocker, WriterMustWait, Overflows,
           QLength, BigLocked
  <2> QED
    BY <2>1, MtQueueAssumption, AwakeStep
<1>3. AwakeInv => NobodySleepsForNothing
  BY DEF AwakeInv
<1> QED
  BY <1>1, <1>2, <1>3, Invariance, ContentInvariance, PTL DEF Spec
=============================================================================
