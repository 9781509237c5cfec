------------------------------ MODULE MtQueue ------------------------------
(* <mtqueue>, the thread-safe queue of data.queue (src/ext/data/queue.scm).    *)
(*                                                                             *)
(* The queue has two locks.  `mutex' is a C mutex held within one C routine;   *)
(* what a routine does between taking and releasing it is one action here.     *)
(* The big lock is the slot `locker', held across calls back to Scheme; every  *)
(* routine that takes the mutex first waits on lockWait while another live     *)
(* thread is the locker.  Readers and writers that must block wait on          *)
(* readerWait and writerWait, releasing the mutex.                             *)
EXTENDS Integers, Sequences, FiniteSets

CONSTANTS
    Threads,      \* the client threads
    Values,       \* the objects they put into the queue
    Marker,       \* close_marker, the object mtqueue-close! enqueues
    NoThread,     \* locker = #f
    MayCall,      \* which procedures each thread calls
    TimeoutArgs,  \* whether a .../wait! call has a timeout: a set of Booleans
    CloseArgs,    \* the `close' arguments of .../wait!: a set of Booleans
    MaxLength,    \* initial max-length, negative for unlimited
    NewLengths,   \* the lengths a client stores into the max-length slot
    Mortal,       \* the threads that another thread may terminate
    MaxReaders    \* bound: dequeue/wait! is not called once readerSem is here

LightOps == {"enqueue!", "queue-push!", "dequeue!", "dequeue-all!", "mtqueue-room",
             "queue-rear"}
UnlockedOps == {"queue-length", "set-max-length"}
WriteOps == {"enqueue/wait!", "queue-push/wait!", "mtqueue-close!"}
UniqueOps == {"enqueue-unique!", "queue-push-unique!"}
BigOps == UniqueOps \cup {"remove-from-queue!", "queue->list"}
Ops == LightOps \cup UnlockedOps \cup WriteOps \cup {"dequeue/wait!"} \cup BigOps

ASSUME MtQueueAssumption ==
    /\ Marker \notin Values
    /\ NoThread \notin Threads
    /\ MayCall \in [Threads -> SUBSET Ops]
    /\ TimeoutArgs \subseteq BOOLEAN
    /\ CloseArgs \subseteq BOOLEAN
    /\ MaxLength \in Int
    /\ NewLengths \subseteq Int
    /\ Mortal \subseteq Threads
    /\ MaxReaders \in Nat

VARIABLES
    items,    \* the list from Q_HEAD to Q_TAIL
    len,      \* Q_LENGTH: cached length, -1 for "to be calculated"
    closed,   \* MTQ_CLOSED
    maxlen,   \* MTQ_MAXLEN
    sem,      \* MTQ_READER_SEM: "# of waiting reader"
    locker,   \* MTQ_LOCKER
    pc,       \* where each thread is
    req,      \* the call each thread is making
    snap,     \* the list a thread has read from the queue (%qhead)
    kept,     \* remove-from-queue!: the items that stay, of those looked at
    ret       \* what the call returns, and the objects it returns or removes

queueVars == <<items, len, closed, maxlen, sem, locker>>
vars == <<items, len, closed, maxlen, sem, locker, pc, req, snap, kept, ret>>

Items == Values \cup {Marker}

\* The stages of a call.  "again" is a waiter that has been notified, "expired"
\* one whose time is up, and both must take the mutex; the stages of BigStages
\* are inside %lock-mtq ... %unlock-mtq.
BigStages == {"big", "scan", "put", "insert", "tell", "commit", "unlock"}
Waits == {"lockWait", "readerWait", "writerWait"}
Stages == {"idle", "enter", "again", "expired", "notify", "store", "return", "dead"}
              \cup Waits \cup BigStages

Request == [op : Ops, obj : Items, timed : BOOLEAN, close : BOOLEAN,
            strict : BOOLEAN]
Result == [how : {"none", "ok", "queue", "timeout-val", "error"}, objs : SUBSET Items]
NoRequest == [op |-> "queue-rear", obj |-> Marker, timed |-> FALSE, close |-> FALSE,
              strict |-> TRUE]
NoResult == [how |-> "none", objs |-> {}]

-----------------------------------------------------------------------------
(* Building blocks.                                                            *)

\* The objects in a list.
Objects(list) == {list[i] : i \in 1..Len(list)}

\* (Mutant of BigLocked: the test of the locker's state is inverted.)
BigLockedByDead == locker # NoThread /\ pc[locker] = "dead"

\* big-locked?: the locker is a thread, and it has not been terminated.
BigLocked == locker # NoThread /\ pc[locker] # "dead"

\* (Mutant of Notify: COND_SIGNAL instead of COND_BROADCAST.)
NotifyOne(p, cv) ==
    [t \in Threads |->
        IF p[t] = cv /\ t = (CHOOSE u \in Threads : p[u] = cv) THEN "again" ELSE p[t]]

\* notify-lockers, notify-readers, notify-writers: COND_BROADCAST, in stages p.
Notify(p, cv) == [t \in Threads |-> IF p[t] = cv THEN "again" ELSE p[t]]

\* %qlength: the cached length, calculated if need be.
QLength == IF len < 0 THEN Len(items) ELSE len

\* (Mutant of Overflows: off by one.)
OverflowsLate(cnt) == maxlen >= 0 /\ cnt + QLength > maxlen + 1

\* mtq-overflows: would cnt more items be too many?
Overflows(cnt) == maxlen >= 0 /\ cnt + QLength > maxlen

\* The cached length that mtq-overflows leaves behind.
LenChecked == IF maxlen >= 0 THEN QLength ELSE len

\* The effect on the cached length of adding cnt items.
LenAdd(n, cnt) == IF n >= 0 THEN n + cnt ELSE n

\* (Mutant of SetContent: the cached length is kept.)
SetContentOnly(list) ==
    /\ items' = list
    /\ UNCHANGED len

\* %queue-set-content!.
SetContent(list) ==
    /\ items' = list
    /\ len' = IF list = <<>> THEN 0 ELSE -1

\* dequeue-int: how many leading cells it takes off, the item taken included.
\* Close markers are skipped; an empty queue is left when there is no item.
Leading ==
    IF \E i \in 1..Len(items) : items[i] # Marker
    THEN CHOOSE i \in 1..Len(items) :
             /\ items[i] # Marker
             /\ \A j \in 1..(i - 1) : items[j] = Marker
    ELSE Len(items)

\* dequeue-int finds no item to return.
NoItem == \A i \in 1..Len(items) : items[i] = Marker

DequeueInt ==
    /\ items' = SubSeq(items, Leading + 1, Len(items))
    /\ len' = IF len >= 0 THEN len - Leading ELSE len

\* What dequeue-int stores into *result.
Taken == IF NoItem THEN {} ELSE {items[Leading]}

\* The call of t returns; the stages of the other threads are those of p.
Return(t, p, how, objs) ==
    /\ pc' = [p EXCEPT ![t] = "return"]
    /\ ret' = [ret EXCEPT ![t] = [how |-> how, objs |-> objs]]

Stage(t, p, s) ==
    /\ pc' = [p EXCEPT ![t] = s]
    /\ UNCHANGED ret

-----------------------------------------------------------------------------
(* Calls.                                                                      *)

PutOps == {"enqueue!", "queue-push!", "enqueue/wait!", "queue-push/wait!"}
TimedOps == {"enqueue/wait!", "queue-push/wait!", "dequeue/wait!"}

\* The objects a call of op may have as its argument.  Objects are told apart by
\* being inserted once at a time, but for the unique operations, which are also
\* called with an object that the queue holds or another of them is inserting.
ObjArgs(op) ==
    LET pending(ops) ==
            {req[t].obj : t \in {u \in Threads : pc[u] # "idle" /\ req[u].op \in ops}}
    IN  IF op \in PutOps
        THEN Values \ (pending(Ops) \cup Objects(items))
        ELSE IF op \in UniqueOps THEN Values \ pending(PutOps)
        ELSE {Marker}

\* A thread calls a procedure.
Call(t) ==
    /\ pc[t] = "idle"
    /\ \E op \in MayCall[t] :
       \E obj \in ObjArgs(op),
          timed \in IF op \in TimedOps THEN TimeoutArgs ELSE {FALSE},
          close \in IF op \in TimedOps THEN CloseArgs ELSE {op = "mtqueue-close!"} :
          /\ op = "dequeue/wait!" => sem < MaxReaders
          /\ req' = [req EXCEPT ![t] =
                 [op |-> op, obj |-> obj, timed |-> timed, close |-> close,
                  strict |-> op # "mtqueue-close!"]]
    /\ pc' = [pc EXCEPT ![t] = "enter"]
    /\ UNCHANGED <<queueVars, snap, kept, ret>>

\* The caller has its result.
Returned(t) ==
    /\ pc[t] = "return"
    /\ pc' = [pc EXCEPT ![t] = "idle"]
    /\ ret' = [ret EXCEPT ![t] = NoResult]
    /\ req' = [req EXCEPT ![t] = NoRequest]
    /\ snap' = [snap EXCEPT ![t] = <<>>]
    /\ kept' = [kept EXCEPT ![t] = <<>>]
    /\ UNCHANGED queueVars

-----------------------------------------------------------------------------
(* Light operations: with-mtq-light-lock.                                      *)

\* q-write-op for enqueue! and queue-push!.
QWriteOp(t) ==
    LET obj == req[t].obj
    IN  /\ req[t].op \in {"enqueue!", "queue-push!"}
        /\ \/ /\ closed
              /\ Return(t, pc, "error", {})
              /\ UNCHANGED <<items, len>>
           \/ /\ ~closed /\ Overflows(1)
              /\ len' = LenChecked
              /\ Return(t, pc, "error", {})
              /\ UNCHANGED items
           \/ /\ ~closed /\ ~Overflows(1)
              /\ items' = IF req[t].op = "enqueue!" THEN items \o <<obj>>
                          ELSE <<obj>> \o items
              /\ len' = LenAdd(LenChecked, 1)
              /\ Return(t, Notify(pc, "readerWait"), "queue", {})

\* dequeue!: the writers are notified after the mutex is released.
Dequeue(t) ==
    /\ req[t].op = "dequeue!"
    /\ DequeueInt
    /\ IF NoItem
       THEN Return(t, pc, "error", {})
       ELSE /\ pc' = [pc EXCEPT ![t] = "notify"]
            /\ ret' = [ret EXCEPT ![t] = [how |-> "ok", objs |-> Taken]]

\* dequeue-all!: a marker at the end is removed from the result.
DequeueAll(t) ==
    /\ req[t].op = "dequeue-all!"
    /\ items' = <<>>
    /\ len' = 0
    /\ pc' = [pc EXCEPT ![t] = "notify"]
    /\ ret' = [ret EXCEPT ![t] =
           [how |-> "ok",
            objs |-> IF items # <<>> /\ items[Len(items)] = Marker
                     THEN Objects(items) \ {Marker}
                     ELSE Objects(items)]]

\* mtqueue-room and queue-rear change nothing but the cached length.
Query(t) ==
    \/ /\ req[t].op = "mtqueue-room"
       /\ len' = LenChecked
       /\ Return(t, pc, "ok", {})
       /\ UNCHANGED items
    \/ /\ req[t].op = "queue-rear"
       /\ IF items = <<>> THEN Return(t, pc, "error", {})
          ELSE Return(t, pc, "ok", {items[Len(items)]})
       /\ UNCHANGED <<items, len>>

\* %lock-mtq, with which queue-op begins.
GrabBigLock(t) ==
    /\ req[t].op \in BigOps
    /\ locker' = t
    /\ Stage(t, pc, "big")
    /\ UNCHANGED <<items, len>>

\* wait-mtq-big-lock.
WaitBigLock(t, p) ==
    /\ BigLocked
    /\ Stage(t, p, "lockWait")
    /\ UNCHANGED <<items, len, locker>>

Light(t) ==
    /\ pc[t] \in {"enter", "again"}
    /\ req[t].op \in LightOps \cup BigOps
    /\ \/ WaitBigLock(t, pc)
       \/ /\ ~BigLocked
          /\ \/ (QWriteOp(t) \/ Dequeue(t) \/ DequeueAll(t) \/ Query(t)) /\ UNCHANGED locker
             \/ GrabBigLock(t)
    /\ UNCHANGED <<closed, maxlen, sem, req, snap, kept>>

\* The COND_BROADCAST of dequeue! and dequeue-all!, outside the mutex.
NotifyWriters(t) ==
    /\ pc[t] = "notify"
    /\ pc' = [Notify(pc, "writerWait") EXCEPT ![t] = "return"]
    /\ UNCHANGED <<queueVars, req, snap, kept, ret>>

-----------------------------------------------------------------------------
(* The operations that wait: do-with-timeout.                                  *)

\* enqueue/wait!, queue-push/wait! and mtqueue-close! wait while there is no
\* room; a queue of max-length 0 has room while a reader is waiting.
WriterMustWait == IF maxlen # 0 THEN Overflows(1) ELSE sem = 0

\* The init part: a closed queue rejects the call.  queue-push/wait! takes the
\* two ways of rejecting it the wrong way round (queue.scm 556-558).
RejectClosed(t) ==
    /\ IF (req[t].op = "queue-push/wait!") # req[t].strict
       THEN Return(t, pc, "error", {})
       ELSE Return(t, pc, "timeout-val", {})
    /\ UNCHANGED <<items, len, closed, locker>>

\* do-ok: insert the object, set the closed flag to c, and leave the loop with
\* the stages p.  enqueue/wait! returns #t, queue-push/wait! the queue.
Insert(t, p, c) ==
    LET obj == req[t].obj
        push == req[t].op = "queue-push/wait!"
    IN  /\ items' = IF push THEN <<obj>> \o items ELSE items \o <<obj>>
        /\ len' = LenAdd(IF maxlen # 0 THEN LenChecked ELSE len, 1)
        /\ closed' = c
        /\ locker' = NoThread
        /\ Return(t, Notify(p, "lockWait"), IF push THEN "queue" ELSE "ok", {})

\* The queue is closed if so requested, and the readers are notified.
WriterOk(t) == Insert(t, Notify(pc, "readerWait"), closed \/ req[t].close)

Writer(t) ==
    /\ req[t].op \in WriteOps
    /\ pc[t] \in {"enter", "again"}
    /\ \/ pc[t] = "enter" /\ closed /\ RejectClosed(t)
       \/ /\ pc[t] = "enter" => ~closed
          /\ \/ WaitBigLock(t, pc) /\ UNCHANGED closed
             \/ /\ ~BigLocked /\ WriterMustWait
                /\ len' = IF maxlen # 0 THEN LenChecked ELSE len
                /\ Stage(t, pc, "writerWait")
                /\ UNCHANGED <<items, closed, locker>>
             \/ ~BigLocked /\ ~WriterMustWait /\ WriterOk(t)
    /\ UNCHANGED <<maxlen, sem, req, snap, kept>>

\* One turn of the loop of dequeue/wait!, with n readers and the stages p.  Only
\* the end of the loop, when the queue is not empty, counts the reader down.
ReaderTurn(t, n, p) ==
    \/ WaitBigLock(t, p) /\ sem' = n
    \/ /\ ~BigLocked /\ items = <<>>
       /\ sem' = n
       /\ Stage(t, p, "readerWait")
       /\ UNCHANGED <<items, len, locker>>
    \/ /\ ~BigLocked /\ items # <<>>
       /\ sem' = n - 1
       /\ DequeueInt
       /\ locker' = NoThread
       /\ Return(t, Notify(Notify(p, "writerWait"), "lockWait"),
                 IF NoItem THEN "timeout-val" ELSE "ok", Taken)

\* (Mutant of ReaderStep: the init part does not notify the writers.)
ReaderStepSilent(t) == ReaderTurn(t, sem + (IF pc[t] = "enter" THEN 1 ELSE 0), pc)

\* The init part, at the first turn, counts the reader and notifies the writers,
\* which matters to those of a zero-length queue.
ReaderStep(t) ==
    IF pc[t] = "enter"
    THEN ReaderTurn(t, sem + 1, Notify(pc, "writerWait"))
    ELSE ReaderTurn(t, sem, pc)

\* dequeue/wait!.  The init part also closes the queue if so requested.
Reader(t) ==
    /\ req[t].op = "dequeue/wait!"
    /\ pc[t] \in {"enter", "again"}
    /\ closed' = (closed \/ (pc[t] = "enter" /\ req[t].close))
    /\ ReaderStep(t)
    /\ UNCHANGED <<maxlen, req, snap, kept>>

\* The time of a timed wait is up.  The thread has left the condition variable,
\* and a notification that comes before it has the mutex no longer reaches it.
Expire(t) ==
    /\ pc[t] \in {"readerWait", "writerWait"}
    /\ req[t].timed
    /\ pc' = [pc EXCEPT ![t] = "expired"]
    /\ UNCHANGED <<queueVars, req, snap, kept, ret>>

\* pthread_cond_timedwait returns ETIMEDOUT with the mutex taken again.  The
\* call gives up, and on its way out clears the locker slot whoever holds it.
\* (CW_INTR, the other way out, is for an EINTR that POSIX rules out.)
TimedOut(t) ==
    /\ pc[t] = "expired"
    /\ locker' = NoThread
    /\ Return(t, Notify(pc, "lockWait"), "timeout-val", {})
    /\ UNCHANGED <<items, len, closed, maxlen, sem, req, snap, kept>>

\* A condition variable may wake up a thread that nobody has notified.
SpuriousWakeup(t) ==
    /\ pc[t] \in Waits
    /\ pc' = [pc EXCEPT ![t] = "again"]
    /\ UNCHANGED <<queueVars, req, snap, kept, ret>>

-----------------------------------------------------------------------------
(* The operations under the big lock: queue-op, between %lock-mtq and          *)
(* %unlock-mtq.  The mutex is not held, other threads run between the steps.   *)

\* (Mutant of AlreadyThere: the newest item is not looked at.)
AlreadyThereButLast(t) == \E i \in 1..(Len(items) - 1) : items[i] = req[t].obj

\* The object of a unique operation is in the list: `member', by a comparison
\* procedure.
AlreadyThere(t) == req[t].obj \in Objects(items)

\* %qhead, and what follows from it alone: queue->list copies the list, the
\* unique operations look for their object in it, and remove-from-queue! starts
\* to go through it.
ReadHead(t) ==
    LET op == req[t].op
    IN  /\ pc[t] = "big"
        /\ snap' = [snap EXCEPT ![t] = items]
        /\ kept' = [kept EXCEPT ![t] = <<>>]
        /\ pc' = [pc EXCEPT ![t] =
               IF op = "remove-from-queue!" THEN "scan"
               ELSE IF op \in UniqueOps /\ ~AlreadyThere(t) THEN "put"
               ELSE "unlock"]
        /\ ret' = [ret EXCEPT ![t] =
               [how |-> IF op \in UniqueOps THEN "queue" ELSE "ok",
                objs |-> IF op = "queue->list" THEN Objects(items) ELSE {}]]
        /\ UNCHANGED <<queueVars, req>>

\* enqueue-unique! and queue-push-unique! ask whether there is room.  Neither
\* looks at the closed flag.
CheckRoom(t) ==
    /\ pc[t] = "put"
    /\ len' = LenChecked
    /\ \/ /\ Overflows(1)
          /\ pc' = [pc EXCEPT ![t] = "unlock"]
          /\ ret' = [ret EXCEPT ![t] = [how |-> "error", objs |-> {}]]
       \/ ~Overflows(1) /\ Stage(t, pc, "insert")
    /\ UNCHANGED <<items, closed, maxlen, sem, locker, req, snap, kept>>

\* ... and then, another call from Scheme, insert their object.
\* queue-push-unique! stores the list it has read before.
PutUnique(t) ==
    /\ pc[t] = "insert"
    /\ IF req[t].op = "enqueue-unique!"
       THEN items' = items \o <<req[t].obj>> /\ len' = LenAdd(len, 1)
       ELSE SetContent(<<req[t].obj>> \o snap[t])
    /\ Stage(t, pc, "tell")
    /\ UNCHANGED <<closed, maxlen, sem, locker, req, snap, kept>>

\* ... and then notify the readers.
TellReaders(t) ==
    /\ pc[t] = "tell"
    /\ pc' = [Notify(pc, "readerWait") EXCEPT ![t] = "unlock"]
    /\ UNCHANGED <<queueVars, req, snap, kept, ret>>

\* remove-from-queue!: one turn of the loop, with a call of the predicate.
ScanOne(t) ==
    /\ pc[t] = "scan"
    /\ snap[t] # <<>>
    /\ snap' = [snap EXCEPT ![t] = Tail(@)]
    /\ \/ kept' = [kept EXCEPT ![t] = @ \o <<Head(snap[t])>>] /\ UNCHANGED ret
       \/ ret' = [ret EXCEPT ![t].objs = @ \cup {Head(snap[t])}] /\ UNCHANGED kept
    /\ UNCHANGED <<queueVars, pc, req>>

\* remove-from-queue!: the list is at its end.  If there was a hit, the writers
\* are notified before the new content is set.
ScanEnd(t) ==
    /\ pc[t] = "scan"
    /\ snap[t] = <<>>
    /\ pc' = IF ret[t].objs = {} THEN [pc EXCEPT ![t] = "unlock"]
             ELSE [Notify(pc, "writerWait") EXCEPT ![t] = "commit"]
    /\ UNCHANGED <<queueVars, req, snap, kept, ret>>

\* ... and then the items that were no hits become the content.
CommitRemoval(t) ==
    /\ pc[t] = "commit"
    /\ SetContent(kept[t])
    /\ Stage(t, pc, "unlock")
    /\ UNCHANGED <<closed, maxlen, sem, locker, req, snap, kept>>

\* %unlock-mtq: release-mtq-big-lock.
ReleaseBigLock(t) ==
    /\ pc[t] = "unlock"
    /\ locker' = NoThread
    /\ pc' = [Notify(pc, "lockWait") EXCEPT ![t] = "return"]
    /\ UNCHANGED <<items, len, closed, maxlen, sem, req, snap, kept, ret>>

\* thread-terminate! on a thread that runs Scheme code under the big lock: the
\* cleanup part of unwind-protect does not run, the locker slot keeps the thread.
Terminated(t) ==
    /\ t \in Mortal
    /\ pc[t] \in BigStages
    /\ Stage(t, pc, "dead")
    /\ UNCHANGED <<queueVars, req, snap, kept>>

-----------------------------------------------------------------------------
(* Operations without a lock.                                                  *)

\* queue-length is %qlength, called without any lock: the length of the list,
\* if it is not cached, is calculated first and stored afterwards.
MeasureLength(t) ==
    /\ pc[t] = "enter"
    /\ req[t].op = "queue-length"
    /\ IF len < 0
       THEN snap' = [snap EXCEPT ![t] = items] /\ Stage(t, pc, "store")
       ELSE Return(t, pc, "ok", {}) /\ UNCHANGED snap
    /\ UNCHANGED <<queueVars, req, kept>>

StoreLength(t) ==
    /\ pc[t] = "store"
    /\ len' = Len(snap[t])
    /\ Return(t, pc, "ok", {})
    /\ UNCHANGED <<items, closed, maxlen, sem, locker, req, snap, kept>>

\* mtq-maxlen-set, the setter of the max-length slot.  Nobody is notified.
SetMaxLength(t) ==
    /\ pc[t] = "enter"
    /\ req[t].op = "set-max-length"
    /\ maxlen' \in NewLengths
    /\ Return(t, pc, "ok", {})
    /\ UNCHANGED <<items, len, closed, sem, locker, req, snap, kept>>

-----------------------------------------------------------------------------
Init ==
    /\ items = <<>>
    /\ len = 0
    /\ closed = FALSE
    /\ maxlen = MaxLength
    /\ sem = 0
    /\ locker = NoThread
    /\ pc = [t \in Threads |-> "idle"]
    /\ req = [t \in Threads |-> NoRequest]
    /\ snap = [t \in Threads |-> <<>>]
    /\ kept = [t \in Threads |-> <<>>]
    /\ ret = [t \in Threads |-> NoResult]

Next ==
    \E t \in Threads :
        \/ Call(t) \/ Returned(t)
        \/ Light(t) \/ NotifyWriters(t)
        \/ Writer(t) \/ Reader(t) \/ Expire(t) \/ TimedOut(t) \/ SpuriousWakeup(t)
        \/ ReadHead(t) \/ CheckRoom(t) \/ PutUnique(t) \/ TellReaders(t)
        \/ ScanOne(t) \/ ScanEnd(t) \/ CommitRemoval(t) \/ ReleaseBigLock(t)
        \/ Terminated(t)
        \/ MeasureLength(t) \/ StoreLength(t) \/ SetMaxLength(t)

Spec == Init /\ [][Next]_vars

-----------------------------------------------------------------------------
(* Properties.                                                                 *)

\* The type invariant of an <mtqueue> and of the calls in progress on it.
TypeOK ==
    /\ items \in Seq(Items)
    /\ len \in Nat \cup {-1}
    /\ closed \in BOOLEAN
    /\ maxlen \in Int
    /\ sem \in Int
    /\ locker \in Threads \cup {NoThread}
    /\ pc \in [Threads -> Stages]
    /\ req \in [Threads -> Request]
    /\ snap \in [Threads -> Seq(Items)]
    /\ kept \in [Threads -> Seq(Items)]
    /\ ret \in [Threads -> Result]

\* The cached length is the length of the list or unknown, whatever the calls
\* that insert, take, remove and set the content do to it, and to the list.
LenExact == len = -1 \/ len = Len(items)

\* No insertion takes a bounded queue over its max-length: the overflow checks
\* rest on the cached length, and those of the unique operations come a call
\* before the insertion, which in queue-push-unique! stores a list read earlier
\* still.  (Not so if max-length is changed between that check and insertion.)
InsertWithinBound ==
    [][Len(items') > Len(items) /\ maxlen > 0 => Len(items') <= maxlen]_vars

\* The thread that works on the queue between %lock-mtq and %unlock-mtq is the
\* locker all the time, so no two threads are there at once.
BigLockExclusive ==
    \A t \in Threads : pc[t] \in BigStages => locker = t

\* An object leaves the queue in the hands of a thread that takes it, that is,
\* as a result of a dequeue operation or a hit of remove-from-queue!; no update
\* that a second thread made to the list is overwritten.
NothingLost ==
    [][\A v \in Values :
           v \in Objects(items) /\ v \notin Objects(items')
               => \E t \in Threads : v \in ret'[t].objs]_vars

\* enqueue-unique! and queue-push-unique! never leave an object in the queue
\* twice, two threads that insert the same object at the same time included.
NoDuplicates ==
    \A i, j \in 1..Len(items) : items[i] = items[j] /\ items[i] # Marker => i = j

\* No lost wake-up for readers: nobody sleeps on readerWait while the queue has
\* something, unless a thread is about to notify the readers.
ReadersAwake ==
    items # <<>> => \A t \in Threads :
        pc[t] = "readerWait" => \E u \in Threads : pc[u] = "tell"

\* No lost wake-up for writers: nobody sleeps on writerWait while there is room
\* (or, at max-length 0, a reader), unless a thread is about to notify the
\* writers; remove-from-queue! notifies them before there is any room.
WritersAwake ==
    ~WriterMustWait => \A t \in Threads :
        pc[t] = "writerWait" => \E u \in Threads : pc[u] = "notify"

\* Who sleeps on lockWait does so while a live thread is the locker, which will
\* notify the sleepers when it is done.
LockWaitersHaveLocker ==
    \A t \in Threads : pc[t] = "lockWait" => BigLocked

\* No call sleeps on one of the three condition variables of a queue for nothing:
\* whatever it waits for, somebody who has brought it about has notified it, or
\* is going to, although notifications are given with and without the mutex, by
\* readers, by writers, and by those who work under the big lock.
NobodySleepsForNothing == ReadersAwake /\ WritersAwake /\ LockWaitersHaveLocker

\* "If inserted, this is always the last item in the queue."
MarkerLast ==
    \A i \in 1..Len(items) : items[i] = Marker => i = Len(items)
=============================================================================
