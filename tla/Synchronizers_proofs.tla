------------------------ MODULE Synchronizers_proofs ------------------------
(* Proofs about Synchronizers and Mutex, for any finite number of threads, any *)
(* number of calls, timeouts, terminations and wake-ups for no reason, and any *)
(* initial count and threshold.                                                *)
EXTENDS Synchronizers, FiniteSetTheorems, TLAPS

-----------------------------------------------------------------------------
(* The inductive invariant.                                                    *)

Labels == {"idle", "mutex-lock!", "body", "mutex-unlock!", "asleep", "action", "let-go"}
WaitingOps == {"acquire", "await", "barrier-await"}

\* What threads of an object of kind k may be doing: its operations, and what a
\* barrier-await goes on with after the action and after a timeout.
OpsOf(k) ==
    {"none"} \cup Operations(k)
    \cup (IF k \in {"barrier", "barrier with action"} THEN {"let-go", "break"} ELSE {})

AllOps == {"none", "lock", "update", "acquire", "release", "release2", "dec", "dec2",
           "clear", "await", "barrier-await", "reset", "let-go", "break"}

CallRecord == [op : AllOps, at : Labels, timed : BOOLEAN, gen : Int, place : Int]

TypeInv ==
    /\ kind \in Kinds
    /\ locked \in BOOLEAN /\ owner \in Threads \cup {NoThread}
    /\ lockWait \subseteq Threads /\ cvWait \subseteq Threads /\ dead \subseteq Threads
    /\ count \in Int /\ generation \in Nat /\ broken \in BOOLEAN
    /\ acquired \in Nat /\ released \in Nat /\ resets \in Nat
    /\ arrived \in Seq(Nat) /\ Len(arrived) = generation + 1
    /\ call \in [Threads -> CallRecord]

\* The threads do operations of the object.
KindInv ==
    \A t \in Threads :
        /\ call[t].op \in OpsOf(kind)
        /\ call[t].at \in {"action", "let-go"} => IsBarrier

\* The owner is there when the mutex is locked; who is in the body of an
\* operation is the owner, or dead; who sleeps at the mutex is in mutex-lock!,
\* and who sleeps on the condition variable is in an operation that waits.
MutexInv ==
    /\ locked <=> owner # NoThread
    /\ \A t \in Threads \ dead :
          call[t].at \in {"body", "let-go", "mutex-unlock!"} => owner = t
    /\ \A t \in lockWait : t \notin dead /\ call[t].at = "mutex-lock!"
    /\ \A t \in cvWait : t \notin dead /\ call[t].at = "asleep"

\* The threads that are about to look at the semaphore.
Coming ==
    {t \in Threads \ dead : /\ call[t].op = "acquire" /\ t \notin cvWait
                            /\ call[t].at \in {"asleep", "mutex-lock!", "body"}}

\* While somebody sleeps there is, for every token, somebody who is coming.
SemaphoreInv ==
    kind = "semaphore" =>
        /\ count = InitialTokens + released - acquired
        /\ count < 0 => acquired = 0
        /\ cvWait # {} /\ dead = {} => Cardinality(Coming) >= count

\* The last one, from its decision to let the others go until it does.
LettingGo(t) ==
    \/ call[t].at \in {"action", "let-go"}
    \/ call[t].op = "let-go" /\ call[t].at \in {"mutex-lock!", "body"}

\* Who has arrived knows how many were there: places of a generation are
\* different, and the next one is smaller than all.
PlacesInv ==
    /\ \A t \in Threads : call[t].gen \in -1..generation
    /\ \A t \in Threads : call[t].gen = generation => call[t].place >= Threshold - count
    /\ \A t, u \in Threads :
          t # u /\ call[t].gen = generation /\ call[u].gen = generation
             => call[t].place # call[u].place

\* Without a reset the thread that lets go is the last one of the present
\* generation, and every generation that is over had its number of threads.
GatherInv ==
    resets = 0 =>
        /\ \A t \in Threads : LettingGo(t) => call[t].gen = generation /\ call[t].place = 0
        /\ Arrived(generation) = count
        /\ \A g \in 0..(generation - 1) : Arrived(g) >= Threshold

BarrierInv == IsBarrier => PlacesInv /\ GatherInv

\* After the action, before everybody is woken.
AboutToWake(t) == call[t].op = "let-go" /\ call[t].at \in {"mutex-lock!", "body"}

\* Sleepers wait for the present generation, and not at a broken barrier unless
\* somebody is about to wake them.
BarrierSleepInv ==
    IsBarrier =>
        /\ \A t \in cvWait : call[t].gen = generation
        /\ broken /\ dead = {} /\ cvWait # {} => \E u \in Threads : AboutToWake(u)

\* A thread that is asleep, or has just been woken up, is in an operation that waits.
AsleepInv == \A t \in Threads : call[t].at = "asleep" => call[t].op \in WaitingOps

Inv ==
    /\ TypeInv /\ KindInv /\ MutexInv /\ AsleepInv
    /\ LockSleepersWake /\ SemaphoreInv /\ LatchWakes
    /\ BarrierInv /\ BarrierSleepInv

-----------------------------------------------------------------------------
(* Facts about the building blocks.                                            *)

\* The operations of each kind of object.
LEMMA OpsByKind ==
    /\ \A k \in Kinds : OpsOf(k) \subseteq AllOps /\ Operations(k) \subseteq OpsOf(k)
    /\ OpsOf("mutex") = {"none", "lock"}
    /\ OpsOf("atom") = {"none", "update"}
    /\ OpsOf("semaphore") = {"none", "acquire", "release", "release2"}
    /\ OpsOf("latch") = {"none", "dec", "dec2", "clear", "await"}
    /\ OpsOf("barrier") = {"none", "barrier-await", "reset", "let-go", "break"}
    /\ OpsOf("barrier with action") = {"none", "barrier-await", "reset", "let-go", "break"}
  BY DEF OpsOf, Operations, AllOps, Kinds

\* What a thread is doing tells the kind of the object.
LEMMA OpTellsKind ==
    ASSUME TypeInv, KindInv, NEW t \in Threads
    PROVE  /\ call[t].op = "lock" => kind = "mutex"
           /\ call[t].op = "update" => kind = "atom"
           /\ call[t].op \in {"acquire", "release", "release2"} => kind = "semaphore"
           /\ call[t].op \in {"dec", "dec2", "clear", "await"} => kind = "latch"
           /\ call[t].op \in {"barrier-await", "reset", "let-go", "break"} => IsBarrier
           /\ "none" \in OpsOf(kind)
           /\ IsBarrier => "let-go" \in OpsOf(kind) /\ "break" \in OpsOf(kind)
<1>1. call[t].op \in OpsOf(kind) /\ kind \in Kinds
  BY DEF KindInv, TypeInv
<1>2. CASE kind = "mutex"
  BY <1>1, <1>2, OpsByKind DEF IsBarrier
<1>3. CASE kind = "atom"
  BY <1>1, <1>3, OpsByKind DEF IsBarrier
<1>4. CASE kind = "semaphore"
  BY <1>1, <1>4, OpsByKind DEF IsBarrier
<1>5. CASE kind = "latch"
  BY <1>1, <1>5, OpsByKind DEF IsBarrier
<1>6. CASE kind = "barrier"
  BY <1>1, <1>6, OpsByKind DEF IsBarrier
<1>7. CASE kind = "barrier with action"
  BY <1>1, <1>7, OpsByKind DEF IsBarrier
<1> QED
  BY <1>1, <1>2, <1>3, <1>4, <1>5, <1>6, <1>7 DEF Kinds

\* A thread goes on to another step of its operation.
LEMMA GotoEffect ==
    ASSUME TypeInv, NEW t \in Threads, NEW label \in Labels, Goto(t, label)
    PROVE  /\ call' \in [Threads -> CallRecord]
           /\ call'[t].at = label
           /\ call'[t].op = call[t].op /\ call'[t].timed = call[t].timed
           /\ call'[t].gen = call[t].gen /\ call'[t].place = call[t].place
           /\ \A u \in Threads \ {t} : call'[u] = call[u]
  BY DEF TypeInv, Goto, CallRecord

\* An operation ends.
LEMMA ReturnEffect ==
    ASSUME TypeInv, NEW t \in Threads, Return(t)
    PROVE  /\ call' \in [Threads -> CallRecord]
           /\ call'[t].at = "idle" /\ call'[t].op = "none"
           /\ call'[t].gen = -1 /\ call'[t].place = 0
           /\ \A u \in Threads \ {t} : call'[u] = call[u]
  BY DEF TypeInv, Return, NoCall, CallRecord, Labels, AllOps

\* A thread that gets another operation to do: after a timeout, after the action.
LEMMA DivertEffect ==
    ASSUME TypeInv, NEW t \in Threads, NEW op \in AllOps, NEW label \in Labels,
           call' = [call EXCEPT ![t].at = label, ![t].op = op]
    PROVE  /\ call' \in [Threads -> CallRecord]
           /\ call'[t].at = label /\ call'[t].op = op
           /\ call'[t].gen = call[t].gen /\ call'[t].place = call[t].place
           /\ \A u \in Threads \ {t} : call'[u] = call[u]
  BY DEF TypeInv, CallRecord

\* pthread_cond_signal wakes one of the sleepers if there are any.
LEMMA CondSignalEffect ==
    ASSUME NEW waiting, NEW rest \in CondSignal(waiting)
    PROVE  /\ rest \subseteq waiting
           /\ waiting # {} => \E t \in waiting : rest = waiting \ {t}
  BY DEF CondSignal

\* mutex-unlock!, with and without a condition variable to sleep on.
LEMMA UnlockEffect ==
    ASSUME Unlock
    PROVE  /\ locked' = FALSE /\ owner' = NoThread /\ lockWait' \subseteq lockWait
           /\ lockWait # {} => \E u \in lockWait : lockWait' = lockWait \ {u}
  BY CondSignalEffect DEF Unlock

LEMMA WaitEffect ==
    ASSUME TypeInv, NEW t \in Threads, Wait(t)
    PROVE  /\ locked' = FALSE /\ owner' = NoThread /\ lockWait' \subseteq lockWait
           /\ lockWait # {} => \E u \in lockWait : lockWait' = lockWait \ {u}
           /\ cvWait' = cvWait \cup {t}
           /\ call' \in [Threads -> CallRecord]
           /\ call'[t].at = "asleep" /\ call'[t].op = call[t].op
           /\ call'[t].gen = call[t].gen /\ call'[t].place = call[t].place
           /\ \A u \in Threads \ {t} : call'[u] = call[u]
<1>1. "asleep" \in Labels
  BY DEF Labels
<1> QED
  BY <1>1, UnlockEffect, GotoEffect DEF Wait, UnlockWait

\* An operation begins.
LEMMA CallEffect ==
    ASSUME TypeInv, NEW t \in Threads, NEW op \in Operations(kind), Call(t, op)
    PROVE  /\ call' \in [Threads -> CallRecord]
           /\ call'[t].at = "mutex-lock!" /\ call'[t].op = op
           /\ call'[t].gen = -1 /\ call'[t].place = 0
           /\ \A u \in Threads \ {t} : call'[u] = call[u]
<1>1. op \in AllOps
  BY OpsByKind DEF TypeInv
<1> DEFINE b == t \in Impatient /\ op \in WithTimeout
           r == [NoCall EXCEPT !.op = op, !.at = "mutex-lock!", !.timed = b]
<1>2. b \in BOOLEAN
  OBVIOUS
<1>3. call' = [call EXCEPT ![t] = r]
  BY DEF Call
<1>4. NoCall \in CallRecord /\ NoCall.gen = -1 /\ NoCall.place = 0
  BY DEF NoCall, CallRecord, Labels, AllOps
<1> HIDE DEF b
<1>5. /\ r \in CallRecord /\ r.at = "mutex-lock!" /\ r.op = op
      /\ r.gen = -1 /\ r.place = 0
  BY <1>1, <1>2, <1>4 DEF CallRecord, Labels
<1> HIDE DEF r
<1> QED
  BY <1>3, <1>5 DEF TypeInv

\* A thread is counted at the barrier.
LEMMA ArriveEffect ==
    ASSUME TypeInv, NEW t \in Threads, Arrive(t)
    PROVE  /\ call' \in [Threads -> CallRecord]
           /\ call'[t].at = call[t].at /\ call'[t].op = call[t].op
           /\ call'[t].gen = generation /\ call'[t].place = Threshold - (count + 1)
           /\ \A u \in Threads \ {t} : call'[u] = call[u]
<1> DEFINE r == [call[t] EXCEPT !.gen = generation, !.place = Threshold - (count + 1)]
<1>1. /\ call[t] \in CallRecord /\ call \in [Threads -> CallRecord]
      /\ generation \in Int /\ Threshold - (count + 1) \in Int
  BY SynchronizersAssumption DEF TypeInv
<1>2. /\ r \in CallRecord /\ r.at = call[t].at /\ r.op = call[t].op
      /\ r.gen = generation /\ r.place = Threshold - (count + 1)
  BY <1>1 DEF CallRecord
<1>3. call' = [call EXCEPT ![t] = r]
  BY <1>1 DEF Arrive
<1> HIDE DEF r
<1> QED
  BY <1>1, <1>2, <1>3

-----------------------------------------------------------------------------
(* Every step keeps the parts of the invariant.                                *)

\* What thread t does in a step.
StepOf(t) ==
    \/ \E op \in Operations(kind) : Call(t, op)
    \/ Step(t)
    \/ TimeoutLock(t) \/ TimeoutWait(t)
    \/ Terminate(t) \/ WakeUp(t)

LEMMA TypeStep ==
    ASSUME Inv, NEW t \in Threads, StepOf(t)
    PROVE  TypeInv'
<1> USE DEF Inv
<1>1. CASE \E op \in Operations(kind) : Call(t, op)
  <2>1. PICK op \in Operations(kind) : Call(t, op)
    BY <1>1
  <2> QED
    BY <2>1, CallEffect DEF Call, TypeInv, mutexVars, objectVars
<1>2. CASE Take(t)
  BY <1>2, GotoEffect, ReturnEffect DEF Take, LockTake, At, Body, MayRun, TypeInv, Labels, AllOps, mutexVars, objectVars
<1>3. CASE TakeAbandoned(t)
  BY <1>3, GotoEffect, ReturnEffect DEF TakeAbandoned, LockTakeAbandoned, At, Body, MayRun, TypeInv, Labels, AllOps, mutexVars, objectVars
<1>4. CASE Sleep(t)
  BY <1>4 DEF Sleep, LockSleep, At, Body, MayRun, TypeInv, Labels, AllOps, mutexVars, objectVars
<1>5. CASE MutexUnlock(t)
  BY <1>5, CondSignalEffect DEF MutexUnlock, UnlockOnly, Unlock, At, Body, MayRun, TypeInv, Labels, AllOps, mutexVars, objectVars
<1>6. CASE Finish(t)
  BY <1>6, ReturnEffect, CondSignalEffect DEF Finish, UnlockOnly, Unlock, At, Body, MayRun, TypeInv, Labels, AllOps, mutexVars, objectVars
<1>7. CASE Woken(t)
  BY <1>7, GotoEffect DEF Woken, At, Body, MayRun, TypeInv, Labels, AllOps, mutexVars, objectVars
<1>8. CASE Apply(t)
  BY <1>8, GotoEffect DEF Apply, At, Body, MayRun, TypeInv, Labels, AllOps, mutexVars, objectVars
<1>9. CASE Acquire(t)
  <2>1. CASE count > 0
    BY <1>9, <2>1, GotoEffect DEF Acquire, TypeInv, Labels, mutexVars
  <2>2. CASE ~(count > 0)
    BY <1>9, <2>2, WaitEffect DEF Acquire, TypeInv
  <2> QED
    BY <2>1, <2>2
<1>10. CASE Release(t, 1)
  BY <1>10, GotoEffect, CondSignalEffect DEF Release, Notify, CvSignal, CvBroadcast, At, Body, MayRun, TypeInv, Labels, AllOps, mutexVars, objectVars
<1>11. CASE Release(t, 2)
  BY <1>11, GotoEffect, CondSignalEffect DEF Release, Notify, CvSignal, CvBroadcast, At, Body, MayRun, TypeInv, Labels, AllOps, mutexVars, objectVars
<1>12. CASE LatchDec(t, 1)
  BY <1>12, GotoEffect DEF LatchDec, CvBroadcast, At, Body, MayRun, TypeInv, Labels, AllOps, mutexVars, objectVars
<1>13. CASE LatchDec(t, 2)
  BY <1>13, GotoEffect DEF LatchDec, CvBroadcast, At, Body, MayRun, TypeInv, Labels, AllOps, mutexVars, objectVars
<1>14. CASE LatchClear(t)
  BY <1>14, GotoEffect DEF LatchClear, CvBroadcast, At, Body, MayRun, TypeInv, Labels, AllOps, mutexVars, objectVars
<1>15. CASE LatchAwait(t)
  <2>1. CASE count <= 0
    BY <1>15, <2>1, GotoEffect DEF LatchAwait, TypeInv, Labels, mutexVars, objectVars
  <2>2. CASE ~(count <= 0)
    BY <1>15, <2>2, WaitEffect DEF LatchAwait, TypeInv, objectVars
  <2> QED
    BY <2>1, <2>2
<1>16. CASE Reset(t)
  <2>1. arrived' \in Seq(Nat) /\ Len(arrived') = generation' + 1
    BY <1>16 DEF Reset, TypeInv
  <2>2. call' \in [Threads -> CallRecord]
    BY <1>16, GotoEffect DEF Reset, Labels
  <2>3. broken' \in BOOLEAN
    BY <1>16, Zenon DEF Reset
  <2>4. resets' \in Nat /\ count' \in Int /\ generation' \in Nat
    BY <1>16 DEF Reset, TypeInv
  <2> QED
    BY <1>16, <2>1, <2>2, <2>3, <2>4 DEF Reset, CvBroadcast, TypeInv
<1>17. CASE Arrive(t)
  <2>1. arrived' \in Seq(Nat) /\ Len(arrived') = generation' + 1
    BY <1>17 DEF Arrive, TypeInv
  <2>2. call' \in [Threads -> CallRecord]
    BY <1>17, ArriveEffect
  <2> QED
    BY <1>17, <2>1, <2>2 DEF Arrive, TypeInv, mutexVars
<1>18. CASE BarrierAwait(t)
  <2>1. CASE Wait(t)
    BY <1>18, <2>1, WaitEffect DEF BarrierAwait, TypeInv, objectVars
  <2>2. CASE ~Wait(t)
    BY <1>18, <2>2, GotoEffect, UnlockEffect
    DEF BarrierAwait, TypeInv, Labels, UnlockOnly, mutexVars, objectVars
  <2> QED
    BY <2>1, <2>2
<1>19. CASE RunAction(t)
  BY <1>19, DivertEffect DEF RunAction, At, Body, MayRun, TypeInv, Labels, AllOps, mutexVars, objectVars
<1>20. CASE LetGo(t)
  BY <1>20, GotoEffect DEF LetGo, CvBroadcast, At, Body, MayRun, TypeInv, Labels, AllOps, mutexVars, objectVars
<1>21. CASE Break(t)
  BY <1>21, GotoEffect DEF Break, CvBroadcast, At, Body, MayRun, TypeInv, Labels, AllOps, mutexVars, objectVars
<1>22. CASE TimeoutLock(t)
  BY <1>22, ReturnEffect DEF TimeoutLock, LockTimeout, At, Body, MayRun, TypeInv, Labels, AllOps, mutexVars, objectVars
<1>23. CASE TimeoutWait(t)
  BY <1>23, ReturnEffect, DivertEffect DEF TimeoutWait, CvTimeout, At, Body, MayRun, TypeInv, Labels, AllOps, mutexVars, objectVars
<1>24. CASE Terminate(t)
  BY <1>24 DEF Terminate, Die, At, Body, MayRun, TypeInv, Labels, AllOps, mutexVars, objectVars
<1>25. CASE WakeUp(t)
  BY <1>25 DEF WakeUp, Spurious, At, Body, MayRun, TypeInv, Labels, AllOps, mutexVars, objectVars
<1> QED
  BY <1>1, <1>2, <1>3, <1>4, <1>5, <1>6, <1>7, <1>8, <1>9, <1>10, <1>11, <1>12, <1>13,
     <1>14, <1>15, <1>16, <1>17, <1>18, <1>19, <1>20, <1>21, <1>22, <1>23, <1>24, <1>25
  DEF StepOf, Step

\* A thread changes its own call only, and does not get into one of another kind.
LEMMA StepLocal ==
    ASSUME Inv, NEW t \in Threads, StepOf(t)
    PROVE  /\ kind' = kind
           /\ \A u \in Threads \ {t} : call'[u] = call[u]
           /\ call'[t].op \in OpsOf(kind)
           /\ call'[t].at \in {"action", "let-go"} => IsBarrier
<1>a. /\ TypeInv /\ KindInv /\ call[t].op \in OpsOf(kind)
      /\ call[t].at \in {"action", "let-go"} => IsBarrier
  BY DEF Inv, KindInv
<1> USE <1>a, OpTellsKind
<1>1. CASE \E op \in Operations(kind) : Call(t, op)
  <2>1. PICK op \in Operations(kind) : Call(t, op)
    BY <1>1
  <2>2. op \in OpsOf(kind)
    BY OpsByKind DEF TypeInv
  <2> QED
    BY <2>1, <2>2, CallEffect, ZenonT(60) DEF Call, objectVars
<1>2. CASE Take(t)
  BY <1>2, GotoEffect, ReturnEffect DEF Take, Labels, objectVars
<1>3. CASE TakeAbandoned(t)
  BY <1>3, GotoEffect, ReturnEffect DEF TakeAbandoned, Labels, objectVars
<1>4. CASE Sleep(t)
  BY <1>4 DEF Sleep, Labels, objectVars
<1>5. CASE MutexUnlock(t)
  BY <1>5 DEF MutexUnlock, Labels, objectVars
<1>6. CASE Finish(t)
  BY <1>6, ReturnEffect DEF Finish, Labels, objectVars
<1>7. CASE Woken(t)
  BY <1>7, GotoEffect DEF Woken, Labels, objectVars
<1>8. CASE Apply(t)
  BY <1>8, GotoEffect DEF Apply, Labels, objectVars
<1>9. CASE Acquire(t)
  BY <1>9, GotoEffect, WaitEffect DEF Acquire, Labels, objectVars
<1>10. CASE Release(t, 1)
  BY <1>10, GotoEffect DEF Release, Labels, objectVars
<1>11. CASE Release(t, 2)
  BY <1>11, GotoEffect DEF Release, Labels, objectVars
<1>12. CASE LatchDec(t, 1)
  BY <1>12, GotoEffect DEF LatchDec, Labels, objectVars
<1>13. CASE LatchDec(t, 2)
  BY <1>13, GotoEffect DEF LatchDec, Labels, objectVars
<1>14. CASE LatchClear(t)
  BY <1>14, GotoEffect DEF LatchClear, Labels, objectVars
<1>15. CASE LatchAwait(t)
  BY <1>15, GotoEffect, WaitEffect DEF LatchAwait, Labels, objectVars
<1>16. CASE Reset(t)
  BY <1>16, GotoEffect DEF Reset, Labels, objectVars
<1>17. CASE Arrive(t)
  BY <1>17, ArriveEffect DEF Arrive, Body, At, Labels, objectVars
<1>18. CASE BarrierAwait(t)
  <2>1. call[t].op = "barrier-await" /\ kind' = kind
    BY <1>18 DEF BarrierAwait, Body, objectVars
  <2>2. CASE Wait(t)
    BY <2>1, <2>2, WaitEffect
  <2>3. CASE ~Wait(t)
    BY <1>18, <2>1, <2>3, GotoEffect DEF BarrierAwait, Labels
  <2> QED
    BY <2>2, <2>3
<1>19. CASE RunAction(t)
  <2>1. "let-go" \in AllOps /\ "mutex-lock!" \in Labels
    BY DEF AllOps, Labels
  <2> QED
    BY <1>19, <2>1, DivertEffect, ZenonT(60) DEF RunAction, At
<1>20. CASE LetGo(t)
  BY <1>20, GotoEffect DEF LetGo, Labels, objectVars
<1>21. CASE Break(t)
  BY <1>21, GotoEffect DEF Break, Labels, objectVars
<1>22. CASE TimeoutLock(t)
  BY <1>22, ReturnEffect DEF TimeoutLock, Labels, objectVars
<1>23. CASE TimeoutWait(t)
  <2>1. "break" \in AllOps /\ "mutex-lock!" \in Labels
    BY DEF AllOps, Labels
  <2> QED
    BY <1>23, <2>1, DivertEffect, ReturnEffect DEF TimeoutWait, objectVars
<1>24. CASE Terminate(t)
  BY <1>24 DEF Terminate, Labels, objectVars
<1>25. CASE WakeUp(t)
  BY <1>25 DEF WakeUp, Labels, objectVars
<1> QED
  BY <1>1, <1>2, <1>3, <1>4, <1>5, <1>6, <1>7, <1>8, <1>9, <1>10, <1>11, <1>12, <1>13,
     <1>14, <1>15, <1>16, <1>17, <1>18, <1>19, <1>20, <1>21, <1>22, <1>23, <1>24, <1>25
  DEF StepOf, Step

LEMMA KindStep ==
    ASSUME Inv, NEW t \in Threads, StepOf(t)
    PROVE  KindInv'
  BY StepLocal DEF Inv, KindInv, IsBarrier

\* An operation that goes to sleep.
LEMMA WaitMutexInv ==
    ASSUME Inv, NEW t \in Threads, At(t, "body"), Wait(t), dead' = dead
    PROVE  MutexInv'
<1>1. /\ owner' = NoThread /\ lockWait' \subseteq lockWait /\ cvWait' = cvWait \cup {t}
      /\ call'[t].at = "asleep"
      /\ \A u \in Threads \ {t} : call'[u] = call[u]
  BY WaitEffect DEF Inv
<1>2. locked' = FALSE
  BY WaitEffect DEF Inv
<1>3. /\ MutexInv /\ owner = t /\ t \notin dead /\ t \notin lockWait
      /\ lockWait \subseteq Threads /\ cvWait \subseteq Threads
  BY DEF Inv, MutexInv, TypeInv, At, MayRun
<1>4. (locked <=> owner # NoThread)'
  BY <1>1, <1>2
<1>5. ASSUME NEW u \in Threads \ dead PROVE
        call'[u].at \notin {"body", "let-go", "mutex-unlock!"}
  BY <1>1, <1>3 DEF MutexInv
<1>6. \A u \in lockWait' : u \notin dead' /\ call'[u].at = "mutex-lock!"
  BY <1>1, <1>3 DEF MutexInv
<1>7. \A u \in cvWait' : u \notin dead' /\ call'[u].at = "asleep"
  BY <1>1, <1>3 DEF MutexInv
<1> QED
  BY <1>4, <1>5, <1>6, <1>7 DEF MutexInv

LEMMA MutexStep ==
    ASSUME Inv, NEW t \in Threads, StepOf(t)
    PROVE  MutexInv'
<1>a. /\ TypeInv /\ MutexInv /\ NoThread \notin Threads /\ dead \subseteq Threads
      /\ owner \in Threads \cup {NoThread} /\ cvWait \subseteq Threads
      /\ lockWait \subseteq Threads /\ locked \in BOOLEAN
      /\ {"asleep", "mutex-lock!", "body", "let-go", "mutex-unlock!", "action"} \subseteq Labels
  BY SynchronizersAssumption DEF Inv, TypeInv, Labels
<1> USE <1>a DEF MutexInv
<1>1. CASE \E op \in Operations(kind) : Call(t, op)
  <2>1. PICK op \in Operations(kind) : Call(t, op)
    BY <1>1
  <2> QED
    BY <2>1, CallEffect, ZenonT(60) DEF Call, At, MayRun, mutexVars
<1>2. CASE Take(t)
  <2>1. CASE call[t].op = "lock"
    BY <1>2, <2>1, ReturnEffect DEF Take, LockTake, At, MayRun
  <2>2. CASE ~(call[t].op = "lock")
    BY <1>2, <2>2, GotoEffect DEF Take, LockTake, At, MayRun
  <2> QED
    BY <2>1, <2>2
<1>3. CASE TakeAbandoned(t)
  <2>1. CASE kind # "atom"
    BY <1>3, <2>1, ReturnEffect DEF TakeAbandoned, LockTakeAbandoned, At, MayRun
  <2>2. CASE ~(kind # "atom")
    BY <1>3, <2>2, GotoEffect DEF TakeAbandoned, LockTakeAbandoned, At, MayRun
  <2> QED
    BY <2>1, <2>2
<1>4. CASE Sleep(t)
  BY <1>4 DEF Sleep, LockSleep, At, MayRun
<1>5. CASE MutexUnlock(t)
  BY <1>5, UnlockEffect DEF MutexUnlock, UnlockOnly, At
<1>6. CASE Finish(t)
  BY <1>6, ReturnEffect, UnlockEffect DEF Finish, UnlockOnly, At, MayRun
<1>7. CASE Woken(t)
  BY <1>7, GotoEffect DEF Woken, At, MayRun, mutexVars
<1>8. CASE Apply(t)
  BY <1>8, GotoEffect DEF Apply, Body, At, MayRun, mutexVars
<1>9. CASE Acquire(t)
  <2>1. CASE Wait(t)
    BY <1>9, <2>1, WaitMutexInv DEF Acquire, Body
  <2>2. CASE ~Wait(t)
    BY <1>9, <2>2, GotoEffect DEF Acquire, Body, At, MayRun, mutexVars
  <2> QED
    BY <2>1, <2>2
<1>10. CASE Release(t, 1)
  BY <1>10, GotoEffect, CondSignalEffect DEF Release, Notify, CvSignal, CvBroadcast, Body, At, MayRun, mutexVars
<1>11. CASE Release(t, 2)
  BY <1>11, GotoEffect, CondSignalEffect DEF Release, Notify, CvSignal, CvBroadcast, Body, At, MayRun, mutexVars
<1>12. CASE LatchDec(t, 1)
  BY <1>12, GotoEffect DEF LatchDec, CvBroadcast, Body, At, MayRun, mutexVars
<1>13. CASE LatchDec(t, 2)
  BY <1>13, GotoEffect DEF LatchDec, CvBroadcast, Body, At, MayRun, mutexVars
<1>14. CASE LatchClear(t)
  BY <1>14, GotoEffect DEF LatchClear, CvBroadcast, Body, At, MayRun, mutexVars
<1>15. CASE LatchAwait(t)
  <2>1. CASE Wait(t)
    BY <1>15, <2>1, WaitMutexInv DEF LatchAwait, Body
  <2>2. CASE ~Wait(t)
    BY <1>15, <2>2, GotoEffect DEF LatchAwait, Body, At, MayRun, mutexVars
  <2> QED
    BY <2>1, <2>2
<1>16. CASE Reset(t)
  BY <1>16, GotoEffect DEF Reset, CvBroadcast, Body, At, MayRun
<1>17. CASE Arrive(t)
  BY <1>17, ArriveEffect, ZenonT(60) DEF Arrive, Body, At, MayRun, mutexVars
<1>18. CASE BarrierAwait(t)
  <2>1. /\ call[t].op = "barrier-await" /\ call[t].at = "body" /\ dead' = dead
        /\ t \notin lockWait \cup cvWait \cup dead
    BY <1>18 DEF BarrierAwait, Body, At, MayRun
  <2>2. CASE Wait(t)
    BY <1>18, <2>1, <2>2, WaitMutexInv DEF BarrierAwait, Body
  <2>3. CASE UnlockOnly /\ Goto(t, "action")
    BY <2>1, <2>3, GotoEffect, UnlockEffect DEF UnlockOnly
  <2>4. CASE /\ Goto(t, "mutex-unlock!") \/ Goto(t, "let-go")
             /\ UNCHANGED mutexVars
    BY <2>1, <2>4, GotoEffect DEF mutexVars
  <2> QED
    BY <1>18, <2>2, <2>3, <2>4 DEF BarrierAwait
<1>19. CASE RunAction(t)
  <2>1. "let-go" \in AllOps /\ "mutex-lock!" \in Labels
    BY DEF AllOps, Labels
  <2>2. /\ call' = [call EXCEPT ![t].at = "mutex-lock!", ![t].op = "let-go"]
        /\ call[t].at = "action" /\ MayRun(t) /\ UNCHANGED <<mutexVars, dead>>
    BY <1>19 DEF RunAction, At
  <2>3. call'[t].at = "mutex-lock!" /\ \A u \in Threads \ {t} : call'[u] = call[u]
    BY <2>1, <2>2, DivertEffect, ZenonT(60)
  <2> QED
    BY <2>2, <2>3 DEF MayRun, mutexVars
<1>20. CASE LetGo(t)
  BY <1>20, GotoEffect DEF LetGo, CvBroadcast, Body, At, MayRun
<1>21. CASE Break(t)
  BY <1>21, GotoEffect DEF Break, CvBroadcast, Body, At, MayRun
<1>22. CASE TimeoutLock(t)
  BY <1>22, ReturnEffect DEF TimeoutLock, LockTimeout
<1>23. CASE TimeoutWait(t)
  <2>1. "break" \in AllOps /\ "mutex-lock!" \in Labels
    BY DEF AllOps, Labels
  <2>2. CASE IsBarrier
    BY <1>23, <2>1, <2>2, DivertEffect DEF TimeoutWait, CvTimeout
  <2>3. CASE ~IsBarrier
    BY <1>23, <2>3, ReturnEffect DEF TimeoutWait, CvTimeout
  <2> QED
    BY <2>2, <2>3
<1>24. CASE Terminate(t)
  BY <1>24 DEF Terminate, Die
<1>25. CASE WakeUp(t)
  BY <1>25 DEF WakeUp, Spurious
<1> QED
  BY <1>1, <1>2, <1>3, <1>4, <1>5, <1>6, <1>7, <1>8, <1>9, <1>10, <1>11, <1>12, <1>13,
     <1>14, <1>15, <1>16, <1>17, <1>18, <1>19, <1>20, <1>21, <1>22, <1>23, <1>24, <1>25
  DEF StepOf, Step

\* A step that leaves the lock alone, of a thread that is not about to take it.
LEMMA LockFrame ==
    ASSUME Inv, NEW t \in Threads, ~At(t, "mutex-lock!"),
           locked' = locked, lockWait' \subseteq lockWait, cvWait' \subseteq cvWait,
           dead' \subseteq dead \cup {t},
           \A u \in Threads \ {t} : call'[u] = call[u]
    PROVE  LockSleepersWake'
<1>1. CASE locked
  BY <1>1 DEF LockSleepersWake
<1>2. CASE ~locked /\ lockWait # {}
  <2>1. PICK w \in Threads : At(w, "mutex-lock!")
    BY <1>2 DEF Inv, LockSleepersWake
  <2>2. w # t /\ call'[w] = call[w]
    BY <2>1
  <2>3. At(w, "mutex-lock!")'
    BY <2>1, <2>2 DEF At, MayRun
  <2> QED
    BY <2>3 DEF LockSleepersWake
<1>3. CASE lockWait = {}
  BY <1>3 DEF LockSleepersWake
<1> QED
  BY <1>1, <1>2, <1>3

\* mutex-unlock! wakes somebody up who then looks at the lock.
LEMMA UnlockFrame ==
    ASSUME Inv, NEW t \in Threads, call[t].at # "mutex-lock!", Unlock,
           cvWait' \subseteq cvWait \cup {t}, dead' = dead,
           \A u \in Threads \ {t} : call'[u] = call[u]
    PROVE  LockSleepersWake'
<1>1. CASE lockWait # {}
  <2>1. PICK w \in lockWait : lockWait' = lockWait \ {w}
    BY <1>1, UnlockEffect
  <2>2. /\ w \in Threads /\ w # t /\ call'[w].at = "mutex-lock!"
        /\ w \notin dead /\ w \notin cvWait
    BY DEF Inv, MutexInv, TypeInv
  <2>3. At(w, "mutex-lock!")'
    BY <2>1, <2>2 DEF At, MayRun
  <2> QED
    BY <2>2, <2>3 DEF LockSleepersWake
<1>2. CASE lockWait = {}
  BY <1>2, UnlockEffect DEF LockSleepersWake
<1> QED
  BY <1>1, <1>2

LEMMA LockSleepersStep ==
    ASSUME Inv, NEW t \in Threads, StepOf(t)
    PROVE  LockSleepersWake'
<1>a. /\ TypeInv /\ {"asleep", "mutex-lock!", "body", "let-go", "mutex-unlock!", "action"} \subseteq Labels
      /\ \A u \in lockWait : call[u].at = "mutex-lock!"
      /\ \A u \in cvWait : call[u].at = "asleep"
  BY DEF Inv, MutexInv, Labels
<1> USE <1>a
<1>1. CASE \E op \in Operations(kind) : Call(t, op)
  <2>1. PICK op \in Operations(kind) : Call(t, op)
    BY <1>1
  <2> QED
    BY <2>1, CallEffect, LockFrame DEF Call, At, mutexVars
<1>2. CASE Take(t)
  BY <1>2 DEF Take, LockTake, LockSleepersWake
<1>3. CASE TakeAbandoned(t)
  BY <1>3 DEF TakeAbandoned, LockTakeAbandoned, LockSleepersWake
<1>4. CASE Sleep(t)
  BY <1>4 DEF Sleep, LockSleep, LockSleepersWake
<1>5. CASE MutexUnlock(t)
  BY <1>5, UnlockFrame DEF MutexUnlock, UnlockOnly, At
<1>6. CASE Finish(t)
  BY <1>6, ReturnEffect, UnlockFrame DEF Finish, UnlockOnly, At
<1>7. CASE Woken(t)
  BY <1>7, GotoEffect, LockFrame DEF Woken, At, mutexVars
<1>8. CASE Apply(t)
  BY <1>8, GotoEffect, LockFrame DEF Apply, Body, At, mutexVars
<1>9. CASE Acquire(t)
  <2>1. CASE Wait(t)
    BY <1>9, <2>1, WaitEffect, UnlockFrame DEF Acquire, Body, At, Wait, UnlockWait
  <2>2. CASE ~Wait(t)
    BY <1>9, <2>2, GotoEffect, LockFrame DEF Acquire, Body, At, mutexVars
  <2> QED
    BY <2>1, <2>2
<1>10. CASE Release(t, 1)
  BY <1>10, GotoEffect, LockFrame, CondSignalEffect DEF Release, Notify, CvSignal, CvBroadcast, Body, At, mutexVars
<1>11. CASE Release(t, 2)
  BY <1>11, GotoEffect, LockFrame DEF Release, Notify, CvSignal, CvBroadcast, Body, At, mutexVars
<1>12. CASE LatchDec(t, 1)
  BY <1>12, GotoEffect, LockFrame DEF LatchDec, CvBroadcast, Body, At, mutexVars
<1>13. CASE LatchDec(t, 2)
  BY <1>13, GotoEffect, LockFrame DEF LatchDec, CvBroadcast, Body, At, mutexVars
<1>14. CASE LatchClear(t)
  BY <1>14, GotoEffect, LockFrame DEF LatchClear, CvBroadcast, Body, At, mutexVars
<1>15. CASE LatchAwait(t)
  <2>1. CASE Wait(t)
    BY <1>15, <2>1, WaitEffect, UnlockFrame DEF LatchAwait, Body, At, Wait, UnlockWait
  <2>2. CASE ~Wait(t)
    BY <1>15, <2>2, GotoEffect, LockFrame DEF LatchAwait, Body, At, mutexVars
  <2> QED
    BY <2>1, <2>2
<1>16. CASE Reset(t)
  BY <1>16, GotoEffect, LockFrame DEF Reset, CvBroadcast, Body, At
<1>17. CASE Arrive(t)
  BY <1>17, ArriveEffect, LockFrame DEF Arrive, Body, At, mutexVars
<1>18. CASE BarrierAwait(t)
  <2>1. call[t].at = "body" /\ MayRun(t) /\ dead' = dead
    BY <1>18 DEF BarrierAwait, Body, At
  <2>2. CASE Wait(t)
    BY <2>1, <2>2, WaitEffect, UnlockFrame DEF Wait, UnlockWait
  <2>3. CASE UnlockOnly /\ Goto(t, "action")
    BY <2>1, <2>3, GotoEffect, UnlockFrame DEF UnlockOnly
  <2>4. CASE /\ Goto(t, "mutex-unlock!") \/ Goto(t, "let-go")
             /\ UNCHANGED mutexVars
    BY <2>1, <2>4, GotoEffect, LockFrame DEF mutexVars, At
  <2> QED
    BY <1>18, <2>2, <2>3, <2>4 DEF BarrierAwait
<1>19. CASE RunAction(t)
  <2>1. "let-go" \in AllOps /\ "mutex-lock!" \in Labels
    BY DEF AllOps, Labels
  <2>2. \A u \in Threads \ {t} : call'[u] = call[u]
    BY <1>19, <2>1, DivertEffect DEF RunAction
  <2> QED
    BY <1>19, <2>2, LockFrame DEF RunAction, At, mutexVars
<1>20. CASE LetGo(t)
  BY <1>20, GotoEffect, LockFrame DEF LetGo, CvBroadcast, Body, At
<1>21. CASE Break(t)
  BY <1>21, GotoEffect, LockFrame DEF Break, CvBroadcast, Body, At
<1>22. CASE TimeoutLock(t)
  BY <1>22, ReturnEffect, LockFrame DEF TimeoutLock, LockTimeout, At, MayRun
<1>23. CASE TimeoutWait(t)
  <2>1. "break" \in AllOps /\ "mutex-lock!" \in Labels
    BY DEF AllOps, Labels
  <2>2. \A u \in Threads \ {t} : call'[u] = call[u]
    BY <1>23, <2>1, DivertEffect, ReturnEffect DEF TimeoutWait
  <2> QED
    BY <1>23, <2>2, LockFrame DEF TimeoutWait, CvTimeout, At, MayRun
<1>24. CASE Terminate(t)
  BY <1>24, LockFrame DEF Terminate, Die, At, MayRun
<1>25. CASE WakeUp(t)
  BY <1>25, LockFrame DEF WakeUp, Spurious, At, MayRun
<1> QED
  BY <1>1, <1>2, <1>3, <1>4, <1>5, <1>6, <1>7, <1>8, <1>9, <1>10, <1>11, <1>12, <1>13,
     <1>14, <1>15, <1>16, <1>17, <1>18, <1>19, <1>20, <1>21, <1>22, <1>23, <1>24, <1>25
  DEF StepOf, Step

LEMMA LatchStep ==
    ASSUME Inv, NEW t \in Threads, StepOf(t)
    PROVE  LatchWakes'
<1> SUFFICES ASSUME kind = "latch"
             PROVE  LatchWakes'
  BY StepLocal DEF LatchWakes
<1>a. /\ count \in Int /\ LatchWakes
      /\ call[t].op \in {"none", "dec", "dec2", "clear", "await"}
      /\ call[t].at \notin {"action", "let-go"}
  BY OpsByKind DEF Inv, TypeInv, KindInv, IsBarrier
<1>b. count' = count /\ cvWait' \subseteq cvWait => LatchWakes'
  BY <1>a, StepLocal DEF LatchWakes
<1> USE <1>a, <1>b
<1>1. CASE \E op \in Operations(kind) : Call(t, op)
  BY <1>1 DEF Call, mutexVars, objectVars
<1>2. CASE Take(t)
  BY <1>2 DEF Take, LockTake, mutexVars, objectVars
<1>3. CASE TakeAbandoned(t)
  BY <1>3 DEF TakeAbandoned, LockTakeAbandoned, mutexVars, objectVars
<1>4. CASE Sleep(t)
  BY <1>4 DEF Sleep, LockSleep, mutexVars, objectVars
<1>5. CASE MutexUnlock(t)
  BY <1>5 DEF MutexUnlock, UnlockOnly, mutexVars, objectVars
<1>6. CASE Finish(t)
  BY <1>6 DEF Finish, UnlockOnly, mutexVars, objectVars
<1>7. CASE Woken(t)
  BY <1>7 DEF Woken, mutexVars, objectVars
<1>8. CASE Apply(t)
  BY <1>8 DEF Apply, mutexVars, objectVars
<1>9. CASE Acquire(t)
  BY <1>9 DEF Acquire, Body
<1>10. CASE Release(t, 1)
  BY <1>10 DEF Release, Body
<1>11. CASE Release(t, 2)
  BY <1>11 DEF Release, Body
<1>12. CASE LatchDec(t, 1)
  BY <1>12 DEF LatchDec, CvBroadcast, LatchWakes, mutexVars
<1>13. CASE LatchDec(t, 2)
  BY <1>13 DEF LatchDec, CvBroadcast, LatchWakes, mutexVars
<1>14. CASE LatchClear(t)
  BY <1>14 DEF LatchClear, CvBroadcast, LatchWakes, mutexVars
<1>15. CASE LatchAwait(t)
  BY <1>15 DEF LatchAwait, LatchWakes, mutexVars, objectVars
<1>16. CASE Reset(t)
  BY <1>16 DEF Reset, Body
<1>17. CASE Arrive(t)
  BY <1>17 DEF Arrive, Body
<1>18. CASE BarrierAwait(t)
  BY <1>18 DEF BarrierAwait, Body
<1>19. CASE RunAction(t)
  BY <1>19 DEF RunAction, At
<1>20. CASE LetGo(t)
  BY <1>20 DEF LetGo, Body, At
<1>21. CASE Break(t)
  BY <1>21 DEF Break, Body
<1>22. CASE TimeoutLock(t)
  BY <1>22 DEF TimeoutLock, LockTimeout, mutexVars, objectVars
<1>23. CASE TimeoutWait(t)
  BY <1>23 DEF TimeoutWait, CvTimeout, mutexVars, objectVars
<1>24. CASE Terminate(t)
  BY <1>24 DEF Terminate, Die, mutexVars, objectVars
<1>25. CASE WakeUp(t)
  BY <1>25 DEF WakeUp, Spurious, mutexVars, objectVars
<1> QED
  BY <1>1, <1>2, <1>3, <1>4, <1>5, <1>6, <1>7, <1>8, <1>9, <1>10, <1>11, <1>12, <1>13,
     <1>14, <1>15, <1>16, <1>17, <1>18, <1>19, <1>20, <1>21, <1>22, <1>23, <1>24, <1>25
  DEF StepOf, Step

\* The threads on their way to the semaphore can be counted.
LEMMA ComingFinite == IsFiniteSet(Coming) /\ Cardinality(Coming) \in Nat
<1>1. Coming \subseteq Threads
  BY DEF Coming
<1> QED
  BY <1>1, FS_Subset, FS_CardinalityType, SynchronizersAssumption

\* A step that leaves the tokens alone, and nobody on the way gives up.
LEMMA SemaphoreFrame ==
    ASSUME Inv, NEW t \in Threads, StepOf(t), kind = "semaphore",
           UNCHANGED <<count, acquired, released>>,
           \/ dead' # {}
           \/ /\ dead' = dead /\ cvWait' \subseteq cvWait
              /\ t \in Coming => t \in Coming'
    PROVE  SemaphoreInv'
<1>1. CASE dead' # {}
  BY <1>1 DEF Inv, SemaphoreInv
<1>2. CASE /\ dead' = dead /\ cvWait' \subseteq cvWait
           /\ t \in Coming => t \in Coming'
  <2>1. Coming \subseteq Coming'
    BY <1>2, StepLocal DEF Coming
  <2>2. IsFiniteSet(Coming')
    <3>1. Coming' \subseteq Threads
      BY DEF Coming
    <3> QED
      BY <3>1, FS_Subset, SynchronizersAssumption
  <2>3. Cardinality(Coming) <= Cardinality(Coming')
    BY <2>1, <2>2, FS_Subset
  <2>4. Cardinality(Coming') \in Nat /\ Cardinality(Coming) \in Nat /\ count \in Int
    BY <2>2, ComingFinite, FS_CardinalityType DEF Inv, TypeInv
  <2> QED
    BY <1>2, <2>3, <2>4 DEF Inv, SemaphoreInv
<1> QED
  BY <1>1, <1>2

\* A token is taken by somebody who was on the way; or there is none.
LEMMA AcquireSemaphore ==
    ASSUME Inv, NEW t \in Threads, StepOf(t), kind = "semaphore", Acquire(t)
    PROVE  SemaphoreInv'
<1>a. /\ count \in Int /\ acquired \in Nat /\ released \in Nat /\ InitialTokens \in Int
      /\ SemaphoreInv /\ TypeInv /\ kind' = kind
  BY SynchronizersAssumption, StepLocal DEF Inv, TypeInv
<1>1. CASE count > 0
  <2>1. /\ count' = count - 1 /\ acquired' = acquired + 1 /\ released' = released
        /\ dead' = dead /\ cvWait' = cvWait /\ Goto(t, "mutex-unlock!")
    BY <1>1, <1>a, <1>1 DEF Acquire, mutexVars
  <2>2. t \in Coming \/ dead # {}
    BY <1>1 DEF Acquire, Body, At, MayRun, Coming
  <2>3. call'[t].at = "mutex-unlock!"
    BY <1>a, <2>1, GotoEffect DEF Labels
  <2>4. Coming' = Coming \ {t}
    BY <2>1, <2>3, StepLocal DEF Coming
  <2>5. t \in Coming => Cardinality(Coming') = Cardinality(Coming) - 1
    BY <2>4, ComingFinite, FS_RemoveElement
  <2>6. cvWait' # {} /\ dead' = {} => Cardinality(Coming') >= count'
    BY <1>a, <2>1, <2>2, <2>5, ComingFinite DEF SemaphoreInv
  <2> QED
    BY <1>a, <1>1, <2>1, <2>6 DEF SemaphoreInv
<1>2. CASE ~(count > 0)
  <2>1. count' = count /\ acquired' = acquired /\ released' = released
    BY <1>a, <1>2 DEF Acquire
  <2>2. Cardinality(Coming') \in Nat
    <3>1. Coming' \subseteq Threads
      BY DEF Coming
    <3> QED
      BY <3>1, FS_Subset, FS_CardinalityType, SynchronizersAssumption
  <2> QED
    BY <1>a, <1>2, <2>1, <2>2 DEF SemaphoreInv
<1> QED
  BY <1>1, <1>2

\* For a token somebody is woken, and for several everybody.
LEMMA ReleaseSemaphore ==
    ASSUME Inv, NEW t \in Threads, StepOf(t), kind = "semaphore",
           NEW n \in {1, 2}, Release(t, n)
    PROVE  SemaphoreInv'
<1>a. /\ count \in Int /\ acquired \in Nat /\ released \in Nat /\ InitialTokens \in Int
      /\ SemaphoreInv /\ TypeInv /\ kind' = kind
  BY SynchronizersAssumption, StepLocal DEF Inv, TypeInv
<1>b. /\ count' = count + n /\ acquired' = acquired /\ released' = released + n
      /\ dead' = dead /\ Goto(t, "mutex-unlock!") /\ Notify(n)
      /\ call[t].op # "acquire"
  BY DEF Release, Body
<1>c. call'[t].op # "acquire"
  BY <1>a, <1>b, GotoEffect DEF Labels
<1>d. Cardinality(Coming') \in Nat /\ IsFiniteSet(Coming')
  <2>1. Coming' \subseteq Threads
    BY DEF Coming
  <2> QED
    BY <2>1, FS_Subset, FS_CardinalityType, SynchronizersAssumption
<1>1. CASE count + n <= 0 \/ cvWait' = {} \/ dead # {}
  BY <1>1, <1>a, <1>b, <1>d DEF SemaphoreInv
<1>2. CASE count + n > 0 /\ cvWait' # {} /\ dead = {}
  <2>1. n = 1 /\ cvWait' \in CondSignal(cvWait)
    BY <1>2, <1>b DEF Notify, CvSignal, CvBroadcast
  <2>2. PICK w \in cvWait : cvWait' = cvWait \ {w}
    BY <1>2, <2>1, CondSignalEffect
  <2>3. w \in Threads /\ call[w].at = "asleep" /\ call[w].op = "acquire" /\ w \notin dead
    <3>1. w \in Threads /\ call[w].at = "asleep" /\ call[w].op \in WaitingOps /\ w \notin dead
      BY DEF Inv, MutexInv, AsleepInv, TypeInv
    <3> QED
      BY <3>1, OpTellsKind DEF Inv, WaitingOps, IsBarrier
  <2>4. w # t /\ call'[w] = call[w]
    BY <1>b, <2>3, StepLocal
  <2>5. Coming' = Coming \cup {w} /\ w \notin Coming
    BY <1>b, <1>c, <2>2, <2>3, <2>4, StepLocal DEF Coming
  <2>6. Cardinality(Coming') = Cardinality(Coming) + 1
    BY <2>5, ComingFinite, FS_AddElement
  <2>7. Cardinality(Coming) >= count
    BY <1>a, <1>2, <2>2 DEF SemaphoreInv
  <2> QED
    BY <1>a, <1>b, <1>2, <2>1, <2>6, <2>7, ComingFinite DEF SemaphoreInv
<1> QED
  BY <1>1, <1>2, <1>a

LEMMA SemaphoreStep ==
    ASSUME Inv, NEW t \in Threads, StepOf(t)
    PROVE  SemaphoreInv'
<1> SUFFICES ASSUME kind = "semaphore"
             PROVE  SemaphoreInv'
  BY StepLocal DEF SemaphoreInv
<1>a. /\ TypeInv /\ KindInv
      /\ call[t].op \in {"none", "acquire", "release", "release2"}
      /\ call[t].at \notin {"action", "let-go"}
      /\ "body" \in Labels /\ "mutex-lock!" \in Labels
  BY OpsByKind DEF Inv, KindInv, IsBarrier, Labels
<1> USE <1>a
<1>1. CASE \E op \in Operations(kind) : Call(t, op)
  <2>1. t \notin Coming /\ cvWait' = cvWait /\ dead' = dead
    BY <1>1 DEF Call, At, Coming, mutexVars
  <2> QED
    BY <1>1, <2>1, SemaphoreFrame DEF Call, objectVars
<1>2. CASE Take(t)
  <2>1. t \in Coming => t \in Coming'
    BY <1>2, GotoEffect DEF Take, LockTake, Coming
  <2> QED
    BY <1>2, <2>1, SemaphoreFrame DEF Take, LockTake, objectVars
<1>3. CASE TakeAbandoned(t)
  BY <1>3, SemaphoreFrame DEF TakeAbandoned, LockTakeAbandoned, objectVars
<1>4. CASE Sleep(t)
  BY <1>4, SemaphoreFrame DEF Sleep, LockSleep, Coming, objectVars
<1>5. CASE MutexUnlock(t)
  BY <1>5 DEF MutexUnlock
<1>6. CASE Finish(t)
  <2>1. t \notin Coming
    BY <1>6 DEF Finish, At, Coming
  <2> QED
    BY <1>6, <2>1, SemaphoreFrame DEF Finish, UnlockOnly, objectVars
<1>7. CASE Woken(t)
  <2>1. t \in Coming => t \in Coming'
    BY <1>7, GotoEffect DEF Woken, Coming, mutexVars
  <2> QED
    BY <1>7, <2>1, SemaphoreFrame DEF Woken, mutexVars, objectVars
<1>8. CASE Apply(t)
  BY <1>8 DEF Apply, Body
<1>9. CASE Acquire(t)
  BY <1>9, AcquireSemaphore
<1>10. CASE Release(t, 1)
  BY <1>10, ReleaseSemaphore
<1>11. CASE Release(t, 2)
  BY <1>11, ReleaseSemaphore
<1>12. CASE LatchDec(t, 1)
  BY <1>12 DEF LatchDec, Body
<1>13. CASE LatchDec(t, 2)
  BY <1>13 DEF LatchDec, Body
<1>14. CASE LatchClear(t)
  BY <1>14 DEF LatchClear, Body
<1>15. CASE LatchAwait(t)
  BY <1>15 DEF LatchAwait, Body
<1>16. CASE Reset(t)
  BY <1>16 DEF Reset, Body
<1>17. CASE Arrive(t)
  BY <1>17 DEF Arrive, Body
<1>18. CASE BarrierAwait(t)
  BY <1>18 DEF BarrierAwait, Body
<1>19. CASE RunAction(t)
  BY <1>19 DEF RunAction, At
<1>20. CASE LetGo(t)
  BY <1>20 DEF LetGo, Body, At
<1>21. CASE Break(t)
  BY <1>21 DEF Break, Body
<1>22. CASE TimeoutLock(t)
  BY <1>22 DEF TimeoutLock
<1>23. CASE TimeoutWait(t)
  <2>1. t \notin Coming
    BY <1>23 DEF TimeoutWait, CvTimeout, Coming
  <2> QED
    BY <1>23, <2>1, SemaphoreFrame DEF TimeoutWait, CvTimeout, objectVars
<1>24. CASE Terminate(t)
  BY <1>24, SemaphoreFrame DEF Terminate, Die, objectVars
<1>25. CASE WakeUp(t)
  <2>1. t \in Coming => t \in Coming'
    BY <1>25 DEF WakeUp, Spurious, Coming
  <2> QED
    BY <1>25, <2>1, SemaphoreFrame DEF WakeUp, Spurious, objectVars
<1> QED
  BY <1>1, <1>2, <1>3, <1>4, <1>5, <1>6, <1>7, <1>8, <1>9, <1>10, <1>11, <1>12, <1>13,
     <1>14, <1>15, <1>16, <1>17, <1>18, <1>19, <1>20, <1>21, <1>22, <1>23, <1>24, <1>25
  DEF StepOf, Step

LEMMA AsleepStep ==
    ASSUME Inv, NEW t \in Threads, StepOf(t)
    PROVE  AsleepInv'
<1> SUFFICES call'[t].at = "asleep" => call'[t].op \in WaitingOps
  BY StepLocal DEF Inv, AsleepInv
<1>a. /\ TypeInv /\ (call[t].at = "asleep" => call[t].op \in WaitingOps)
      /\ {"asleep", "mutex-lock!", "body", "let-go", "mutex-unlock!", "action"} \subseteq Labels
  BY DEF Inv, AsleepInv, Labels
<1> USE <1>a
<1>1. CASE \E op \in Operations(kind) : Call(t, op)
  <2>1. PICK op \in Operations(kind) : Call(t, op)
    BY <1>1
  <2> QED
    BY <2>1, CallEffect
<1>2. CASE Take(t)
  BY <1>2, GotoEffect, ReturnEffect DEF Take
<1>3. CASE TakeAbandoned(t)
  BY <1>3, GotoEffect, ReturnEffect DEF TakeAbandoned
<1>4. CASE Sleep(t)
  BY <1>4 DEF Sleep
<1>5. CASE MutexUnlock(t)
  BY <1>5 DEF MutexUnlock
<1>6. CASE Finish(t)
  BY <1>6, ReturnEffect DEF Finish
<1>7. CASE Woken(t)
  BY <1>7, GotoEffect DEF Woken
<1>8. CASE Apply(t)
  BY <1>8, GotoEffect DEF Apply
<1>9. CASE Acquire(t)
  BY <1>9, GotoEffect, WaitEffect DEF Acquire, Body, WaitingOps
<1>10. CASE Release(t, 1)
  BY <1>10, GotoEffect DEF Release
<1>11. CASE Release(t, 2)
  BY <1>11, GotoEffect DEF Release
<1>12. CASE LatchDec(t, 1)
  BY <1>12, GotoEffect DEF LatchDec
<1>13. CASE LatchDec(t, 2)
  BY <1>13, GotoEffect DEF LatchDec
<1>14. CASE LatchClear(t)
  BY <1>14, GotoEffect DEF LatchClear
<1>15. CASE LatchAwait(t)
  BY <1>15, GotoEffect, WaitEffect DEF LatchAwait, Body, WaitingOps
<1>16. CASE Reset(t)
  BY <1>16, GotoEffect DEF Reset
<1>17. CASE Arrive(t)
  BY <1>17, ArriveEffect DEF Arrive, Body, At
<1>18. CASE BarrierAwait(t)
  BY <1>18, GotoEffect, WaitEffect DEF BarrierAwait, Body, WaitingOps
<1>19. CASE RunAction(t)
  <2>1. "let-go" \in AllOps
    BY DEF AllOps
  <2>2. call' = [call EXCEPT ![t].at = "mutex-lock!", ![t].op = "let-go"]
    BY <1>19 DEF RunAction
  <2>3. call'[t].at = "mutex-lock!"
    BY <2>1, <2>2, DivertEffect
  <2> QED
    BY <2>3
<1>20. CASE LetGo(t)
  BY <1>20, GotoEffect DEF LetGo
<1>21. CASE Break(t)
  BY <1>21, GotoEffect DEF Break
<1>22. CASE TimeoutLock(t)
  BY <1>22, ReturnEffect DEF TimeoutLock
<1>23. CASE TimeoutWait(t)
  <2>1. "break" \in AllOps
    BY DEF AllOps
  <2> QED
    BY <1>23, <2>1, DivertEffect, ReturnEffect DEF TimeoutWait
<1>24. CASE Terminate(t)
  BY <1>24 DEF Terminate
<1>25. CASE WakeUp(t)
  BY <1>25 DEF WakeUp
<1> QED
  BY <1>1, <1>2, <1>3, <1>4, <1>5, <1>6, <1>7, <1>8, <1>9, <1>10, <1>11, <1>12, <1>13,
     <1>14, <1>15, <1>16, <1>17, <1>18, <1>19, <1>20, <1>21, <1>22, <1>23, <1>24, <1>25
  DEF StepOf, Step

\* A step that leaves the barrier alone, and does not make its thread the last one.
LEMMA BarrierFrame ==
    ASSUME Inv, NEW t \in Threads, StepOf(t), IsBarrier,
           UNCHANGED <<count, generation, arrived, resets>>,
           \/ call'[t].gen = -1 /\ ~LettingGo(t)'
           \/ /\ call'[t].gen = call[t].gen /\ call'[t].place = call[t].place
              /\ \/ ~LettingGo(t)'
                 \/ LettingGo(t)
                 \/ call[t].gen = generation /\ call[t].place = 0
    PROVE  (PlacesInv /\ GatherInv)'
<1>a. /\ PlacesInv /\ GatherInv /\ generation \in Nat
      /\ \A u \in Threads \ {t} : call'[u] = call[u]
  BY StepLocal DEF Inv, BarrierInv, TypeInv
<1>1. PlacesInv'
  BY <1>a DEF PlacesInv
<1>2. \A u \in Threads \ {t} : LettingGo(u)' => LettingGo(u)
  BY <1>a DEF LettingGo
<1>3. ASSUME resets = 0, NEW u \in Threads, LettingGo(u)'
      PROVE  call'[u].gen = generation /\ call'[u].place = 0
  BY <1>a, <1>2, <1>3 DEF GatherInv
<1>4. GatherInv'
  BY <1>3, <1>a DEF GatherInv, Arrived
<1> QED
  BY <1>1, <1>4

\* The place of a newcomer is smaller than all others.
LEMMA ArriveBarrier ==
    ASSUME Inv, NEW t \in Threads, StepOf(t), IsBarrier, Arrive(t)
    PROVE  (PlacesInv /\ GatherInv)'
<1>a. /\ PlacesInv /\ GatherInv /\ generation \in Nat /\ count \in Int /\ TypeInv
      /\ arrived \in Seq(Nat) /\ Len(arrived) = generation + 1 /\ Threshold \in Nat
      /\ \A u \in Threads \ {t} : call'[u] = call[u]
      /\ \A u \in Threads : call[u].place \in Int
  BY StepLocal, SynchronizersAssumption DEF Inv, BarrierInv, TypeInv, CallRecord
<1>b. /\ count' = count + 1 /\ generation' = generation /\ resets' = resets
      /\ arrived' = [arrived EXCEPT ![generation + 1] = @ + 1]
      /\ call[t].at = "body" /\ call[t].op = "barrier-await"
  BY DEF Arrive, Body, At
<1>c. /\ call'[t].gen = generation /\ call'[t].place = Threshold - (count + 1)
      /\ call'[t].at = "body" /\ call'[t].op = "barrier-await"
  BY <1>a, <1>b, ArriveEffect
<1>1. PlacesInv'
  <2>1. \A u \in Threads : call'[u].gen \in -1..generation'
    BY <1>a, <1>b, <1>c, SMTT(30) DEF PlacesInv
  <2>2. \A u \in Threads : call'[u].gen = generation' => call'[u].place >= Threshold - count'
    BY <1>a, <1>b, <1>c, SMTT(30) DEF PlacesInv
  <2>3. \A u \in Threads \ {t} : call'[u].gen = generation => call'[u].place # call'[t].place
    BY <1>a, <1>c DEF PlacesInv
  <2>4. \A v, w \in Threads : v # w /\ call'[v].gen = generation' /\ call'[w].gen = generation'
                                => call'[v].place # call'[w].place
    <3> SUFFICES ASSUME NEW v \in Threads, NEW w \in Threads, v # w,
                        call'[v].gen = generation, call'[w].gen = generation
                 PROVE  call'[v].place # call'[w].place
      BY <1>b
    <3>1. CASE v = t \/ w = t
      BY <2>3, <3>1
    <3>2. CASE v # t /\ w # t
      BY <1>a, <3>2 DEF PlacesInv
    <3> QED
      BY <3>1, <3>2
  <2> QED
    BY <2>1, <2>2, <2>4 DEF PlacesInv
<1>2. \A u \in Threads : LettingGo(u)' => u # t /\ LettingGo(u)
  BY <1>a, <1>c DEF LettingGo
<1>3. /\ Arrived(generation)' = arrived[generation + 1] + 1
      /\ \A g \in 0..(generation - 1) : Arrived(g)' = Arrived(g)
  BY <1>a, <1>b DEF Arrived
<1>4. GatherInv'
  BY <1>a, <1>b, <1>2, <1>3 DEF GatherInv, Arrived
<1> QED
  BY <1>1, <1>4

\* The last one decides to let the others go: it belongs to the present generation.
LEMMA AwaitBarrier ==
    ASSUME Inv, NEW t \in Threads, StepOf(t), IsBarrier, BarrierAwait(t)
    PROVE  (PlacesInv /\ GatherInv)'
<1>a. /\ TypeInv /\ generation \in Nat /\ call[t].gen \in -1..generation
      /\ {"asleep", "mutex-unlock!", "action", "let-go"} \subseteq Labels
  BY DEF Inv, BarrierInv, TypeInv, PlacesInv, Labels
<1>b. call[t].op = "barrier-await" /\ UNCHANGED <<count, generation, arrived, resets>>
  BY DEF BarrierAwait, Body, objectVars
<1>1. CASE broken \/ call[t].gen < generation \/ ~IsLast(t)
  <2>1. Goto(t, "mutex-unlock!") \/ Wait(t)
    BY <1>1 DEF BarrierAwait
  <2>2. /\ call'[t].gen = call[t].gen /\ call'[t].place = call[t].place
        /\ ~LettingGo(t)'
    BY <1>a, <1>b, <2>1, GotoEffect, WaitEffect DEF LettingGo
  <2> QED
    BY <1>b, <2>2, BarrierFrame
<1>2. CASE ~(broken \/ call[t].gen < generation \/ ~IsLast(t))
  <2>1. Goto(t, "action") \/ Goto(t, "let-go")
    BY <1>2 DEF BarrierAwait
  <2>2. call'[t].gen = call[t].gen /\ call'[t].place = call[t].place
    BY <1>a, <2>1, GotoEffect
  <2>3. call[t].gen = generation /\ call[t].place = 0
    BY <1>a, <1>2 DEF IsLast
  <2> QED
    BY <1>b, <2>2, <2>3, BarrierFrame
<1> QED
  BY <1>1, <1>2

\* The generation is over, and its number of threads had come.
LEMMA LetGoBarrier ==
    ASSUME Inv, NEW t \in Threads, StepOf(t), IsBarrier, LetGo(t)
    PROVE  (PlacesInv /\ GatherInv)'
<1>a. /\ PlacesInv /\ GatherInv /\ generation \in Nat /\ count \in Int /\ TypeInv
      /\ arrived \in Seq(Nat) /\ Len(arrived) = generation + 1 /\ Threshold \in Nat
      /\ \A u \in Threads \ {t} : call'[u] = call[u]
      /\ \A u \in Threads : call[u].gen \in Int
      /\ "mutex-unlock!" \in Labels
  BY StepLocal, SynchronizersAssumption DEF Inv, BarrierInv, TypeInv, CallRecord, Labels
<1>b. /\ count' = 0 /\ generation' = generation + 1 /\ resets' = resets
      /\ arrived' = Append(arrived, 0) /\ LettingGo(t) /\ Goto(t, "mutex-unlock!")
  BY DEF LetGo, LettingGo, Body, At
<1>c. call'[t].gen = call[t].gen /\ call'[t].at = "mutex-unlock!"
  BY <1>a, <1>b, GotoEffect
<1>1. \A u \in Threads : call'[u].gen \in -1..generation
  BY <1>a, <1>c DEF PlacesInv
<1>2. PlacesInv'
  BY <1>1, <1>a, <1>b DEF PlacesInv
<1>3. /\ Arrived(generation)' = 0
      /\ \A g \in 0..generation : Arrived(g)' = Arrived(g)
  BY <1>a, <1>b DEF Arrived
<1>4. ASSUME resets = 0
      PROVE  /\ Arrived(generation) >= Threshold
             /\ \A u \in Threads : ~LettingGo(u)'
  <2>1. /\ call[t].gen = generation /\ call[t].place = 0 /\ Arrived(generation) = count
        /\ \A u \in Threads : LettingGo(u) => call[u].gen = generation /\ call[u].place = 0
    BY <1>4, <1>a, <1>b DEF GatherInv
  <2>2. count >= Threshold
    BY <2>1, <1>a DEF PlacesInv
  <2>3. ~LettingGo(t)'
    BY <1>c DEF LettingGo
  <2>4. \A u \in Threads \ {t} : ~LettingGo(u)
    BY <2>1, <1>a DEF PlacesInv
  <2>5. \A u \in Threads \ {t} : ~LettingGo(u)'
    BY <2>4, <1>a DEF LettingGo
  <2> QED
    BY <2>1, <2>2, <2>3, <2>5
<1>5. GatherInv'
  <2> SUFFICES ASSUME resets = 0
               PROVE  /\ \A u \in Threads : ~LettingGo(u)'
                      /\ Arrived(generation)' = 0
                      /\ \A g \in 0..generation : Arrived(g)' >= Threshold
    BY <1>a, <1>b DEF GatherInv
  <2>1. \A g \in 0..generation : Arrived(g) >= Threshold
    BY <1>4, <1>a DEF GatherInv
  <2> QED
    BY <1>3, <1>4, <2>1
<1> QED
  BY <1>2, <1>5

\* Everybody who waits belongs to an earlier generation.
LEMMA ResetBarrier ==
    ASSUME Inv, NEW t \in Threads, StepOf(t), IsBarrier, Reset(t)
    PROVE  (PlacesInv /\ GatherInv)'
<1>a. /\ PlacesInv /\ generation \in Nat /\ resets \in Nat /\ TypeInv
      /\ \A u \in Threads \ {t} : call'[u] = call[u]
      /\ "mutex-unlock!" \in Labels
  BY StepLocal DEF Inv, BarrierInv, TypeInv, Labels
<1>b. /\ generation' = generation + 1 /\ resets' = resets + 1 /\ Goto(t, "mutex-unlock!")
  BY DEF Reset
<1>c. call'[t].gen = call[t].gen
  BY <1>a, <1>b, GotoEffect
<1>1. \A u \in Threads : call'[u].gen \in -1..generation
  BY <1>a, <1>c DEF PlacesInv
<1>2. PlacesInv'
  BY <1>1, <1>a, <1>b DEF PlacesInv
<1>3. GatherInv'
  BY <1>a, <1>b DEF GatherInv
<1> QED
  BY <1>2, <1>3

LEMMA BarrierStep ==
    ASSUME Inv, NEW t \in Threads, StepOf(t)
    PROVE  BarrierInv'
<1> SUFFICES ASSUME IsBarrier
             PROVE  (PlacesInv /\ GatherInv)'
  BY StepLocal DEF BarrierInv, IsBarrier
<1>a. /\ TypeInv /\ KindInv
      /\ call[t].op \in {"none", "barrier-await", "reset", "let-go", "break"}
      /\ {"asleep", "mutex-lock!", "body", "let-go", "mutex-unlock!", "action"} \subseteq Labels
  BY OpsByKind DEF Inv, KindInv, IsBarrier, Labels
<1> USE <1>a
<1>1. CASE \E op \in Operations(kind) : Call(t, op)
  <2>1. PICK op \in Operations(kind) : Call(t, op)
    BY <1>1
  <2>2. op # "let-go"
    BY DEF Operations, IsBarrier
  <2>3. call'[t].gen = -1 /\ ~LettingGo(t)'
    BY <2>1, <2>2, CallEffect DEF LettingGo
  <2> QED
    BY <2>1, <2>3, BarrierFrame DEF Call, objectVars
<1>2. CASE Take(t)
  <2>1. /\ call'[t].gen = call[t].gen /\ call'[t].place = call[t].place
        /\ ~LettingGo(t)' \/ LettingGo(t)
    BY <1>2, GotoEffect DEF Take, LettingGo, At
  <2>2. UNCHANGED <<count, generation, arrived, resets>>
    BY <1>2 DEF Take, objectVars
  <2> QED
    BY <2>1, <2>2, BarrierFrame
<1>3. CASE TakeAbandoned(t)
  <2>1. call'[t].gen = -1 /\ ~LettingGo(t)'
    BY <1>3, ReturnEffect DEF TakeAbandoned, LettingGo, IsBarrier
  <2> QED
    BY <1>3, <2>1, BarrierFrame DEF TakeAbandoned, objectVars
<1>4. CASE Sleep(t)
  <2>1. call' = call /\ UNCHANGED <<count, generation, arrived, resets>>
    BY <1>4 DEF Sleep, objectVars
  <2>2. ~LettingGo(t)' \/ LettingGo(t)
    BY <2>1 DEF LettingGo
  <2> QED
    BY <2>1, <2>2, BarrierFrame
<1>5. CASE MutexUnlock(t)
  BY <1>5 DEF MutexUnlock, IsBarrier
<1>6. CASE Finish(t)
  <2>1. call'[t].gen = -1 /\ ~LettingGo(t)'
    BY <1>6, ReturnEffect DEF Finish, LettingGo, IsBarrier
  <2> QED
    BY <1>6, <2>1, BarrierFrame DEF Finish, objectVars
<1>7. CASE Woken(t)
  <2>1. /\ call'[t].gen = call[t].gen /\ call'[t].place = call[t].place
        /\ call'[t].op = call[t].op /\ call[t].at = "asleep" /\ call'[t].at = "mutex-lock!"
    BY <1>7, GotoEffect DEF Woken, At
  <2>2. call[t].op # "let-go"
    BY <2>1 DEF Inv, AsleepInv, WaitingOps
  <2> QED
    BY <1>7, <2>1, <2>2, BarrierFrame DEF Woken, LettingGo, objectVars
<1>8. CASE Apply(t)
  BY <1>8 DEF Apply, Body
<1>9. CASE Acquire(t)
  BY <1>9 DEF Acquire, Body
<1>10. CASE Release(t, 1)
  BY <1>10 DEF Release, Body
<1>11. CASE Release(t, 2)
  BY <1>11 DEF Release, Body
<1>12. CASE LatchDec(t, 1)
  BY <1>12 DEF LatchDec, Body
<1>13. CASE LatchDec(t, 2)
  BY <1>13 DEF LatchDec, Body
<1>14. CASE LatchClear(t)
  BY <1>14 DEF LatchClear, Body
<1>15. CASE LatchAwait(t)
  BY <1>15 DEF LatchAwait, Body
<1>16. CASE Reset(t)
  BY <1>16, ResetBarrier
<1>17. CASE Arrive(t)
  BY <1>17, ArriveBarrier
<1>18. CASE BarrierAwait(t)
  BY <1>18, AwaitBarrier
<1>19. CASE RunAction(t)
  <2>1. "let-go" \in AllOps
    BY DEF AllOps
  <2>2. /\ call' = [call EXCEPT ![t].at = "mutex-lock!", ![t].op = "let-go"]
        /\ UNCHANGED <<count, generation, arrived, resets>> /\ LettingGo(t)
    BY <1>19 DEF RunAction, At, LettingGo
  <2>3. call'[t].gen = call[t].gen /\ call'[t].place = call[t].place
    BY <2>1, <2>2, DivertEffect
  <2> QED
    BY <2>2, <2>3, BarrierFrame
<1>20. CASE LetGo(t)
  BY <1>20, LetGoBarrier
<1>21. CASE Break(t)
  <2>1. /\ call'[t].gen = call[t].gen /\ call'[t].place = call[t].place
        /\ ~LettingGo(t)'
    BY <1>21, GotoEffect DEF Break, Body, At, LettingGo
  <2> QED
    BY <1>21, <2>1, BarrierFrame DEF Break
<1>22. CASE TimeoutLock(t)
  BY <1>22 DEF TimeoutLock
<1>23. CASE TimeoutWait(t)
  <2>1. "break" \in AllOps
    BY DEF AllOps
  <2>2. /\ call'[t].gen = call[t].gen /\ call'[t].place = call[t].place
        /\ ~LettingGo(t)'
    BY <1>23, <2>1, DivertEffect DEF TimeoutWait, LettingGo
  <2> QED
    BY <1>23, <2>2, BarrierFrame DEF TimeoutWait, objectVars
<1>24. CASE Terminate(t)
  <2>1. call' = call /\ UNCHANGED <<count, generation, arrived, resets>>
    BY <1>24 DEF Terminate, objectVars
  <2>2. ~LettingGo(t)' \/ LettingGo(t)
    BY <2>1 DEF LettingGo
  <2> QED
    BY <2>1, <2>2, BarrierFrame
<1>25. CASE WakeUp(t)
  <2>1. call' = call /\ UNCHANGED <<count, generation, arrived, resets>>
    BY <1>25 DEF WakeUp, objectVars
  <2>2. ~LettingGo(t)' \/ LettingGo(t)
    BY <2>1 DEF LettingGo
  <2> QED
    BY <2>1, <2>2, BarrierFrame
<1> QED
  BY <1>1, <1>2, <1>3, <1>4, <1>5, <1>6, <1>7, <1>8, <1>9, <1>10, <1>11, <1>12, <1>13,
     <1>14, <1>15, <1>16, <1>17, <1>18, <1>19, <1>20, <1>21, <1>22, <1>23, <1>24, <1>25
  DEF StepOf, Step

\* A step that leaves the barrier alone, and wakes nobody who should sleep on.
LEMMA BarrierSleepFrame ==
    ASSUME Inv, NEW t \in Threads, StepOf(t), IsBarrier,
           UNCHANGED <<generation, broken>>,
           cvWait' \subseteq cvWait,
           t \notin cvWait' \/ call' = call,
           \/ dead' # {}
           \/ dead' = dead /\ (~AboutToWake(t) \/ AboutToWake(t)')
    PROVE  BarrierSleepInv'
<1>a. /\ BarrierSleepInv /\ cvWait \subseteq Threads /\ kind' = kind
      /\ \A u \in Threads \ {t} : call'[u] = call[u]
  BY StepLocal DEF Inv, TypeInv
<1>1. \A u \in cvWait' : call'[u].gen = generation'
  BY <1>a DEF BarrierSleepInv
<1>2. ASSUME broken', dead' = {}, cvWait' # {}
      PROVE  \E u \in Threads : AboutToWake(u)'
  <2>1. PICK u \in Threads : AboutToWake(u)
    BY <1>a, <1>2 DEF BarrierSleepInv
  <2>2. AboutToWake(u)'
    BY <1>2, <1>a, <2>1 DEF AboutToWake
  <2> QED
    BY <2>2
<1> QED
  BY <1>1, <1>2 DEF BarrierSleepInv

LEMMA BarrierSleepStep ==
    ASSUME Inv, NEW t \in Threads, StepOf(t)
    PROVE  BarrierSleepInv'
<1>b. kind' = kind
  BY StepLocal
<1> SUFFICES ASSUME IsBarrier
             PROVE  BarrierSleepInv'
  BY <1>b DEF BarrierSleepInv, IsBarrier
<1>a. /\ TypeInv /\ KindInv
      /\ call[t].op \in {"none", "barrier-await", "reset", "let-go", "break"}
      /\ {"asleep", "mutex-lock!", "body", "let-go", "mutex-unlock!", "action"} \subseteq Labels
  BY OpsByKind DEF Inv, KindInv, IsBarrier, Labels
<1> USE <1>a
<1>1. CASE \E op \in Operations(kind) : Call(t, op)
  <2>1. ~AboutToWake(t) /\ t \notin cvWait
    BY <1>1 DEF Call, Body, At, MayRun, AboutToWake
  <2> QED
    BY <1>1, <2>1, BarrierSleepFrame DEF Call, UnlockOnly, mutexVars, objectVars
<1>2. CASE Take(t)
  <2>1. t \notin cvWait /\ UNCHANGED <<generation, broken, cvWait, dead>>
    BY <1>2 DEF Take, LockTake, MayRun, objectVars
  <2>2. ~AboutToWake(t) \/ AboutToWake(t)'
    BY <1>2, GotoEffect DEF Take, AboutToWake
  <2> QED
    BY <2>1, <2>2, BarrierSleepFrame
<1>3. CASE TakeAbandoned(t)
  BY <1>3, BarrierSleepFrame DEF TakeAbandoned, LockTakeAbandoned, MayRun, objectVars
<1>4. CASE Sleep(t)
  <2>1. ~AboutToWake(t) \/ AboutToWake(t)'
    BY <1>4 DEF Sleep, AboutToWake
  <2> QED
    BY <1>4, <2>1, BarrierSleepFrame DEF Sleep, LockSleep, MayRun, objectVars
<1>5. CASE MutexUnlock(t)
  BY <1>5 DEF MutexUnlock, IsBarrier
<1>6. CASE Finish(t)
  <2>1. ~AboutToWake(t) /\ t \notin cvWait
    BY <1>6 DEF Finish, Body, At, MayRun, AboutToWake
  <2> QED
    BY <1>6, <2>1, BarrierSleepFrame DEF Finish, UnlockOnly, mutexVars, objectVars
<1>7. CASE Woken(t)
  <2>1. ~AboutToWake(t) /\ t \notin cvWait
    BY <1>7 DEF Woken, Body, At, MayRun, AboutToWake
  <2> QED
    BY <1>7, <2>1, BarrierSleepFrame DEF Woken, UnlockOnly, mutexVars, objectVars
<1>8. CASE Apply(t)
  BY <1>8 DEF Apply, Body
<1>9. CASE Acquire(t)
  BY <1>9 DEF Acquire, Body
<1>10. CASE Release(t, 1)
  BY <1>10 DEF Release, Body
<1>11. CASE Release(t, 2)
  BY <1>11 DEF Release, Body
<1>12. CASE LatchDec(t, 1)
  BY <1>12 DEF LatchDec, Body
<1>13. CASE LatchDec(t, 2)
  BY <1>13 DEF LatchDec, Body
<1>14. CASE LatchClear(t)
  BY <1>14 DEF LatchClear, Body
<1>15. CASE LatchAwait(t)
  BY <1>15 DEF LatchAwait, Body
<1>16. CASE Reset(t)
  BY <1>16, <1>b DEF Reset, CvBroadcast, BarrierSleepInv
<1>17. CASE Arrive(t)
  <2>1. ~AboutToWake(t) /\ t \notin cvWait
    BY <1>17 DEF Arrive, Body, At, MayRun, AboutToWake
  <2> QED
    BY <1>17, <2>1, BarrierSleepFrame DEF Arrive, UnlockOnly, mutexVars, objectVars
<1>18. CASE BarrierAwait(t)
  <2>1. /\ ~AboutToWake(t) /\ t \notin cvWait
        /\ UNCHANGED <<generation, broken, dead>>
    BY <1>18 DEF BarrierAwait, Body, At, MayRun, AboutToWake, objectVars
  <2>2. CASE Wait(t)
    <3>1. cvWait' = cvWait \cup {t} /\ call'[t].gen = call[t].gen
      BY <2>2, WaitEffect
    <3>2. ~broken /\ call[t].gen = generation
      <4>1. ~(broken \/ call[t].gen < generation)
        <5>1. "mutex-unlock!" \in Labels /\ "asleep" # "mutex-unlock!"
          BY <1>a
        <5> QED
          BY <1>18, <2>2, <5>1, GotoEffect, WaitEffect DEF BarrierAwait
      <4>2. call[t].gen \in -1..generation /\ generation \in Nat
        BY DEF Inv, BarrierInv, TypeInv, PlacesInv
      <4> QED
        BY <4>1, <4>2
    <3>3. \A u \in cvWait : call'[u].gen = generation
      BY <2>1, StepLocal DEF Inv, TypeInv, BarrierSleepInv
    <3> QED
      BY <2>1, <3>1, <3>2, <3>3 DEF BarrierSleepInv
  <2>3. CASE ~Wait(t)
    BY <1>18, <2>1, <2>3, BarrierSleepFrame DEF BarrierAwait, UnlockOnly, mutexVars
  <2> QED
    BY <2>2, <2>3
<1>19. CASE RunAction(t)
  <2>1. "let-go" \in AllOps
    BY DEF AllOps
  <2>2. /\ call' = [call EXCEPT ![t].at = "mutex-lock!", ![t].op = "let-go"]
        /\ UNCHANGED <<generation, dead, cvWait>> /\ t \notin cvWait
    BY <1>19 DEF RunAction, At, MayRun, mutexVars
  <2>3. call'[t].op = "let-go" /\ call'[t].at = "mutex-lock!"
    BY <2>1, <2>2, DivertEffect
  <2>4. AboutToWake(t)'
    BY <2>3 DEF AboutToWake
  <2>5. \A u \in cvWait : call'[u].gen = generation
    BY <2>2, StepLocal DEF Inv, TypeInv, BarrierSleepInv
  <2> QED
    BY <2>2, <2>4, <2>5 DEF BarrierSleepInv
<1>20. CASE LetGo(t)
  BY <1>20, <1>b DEF LetGo, CvBroadcast, BarrierSleepInv
<1>21. CASE Break(t)
  BY <1>21, <1>b DEF Break, CvBroadcast, BarrierSleepInv
<1>22. CASE TimeoutLock(t)
  BY <1>22 DEF TimeoutLock
<1>23. CASE TimeoutWait(t)
  <2>1. /\ ~AboutToWake(t) /\ cvWait' = cvWait \ {t}
        /\ UNCHANGED <<generation, broken, dead>>
    BY <1>23 DEF TimeoutWait, CvTimeout, AboutToWake, objectVars, Inv, MutexInv
  <2> QED
    BY <2>1, BarrierSleepFrame
<1>24. CASE Terminate(t)
  BY <1>24, BarrierSleepFrame DEF Terminate, Die, objectVars
<1>25. CASE WakeUp(t)
  <2>1. ~AboutToWake(t) \/ AboutToWake(t)'
    BY <1>25 DEF WakeUp, AboutToWake
  <2> QED
    BY <1>25, <2>1, BarrierSleepFrame DEF WakeUp, Spurious, objectVars
<1> QED
  BY <1>1, <1>2, <1>3, <1>4, <1>5, <1>6, <1>7, <1>8, <1>9, <1>10, <1>11, <1>12, <1>13,
     <1>14, <1>15, <1>16, <1>17, <1>18, <1>19, <1>20, <1>21, <1>22, <1>23, <1>24, <1>25
  DEF StepOf, Step

-----------------------------------------------------------------------------
(* The invariant, and what follows from it.                                    *)

LEMMA InvInit == Init => Inv
<1> SUFFICES ASSUME Init
             PROVE  Inv
  OBVIOUS
<1>a. NoCall \in CallRecord /\ NoCall.at = "idle" /\ NoCall.op = "none" /\ NoCall.gen = -1
  BY DEF NoCall, CallRecord, Labels, AllOps
<1>b. call = [t \in Threads |-> NoCall]
  BY DEF Init
<1>1. count \in Int
  <2>1. kind = "semaphore" => count = InitialTokens
    BY DEF Init
  <2>2. kind = "latch" => count = InitialLatch
    BY DEF Init
  <2>3. kind \notin {"semaphore", "latch"} => count = 0
    BY DEF Init
  <2> QED
    BY <2>1, <2>2, <2>3, SynchronizersAssumption
<1>2. arrived \in Seq(Nat) /\ Len(arrived) = generation + 1
  BY DEF Init
<1>3. call \in [Threads -> CallRecord]
  BY <1>a, <1>b
<1>4. TypeInv
  BY <1>1, <1>2, <1>3 DEF Init, TypeInv
<1>5. KindInv
  BY <1>a, <1>b DEF KindInv, OpsOf
<1>6. MutexInv /\ AsleepInv /\ LockSleepersWake
  BY <1>a, <1>b DEF Init, MutexInv, AsleepInv, LockSleepersWake
<1>7. SemaphoreInv
  BY SynchronizersAssumption DEF Init, SemaphoreInv
<1>8. LatchWakes /\ BarrierSleepInv
  BY DEF Init, LatchWakes, BarrierSleepInv
<1>9. BarrierInv
  <2> SUFFICES ASSUME IsBarrier
               PROVE  PlacesInv /\ GatherInv
    BY DEF BarrierInv
  <2>1. count = 0 /\ generation = 0 /\ resets = 0 /\ arrived = <<0>>
    BY DEF Init, IsBarrier
  <2>2. PlacesInv
    BY <1>a, <1>b, <2>1 DEF PlacesInv
  <2>3. \A t \in Threads : ~LettingGo(t)
    BY <1>a, <1>b DEF LettingGo
  <2>4. Arrived(generation) = count
    BY <2>1 DEF Arrived
  <2> QED
    BY <2>1, <2>2, <2>3, <2>4 DEF GatherInv
<1> QED
  BY <1>4, <1>5, <1>6, <1>7, <1>8, <1>9 DEF Inv

LEMMA InvStep == Inv /\ [Next]_vars => Inv'
<1> SUFFICES ASSUME Inv, [Next]_vars
             PROVE  Inv'
  OBVIOUS
<1>1. CASE Next
  <2>1. PICK t \in Threads : StepOf(t)
    BY <1>1 DEF Next, StepOf
  <2> QED
    BY <2>1, TypeStep, KindStep, MutexStep, AsleepStep, LockSleepersStep, SemaphoreStep,
       LatchStep, BarrierStep, BarrierSleepStep DEF Inv
<1>2. CASE UNCHANGED vars
  <2> USE <1>2 DEF vars, mutexVars, objectVars
  <2>1. TypeInv' /\ KindInv' /\ MutexInv' /\ AsleepInv'
    BY DEF Inv, TypeInv, KindInv, MutexInv, AsleepInv, IsBarrier
  <2>2. LockSleepersWake' /\ LatchWakes'
    BY DEF Inv, LockSleepersWake, LatchWakes, At, MayRun
  <2>3. SemaphoreInv'
    <3>1. Coming' = Coming
      BY DEF Coming
    <3> QED
      BY <3>1 DEF Inv, SemaphoreInv
  <2>4. BarrierInv'
    BY DEF Inv, BarrierInv, PlacesInv, GatherInv, LettingGo, Arrived, IsBarrier
  <2>5. BarrierSleepInv'
    BY DEF Inv, BarrierSleepInv, AboutToWake, IsBarrier
  <2> QED
    BY <2>1, <2>2, <2>3, <2>4, <2>5 DEF Inv
<1> QED
  BY <1>1, <1>2

\* The inductive invariant holds in every reachable state.
THEOREM Invariance == Spec => []Inv
  BY InvInit, InvStep, PTL DEF Spec

\* At most one live thread is inside the mutex of an object, and it is the owner:
\* whatever comes together of timeouts, wake-ups for no reason, terminations and
\* the takeover of abandoned mutexes in Scm_MutexLock and Scm_MutexUnlock.
THEOREM MutexIsExclusive == Spec => []MutexExclusive
<1>1. Inv => MutexExclusive
  BY DEF Inv, MutexInv, MutexExclusive, Inside
<1> QED
  BY <1>1, Invariance, PTL

\* Nobody is forgotten asleep: at a mutex that is free, at a latch that is open,
\* at a barrier that has gone on or is broken.
THEOREM NoSleeperForgotten == Spec => []SleepersWake
<1>1. Inv => BarrierWakes
  <2> SUFFICES ASSUME Inv, IsBarrier, NEW t \in cvWait
               PROVE  /\ call[t].gen = generation
                      /\ broken /\ dead = {} => \E u \in Threads : call[u].op = "let-go"
    BY DEF BarrierWakes
  <2> QED
    BY DEF Inv, BarrierSleepInv, AboutToWake
<1>2. Inv => SleepersWake
  BY <1>1 DEF Inv, SleepersWake
<1> QED
  BY <1>2, Invariance, PTL

\* semaphore-acquire! and semaphore-release! neither make nor lose a token, and
\* nobody sleeps while there is a token that nobody is coming for.
THEOREM TokensExact == Spec => []SemaphoreExact
<1>1. ASSUME Inv, kind = "semaphore", count > 0, cvWait # {}, dead = {}
      PROVE  OnTheWay("acquire")
  <2>1. count \in Int /\ Cardinality(Coming) >= count
    BY <1>1 DEF Inv, TypeInv, SemaphoreInv
  <2>2. Coming # {}
    BY <1>1, <2>1, ComingFinite, FS_EmptySet
  <2> QED
    BY <2>2 DEF Coming, OnTheWay
<1>2. Inv => SemaphoreExact
  BY <1>1 DEF Inv, SemaphoreInv, SemaphoreExact
<1> QED
  BY <1>2, Invariance, PTL

\* barrier-await: nobody leaves before the threshold has been reached in the
\* generation of the thread, unless the barrier is reset.
THEOREM BarrierGathers == Spec => []BarrierTogether
<1>1. ASSUME Inv, NEW t \in Threads, Leaves(t), resets = 0
      PROVE  Arrived(call[t].gen) >= Threshold
  <2>1. IsBarrier /\ call[t].gen \in Int /\ generation \in Nat
    BY <1>1, OpTellsKind DEF Inv, Leaves, TypeInv, CallRecord
  <2>2. call[t].gen \in 0..(generation - 1)
    BY <1>1, <2>1 DEF Leaves
  <2> QED
    BY <1>1, <2>1, <2>2 DEF Inv, BarrierInv, GatherInv
<1>2. Inv => BarrierTogether
  BY <1>1 DEF BarrierTogether
<1> QED
  BY <1>2, Invariance, PTL
=============================================================================
