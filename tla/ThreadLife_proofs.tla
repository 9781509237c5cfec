-------------------------- MODULE ThreadLife_proofs --------------------------
(* Proofs about ThreadLife, for any number of threads and any mix of calls:    *)
(* whoever calls whatever operation on whatever thread, itself included.       *)
EXTENDS ThreadLife, TLAPS

-----------------------------------------------------------------------------
(* The inductive invariant.                                                    *)

\* Who asks or waits in a call is concerned with some VM, and a suspended thread
\* waits on its own cond.
OnInv ==
    \A t \in Threads :
        /\ pos[t] \in Asking \cup Waiting => on[t] \in Threads
        /\ pos[t] = "suspended" => on[t] = t

\* A VM that has not been started has no system thread; nobody asks it for
\* anything, waits for it in thread-terminate!, or sends it a signal.
NewInv ==
    \A t \in Threads :
        /\ state[t] = "new" => pos[t] = "none" /\ sent[t] = 0
        /\ pos[t] \in Asking \cup Killing => state[on[t]] # "new"

\* A VM without a system thread is new or terminated.  Before its thread is there
\* nobody has inspected it; when it is gone, only thread-cont! makes it runnable.
EndedInv ==
    \A t \in Threads :
        /\ pos[t] = "none" => state[t] \in {"new", "terminated"} /\ inspector[t] = NoThread
        /\ pos[t] = "gone" => state[t] = "terminated" \/ t \in revived

\* A request is pending without attentionRequest only in process_queued_requests,
\* between the turning off and the decision, when the thread ends, and while the
\* one who asks is between its two stores.
RequestInv ==
    \A t \in Threads :
        stopRequest[t] # "none" /\ pos[t] \notin {"attend", "obey", "exit", "gone"}
            => attention[t] \/ Asked(t) \/ t \in orphaned

Inv ==
    /\ TypeOK /\ OnInv /\ NewInv /\ EndedInv /\ RequestInv
    /\ JoinersWake /\ SuspendedWakes /\ StoppedIsStill

\* What thread t does in a step, perhaps to thread u.
StepOf(t, u) ==
    \/ Proceed(t) \/ TimesOut(t)
    \/ Finish(t) \/ SpuriousWakeup(t) \/ Signalled(t)
    \/ ThreadStart(t, u) \/ ThreadJoin(t, u) \/ ThreadStop(t, u)
    \/ ThreadCont(t, u) \/ ThreadTerminate(t, u)

-----------------------------------------------------------------------------
(* Every step keeps the parts of the invariant.                                *)

LEMMA TypeStep ==
    ASSUME Inv, NEW t \in Threads, NEW u \in Threads, StepOf(t, u)
    PROVE  TypeOK'
<1> USE ThreadAssumption DEF Asking, AskingToStop, AskingToEnd, Inv, OnInv

<1>1. CASE Attach(t)
  BY <1>1 DEF Attach, TypeOK, Positions, Waiting, Joining, Stopping, Killing, ownerVars,
       requestVars, outsideVars
<1>2. CASE Cleanup(t)
  BY <1>2 DEF Cleanup, CleanupInner, Woken, TypeOK, Positions, Waiting, Joining,
       Stopping, Killing, ownerVars, requestVars, outsideVars
<1>3. CASE TurnOffAttention(t)
  BY <1>3 DEF TurnOffAttention, TypeOK, Positions, Waiting, Joining, Stopping, Killing,
       ownerVars, outcomeVars, outsideVars
<1>4. CASE Attend(t)
  BY <1>4 DEF Attend, TypeOK, Positions, Waiting, Joining, Stopping, Killing, vmVars,
       ownerVars, requestVars, outcomeVars
<1>5. CASE Obey(t)
  BY <1>5, SMTT(30) DEF Obey, NothingRequested, Suspend, ObeyTermination, WaitOn,
       Woken, TypeOK, Positions, Waiting, Joining, Stopping, Killing, ownerVars,
       outcomeVars, outsideVars
<1>6. CASE Resume(t)
  BY <1>6 DEF Resume, WaitOn, TypeOK, Positions, Waiting, Joining, Stopping, Killing,
       vmVars, ownerVars, requestVars, outcomeVars, outsideVars
<1>7. CASE JoinWakes(t)
  BY <1>7, SMTT(30) DEF JoinWakes, EndJoin, Return, WaitOn, Outcome, TypeOK, Positions, Waiting,
       Joining, Stopping, Killing, ownerVars, requestVars
<1>8. CASE StopWakes(t)
  BY <1>8 DEF StopWakes, AwaitStop, Return, WaitOn, TypeOK, Positions, Waiting,
       Joining, Stopping, Killing, vmVars, ownerVars, requestVars, outcomeVars,
       outsideVars
<1>9. CASE KillWakes(t)
  BY <1>9 DEF KillWakes, Return, WaitOn, TypeOK, Positions, Waiting, Joining, Stopping,
       Killing, vmVars, ownerVars, requestVars, outcomeVars, outsideVars
<1>10. CASE JoinTimesOut(t)
  BY <1>10 DEF JoinTimesOut, EndJoin, Return, TypeOK, Positions, Waiting, Joining,
       Stopping, Killing, ownerVars, requestVars
<1>11. CASE StopTimesOut(t)
  BY <1>11 DEF StopTimesOut, Return, TypeOK, Positions, Waiting, Joining, Stopping,
       Killing, vmVars, ownerVars, requestVars, outcomeVars, outsideVars
<1>12. CASE KillTimesOut(t)
  <2>1. on[t] \in Threads
    BY <1>12 DEF KillTimesOut, Waiting
  <2>2. CASE pos[t] # "kill3"
    BY <1>12, <2>1, <2>2
    DEF KillTimesOut, WaitOn, TypeOK, Positions, Waiting, Killing, ownerVars, requestVars
  <2>3. CASE pos[t] = "kill3"
    BY <1>12, <2>1, <2>3
    DEF KillTimesOut, CleanupInner, Return, TypeOK, Positions, ownerVars, requestVars
  <2> QED
    BY <2>2, <2>3
<1>13. CASE Finish(t)
  <2>1. CASE result' = [result EXCEPT ![t] = TRUE] /\ UNCHANGED exception
    BY <1>13, <2>1
    DEF Finish, TypeOK, Positions, ownerVars, requestVars, outsideVars
  <2>2. CASE ~(result' = [result EXCEPT ![t] = TRUE] /\ UNCHANGED exception)
    BY <1>13, <2>2
    DEF Finish, TypeOK, Positions, ownerVars, requestVars, outsideVars
  <2> QED
    BY <2>1, <2>2
<1>14. CASE SpuriousWakeup(t)
  BY <1>14 DEF SpuriousWakeup, TypeOK, Positions, Waiting, Joining, Stopping, Killing,
       vmVars, ownerVars, requestVars, outcomeVars, outsideVars
<1>15. CASE Signalled(t)
  <2>1. /\ sent' \in [Threads -> Nat]
        /\ UNCHANGED <<state, stopRequest, got, outcomeVars, ownerVars>>
    BY <1>15 DEF Signalled, TypeOK
  <2>2. CASE Ignored(t)
    BY <2>1, <2>2 DEF Ignored, TypeOK, outcomeVars, ownerVars, waitVars
  <2>3. CASE FirstSignal(t)
    BY <2>1, <2>3 DEF FirstSignal, TypeOK, outcomeVars, ownerVars, waitVars
  <2>4. CASE SecondSignal(t)
    BY <2>1, <2>4
    DEF SecondSignal, TypeOK, Positions, Waiting, Stopping, Killing, outcomeVars, ownerVars
  <2> QED
    BY <1>15, <2>2, <2>3, <2>4 DEF Signalled
<1>16. CASE ThreadStart(t, u)
  BY <1>16 DEF ThreadStart, Calls, TypeOK, Positions, Waiting, Joining, Stopping,
       Killing, ownerVars, requestVars, outcomeVars, outsideVars
<1>17. CASE ThreadJoin(t, u)
  BY <1>17, SMTT(30) DEF ThreadJoin, Calls, EndJoin, Return, WaitOn, Outcome, TypeOK,
       Positions, Waiting, Joining, Stopping, Killing, ownerVars, requestVars
<1>18. CASE ThreadStop(t, u)
  <2>1. /\ pos' \in [Threads -> Positions]
        /\ on' \in [Threads -> Threads \cup {NoThread}] /\ asleep' \subseteq Threads
    BY <1>18 DEF ThreadStop, AwaitStop, Return, WaitOn, TypeOK, Positions, Waiting,
         Stopping
  <2>2. /\ inspector' \in [Threads -> Threads \cup {NoThread}]
        /\ stopRequest' \in [Threads -> {"none", "suspend", "terminate"}]
        /\ attention' = attention
    BY <1>18 DEF ThreadStop, Store, TypeOK, requestVars
  <2>3. UNCHANGED <<state, canceller, revived, outsideVars, outcomeVars>>
    BY <1>18 DEF ThreadStop
  <2> QED
    BY <2>1, <2>2, <2>3 DEF TypeOK, outcomeVars, outsideVars
<1>19. CASE ThreadCont(t, u)
  BY <1>19 DEF ThreadCont, Woken, TypeOK, Positions, Waiting, Joining, Stopping,
       Killing, outcomeVars, outsideVars
<1>20. CASE ThreadTerminate(t, u)
  <2>1. UNCHANGED <<inspector, revived, result, joinCount, outsideVars>>
    BY <1>20 DEF ThreadTerminate
  <2>2. CASE TerminateSelf(t)
    BY <2>1, <2>2 DEF TerminateSelf, TypeOK, Positions, outsideVars, requestVars
  <2>3. CASE TerminateNew(t, u)
    BY <2>1, <2>3 DEF TerminateNew, CleanupInner, TypeOK, outsideVars, requestVars
  <2>4. CASE \E op : TerminateRunning(t, u, op)
    BY <2>1, <2>4 DEF TerminateRunning, Store, TypeOK, Positions, outsideVars
  <2> QED
    BY <1>20, <2>2, <2>3, <2>4 DEF ThreadTerminate
<1>21. CASE AnnounceStop(t)
  <2>1. on[t] \in Threads
    BY <1>21 DEF AnnounceStop
  <2>2. /\ pos' \in [Threads -> Positions]
        /\ on' \in [Threads -> Threads \cup {NoThread}] /\ asleep' \subseteq Threads
    BY <1>21, <2>1
    DEF AnnounceStop, AwaitStop, Return, WaitOn, TypeOK, Positions, Waiting, Stopping
  <2>3. /\ attention' = [attention EXCEPT ![on[t]] = TRUE]
        /\ UNCHANGED <<stopRequest, state, ownerVars, outsideVars, outcomeVars>>
    BY <1>21 DEF AnnounceStop, Store
  <2>4. attention' \in [Threads -> BOOLEAN]
    BY <2>1, <2>3 DEF TypeOK
  <2> QED
    BY <2>2, <2>3, <2>4 DEF TypeOK, ownerVars, outcomeVars, outsideVars
<1>22. CASE AnnounceTermination(t)
  <2>1. on[t] \in Threads
    BY <1>22 DEF AnnounceTermination
  <2>2. /\ pos' \in [Threads -> Positions]
        /\ on' \in [Threads -> Threads \cup {NoThread}] /\ asleep' \subseteq Threads
    BY <1>22, <2>1
    DEF AnnounceTermination, Return, WaitOn, TypeOK, Positions, Waiting, Killing
  <2>3. /\ attention' = [attention EXCEPT ![on[t]] = TRUE]
        /\ UNCHANGED <<stopRequest, state, ownerVars, outsideVars, outcomeVars>>
    BY <1>22 DEF AnnounceTermination, Store
  <2>4. attention' \in [Threads -> BOOLEAN]
    BY <2>1, <2>3 DEF TypeOK
  <2> QED
    BY <2>2, <2>3, <2>4 DEF TypeOK, ownerVars, outcomeVars, outsideVars
<1> QED
  BY <1>1, <1>2, <1>3, <1>4, <1>5, <1>6, <1>7, <1>8, <1>9, <1>10, <1>11, <1>12, <1>13,
     <1>14, <1>15, <1>16, <1>17, <1>18, <1>19, <1>20, <1>21, <1>22
  DEF StepOf, Proceed, TimesOut

LEMMA OnStep ==
    ASSUME Inv, NEW t \in Threads, NEW u \in Threads, StepOf(t, u)
    PROVE  OnInv'
<1> USE ThreadAssumption DEF Asking, AskingToStop, AskingToEnd, Inv, TypeOK

<1>1. CASE Attach(t)
  BY <1>1 DEF Attach, OnInv, Waiting, Joining, Stopping, Killing, ownerVars,
       requestVars, outsideVars
<1>2. CASE Cleanup(t)
  BY <1>2 DEF Cleanup, CleanupInner, Woken, OnInv, Waiting, Joining, Stopping, Killing,
       ownerVars, requestVars, outsideVars
<1>3. CASE TurnOffAttention(t)
  BY <1>3 DEF TurnOffAttention, OnInv, Waiting, Joining, Stopping, Killing, ownerVars,
       outcomeVars, outsideVars
<1>4. CASE Attend(t)
  BY <1>4 DEF Attend, OnInv, Waiting, Joining, Stopping, Killing, vmVars, ownerVars,
       requestVars, outcomeVars
<1>5. CASE Obey(t)
  BY <1>5 DEF Obey, NothingRequested, Suspend, ObeyTermination, WaitOn, Woken, OnInv,
       Waiting, Joining, Stopping, Killing, ownerVars, outcomeVars, outsideVars
<1>6. CASE Resume(t)
  BY <1>6 DEF Resume, WaitOn, OnInv, Waiting, Joining, Stopping, Killing, vmVars,
       ownerVars, requestVars, outcomeVars, outsideVars
<1>7. CASE JoinWakes(t)
  BY <1>7 DEF JoinWakes, EndJoin, Return, WaitOn, Outcome, OnInv, Waiting, Joining,
       Stopping, Killing, ownerVars, requestVars
<1>8. CASE StopWakes(t)
  BY <1>8 DEF StopWakes, AwaitStop, Return, WaitOn, OnInv, Waiting, Joining, Stopping,
       Killing, vmVars, ownerVars, requestVars, outcomeVars, outsideVars
<1>9. CASE KillWakes(t)
  BY <1>9 DEF KillWakes, Return, WaitOn, OnInv, Waiting, Joining, Stopping, Killing,
       vmVars, ownerVars, requestVars, outcomeVars, outsideVars
<1>10. CASE JoinTimesOut(t)
  BY <1>10 DEF JoinTimesOut, EndJoin, Return, OnInv, Waiting, Joining, Stopping,
       Killing, ownerVars, requestVars
<1>11. CASE StopTimesOut(t)
  BY <1>11 DEF StopTimesOut, Return, OnInv, Waiting, Joining, Stopping, Killing, vmVars,
       ownerVars, requestVars, outcomeVars, outsideVars
<1>12. CASE KillTimesOut(t)
  BY <1>12 DEF KillTimesOut, CleanupInner, Woken, Return, WaitOn, OnInv, Waiting,
       Joining, Stopping, Killing, ownerVars, requestVars
<1>13. CASE Finish(t)
  BY <1>13 DEF Finish, OnInv, Waiting, Joining, Stopping, Killing, ownerVars,
       requestVars, outsideVars
<1>14. CASE SpuriousWakeup(t)
  BY <1>14 DEF SpuriousWakeup, OnInv, Waiting, Joining, Stopping, Killing, vmVars,
       ownerVars, requestVars, outcomeVars, outsideVars
<1>15. CASE Signalled(t)
  BY <1>15 DEF Signalled, Ignored, FirstSignal, SecondSignal, OnInv, Waiting, Joining,
       Stopping, Killing, ownerVars, outcomeVars, waitVars
<1>16. CASE ThreadStart(t, u)
  BY <1>16 DEF ThreadStart, Calls, OnInv, Waiting, Joining, Stopping, Killing,
       ownerVars, requestVars, outcomeVars, outsideVars
<1>17. CASE ThreadJoin(t, u)
  BY <1>17 DEF ThreadJoin, Calls, EndJoin, Return, WaitOn, Outcome, OnInv, Waiting,
       Joining, Stopping, Killing, ownerVars, requestVars
<1>18. CASE ThreadStop(t, u)
  BY <1>18 DEF ThreadStop, Calls, Store, AwaitStop, Return, WaitOn, ownerVars, OnInv,
       Waiting, Joining, Stopping, Killing, requestVars, outcomeVars, waitVars,
       outsideVars
<1>19. CASE ThreadCont(t, u)
  BY <1>19 DEF ThreadCont, Woken, OnInv, Waiting, Joining, Stopping, Killing,
       outcomeVars, outsideVars
<1>20. CASE ThreadTerminate(t, u)
  BY <1>20 DEF ThreadTerminate, Calls, Store, ownerVars, TerminateSelf, TerminateNew,
       TerminateRunning, CleanupInner, Woken, WaitOn, OnInv, Waiting, Joining,
       Stopping, Killing, requestVars, waitVars, outsideVars
<1>21. CASE AnnounceStop(t)
  BY <1>21 DEF AnnounceStop, Store, AwaitStop, Return, WaitOn, OnInv, Waiting, Joining,
       Stopping, Killing, ownerVars, outcomeVars, outsideVars
<1>22. CASE AnnounceTermination(t)
  BY <1>22 DEF AnnounceTermination, Store, Return, WaitOn, OnInv, Waiting, Joining,
       Stopping, Killing, ownerVars, outcomeVars, outsideVars
<1> QED
  BY <1>1, <1>2, <1>3, <1>4, <1>5, <1>6, <1>7, <1>8, <1>9, <1>10, <1>11, <1>12, <1>13,
     <1>14, <1>15, <1>16, <1>17, <1>18, <1>19, <1>20, <1>21, <1>22
  DEF StepOf, Proceed, TimesOut

LEMMA NewStep ==
    ASSUME Inv, NEW t \in Threads, NEW u \in Threads, StepOf(t, u)
    PROVE  NewInv'
<1> USE ThreadAssumption DEF Asking, AskingToStop, AskingToEnd, Inv, TypeOK, OnInv,
     Positions, Waiting, Joining, Stopping, Killing

<1>1. CASE Attach(t)
  BY <1>1 DEF Attach, NewInv, Killing, ownerVars, requestVars, outsideVars
<1>2. CASE Cleanup(t)
  BY <1>2 DEF Cleanup, CleanupInner, Woken, NewInv, Killing, ownerVars, requestVars,
       outsideVars
<1>3. CASE TurnOffAttention(t)
  BY <1>3 DEF TurnOffAttention, NewInv, Killing, ownerVars, outcomeVars, outsideVars
<1>4. CASE Attend(t)
  BY <1>4 DEF Attend, NewInv, Killing, vmVars, ownerVars, requestVars, outcomeVars
<1>5. CASE Obey(t)
  BY <1>5 DEF Obey, NothingRequested, Suspend, ObeyTermination, WaitOn, Woken, NewInv,
       Killing, ownerVars, outcomeVars, outsideVars
<1>6. CASE Resume(t)
  BY <1>6 DEF Resume, WaitOn, NewInv, Killing, vmVars, ownerVars, requestVars,
       outcomeVars, outsideVars
<1>7. CASE JoinWakes(t)
  BY <1>7 DEF JoinWakes, EndJoin, Return, WaitOn, Outcome, NewInv, Joining, Killing,
       ownerVars, requestVars
<1>8. CASE StopWakes(t)
  BY <1>8 DEF StopWakes, AwaitStop, Return, WaitOn, NewInv, Stopping, Killing, vmVars,
       ownerVars, requestVars, outcomeVars, outsideVars
<1>9. CASE KillWakes(t)
  BY <1>9 DEF KillWakes, Return, WaitOn, NewInv, Killing, vmVars, ownerVars,
       requestVars, outcomeVars, outsideVars
<1>10. CASE JoinTimesOut(t)
  BY <1>10 DEF JoinTimesOut, EndJoin, Return, NewInv, Killing, ownerVars, requestVars
<1>11. CASE StopTimesOut(t)
  BY <1>11 DEF StopTimesOut, Return, NewInv, Killing, vmVars, ownerVars, requestVars,
       outcomeVars, outsideVars
<1>12. CASE KillTimesOut(t)
  BY <1>12 DEF KillTimesOut, CleanupInner, Woken, Return, WaitOn, NewInv, Killing,
       ownerVars, requestVars
<1>13. CASE Finish(t)
  BY <1>13 DEF Finish, NewInv, Killing, ownerVars, requestVars, outsideVars
<1>14. CASE SpuriousWakeup(t)
  BY <1>14 DEF SpuriousWakeup, NewInv, Killing, vmVars, ownerVars, requestVars,
       outcomeVars, outsideVars
<1>15. CASE Signalled(t)
  BY <1>15 DEF Signalled, Ignored, FirstSignal, SecondSignal, NewInv, Stopping, Killing,
       ownerVars, outcomeVars, waitVars
<1>16. CASE ThreadStart(t, u)
  BY <1>16 DEF ThreadStart, Calls, NewInv, Killing, ownerVars, requestVars, outcomeVars,
       outsideVars
<1>17. CASE ThreadJoin(t, u)
  BY <1>17 DEF ThreadJoin, Calls, EndJoin, Return, WaitOn, Outcome, NewInv, Joining,
       Killing, ownerVars, requestVars
<1>18. CASE ThreadStop(t, u)
  BY <1>18 DEF ThreadStop, Calls, Store, AwaitStop, Return, WaitOn, ownerVars, NewInv,
       Stopping, Killing, requestVars, outcomeVars, waitVars, outsideVars
<1>19. CASE ThreadCont(t, u)
  BY <1>19 DEF ThreadCont, Woken, NewInv, Killing, outcomeVars, outsideVars
<1>20. CASE ThreadTerminate(t, u)
  BY <1>20 DEF ThreadTerminate, Calls, Store, ownerVars, TerminateSelf, TerminateNew,
       TerminateRunning, CleanupInner, Woken, WaitOn, NewInv, Killing, requestVars,
       waitVars, outsideVars
<1>21. CASE AnnounceStop(t)
  BY <1>21 DEF AnnounceStop, Store, AwaitStop, Return, WaitOn, NewInv, Waiting, Joining,
       Stopping, Killing, ownerVars, outcomeVars, outsideVars
<1>22. CASE AnnounceTermination(t)
  BY <1>22 DEF AnnounceTermination, Store, Return, WaitOn, NewInv, Waiting, Joining,
       Stopping, Killing, ownerVars, outcomeVars, outsideVars
<1> QED
  BY <1>1, <1>2, <1>3, <1>4, <1>5, <1>6, <1>7, <1>8, <1>9, <1>10, <1>11, <1>12, <1>13,
     <1>14, <1>15, <1>16, <1>17, <1>18, <1>19, <1>20, <1>21, <1>22
  DEF StepOf, Proceed, TimesOut

LEMMA EndedStep ==
    ASSUME Inv, NEW t \in Threads, NEW u \in Threads, StepOf(t, u)
    PROVE  EndedInv'
<1> USE ThreadAssumption DEF Asking, AskingToStop, AskingToEnd, Inv, TypeOK, OnInv,
     NewInv, Positions, Waiting, Joining, Stopping, Killing

<1>1. CASE Attach(t)
  BY <1>1 DEF Attach, EndedInv, Killing, ownerVars, requestVars, outsideVars
<1>2. CASE Cleanup(t)
  BY <1>2 DEF Cleanup, CleanupInner, Woken, EndedInv, Killing, ownerVars, requestVars,
       outsideVars
<1>3. CASE TurnOffAttention(t)
  BY <1>3 DEF TurnOffAttention, EndedInv, Killing, ownerVars, outcomeVars, outsideVars
<1>4. CASE Attend(t)
  BY <1>4 DEF Attend, EndedInv, Killing, vmVars, ownerVars, requestVars, outcomeVars
<1>5. CASE Obey(t)
  BY <1>5 DEF Obey, NothingRequested, Suspend, ObeyTermination, WaitOn, Woken, EndedInv,
       Killing, ownerVars, outcomeVars, outsideVars
<1>6. CASE Resume(t)
  BY <1>6 DEF Resume, WaitOn, EndedInv, Killing, vmVars, ownerVars, requestVars,
       outcomeVars, outsideVars
<1>7. CASE JoinWakes(t)
  BY <1>7 DEF JoinWakes, EndJoin, Return, WaitOn, Outcome, EndedInv, Joining, Killing,
       ownerVars, requestVars
<1>8. CASE StopWakes(t)
  BY <1>8 DEF StopWakes, AwaitStop, Return, WaitOn, EndedInv, Stopping, Killing,
       vmVars, ownerVars, requestVars, outcomeVars, outsideVars
<1>9. CASE KillWakes(t)
  BY <1>9 DEF KillWakes, Return, WaitOn, EndedInv, Killing, vmVars, ownerVars,
       requestVars, outcomeVars, outsideVars
<1>10. CASE JoinTimesOut(t)
  BY <1>10 DEF JoinTimesOut, EndJoin, Return, EndedInv, Killing, ownerVars, requestVars
<1>11. CASE StopTimesOut(t)
  BY <1>11 DEF StopTimesOut, Return, EndedInv, Killing, vmVars, ownerVars, requestVars,
       outcomeVars, outsideVars
<1>12. CASE KillTimesOut(t)
  BY <1>12 DEF KillTimesOut, CleanupInner, Woken, Return, WaitOn, EndedInv, Killing,
       ownerVars, requestVars
<1>13. CASE Finish(t)
  BY <1>13 DEF Finish, EndedInv, Killing, ownerVars, requestVars, outsideVars
<1>14. CASE SpuriousWakeup(t)
  BY <1>14 DEF SpuriousWakeup, EndedInv, Killing, vmVars, ownerVars, requestVars,
       outcomeVars, outsideVars
<1>15. CASE Signalled(t)
  BY <1>15 DEF Signalled, Ignored, FirstSignal, SecondSignal, EndedInv, Stopping,
       Killing, ownerVars, outcomeVars, waitVars
<1>16. CASE ThreadStart(t, u)
  BY <1>16 DEF ThreadStart, Calls, EndedInv, Killing, ownerVars, requestVars,
       outcomeVars, outsideVars
<1>17. CASE ThreadJoin(t, u)
  BY <1>17 DEF ThreadJoin, Calls, EndJoin, Return, WaitOn, Outcome, EndedInv, Joining,
       Killing, ownerVars, requestVars
<1>18. CASE ThreadStop(t, u)
  BY <1>18 DEF ThreadStop, Calls, Store, AwaitStop, Return, WaitOn, ownerVars,
       EndedInv, Stopping, Killing, requestVars, outcomeVars, waitVars, outsideVars
<1>19. CASE ThreadCont(t, u)
  BY <1>19 DEF ThreadCont, Woken, EndedInv, Killing, outcomeVars, outsideVars
<1>20. CASE ThreadTerminate(t, u)
  BY <1>20 DEF ThreadTerminate, Calls, Store, ownerVars, TerminateSelf, TerminateNew,
       TerminateRunning, CleanupInner, Woken, WaitOn, EndedInv, Killing, requestVars,
       waitVars, outsideVars
<1>21. CASE AnnounceStop(t)
  BY <1>21 DEF AnnounceStop, Store, AwaitStop, Return, WaitOn, EndedInv, Waiting,
       Joining, Stopping, Killing, ownerVars, outcomeVars, outsideVars
<1>22. CASE AnnounceTermination(t)
  BY <1>22 DEF AnnounceTermination, Store, Return, WaitOn, EndedInv, Waiting, Joining,
       Stopping, Killing, ownerVars, outcomeVars, outsideVars
<1> QED
  BY <1>1, <1>2, <1>3, <1>4, <1>5, <1>6, <1>7, <1>8, <1>9, <1>10, <1>11, <1>12, <1>13,
     <1>14, <1>15, <1>16, <1>17, <1>18, <1>19, <1>20, <1>21, <1>22
  DEF StepOf, Proceed, TimesOut

LEMMA RequestStep ==
    ASSUME Inv, NEW t \in Threads, NEW u \in Threads, StepOf(t, u)
    PROVE  RequestInv'
<1> USE ThreadAssumption DEF Asking, AskingToStop, AskingToEnd, Inv, TypeOK, OnInv,
           NewInv, Asked, Waiting, Joining, Stopping, Killing

<1>1. CASE Attach(t)
  BY <1>1 DEF Attach, RequestInv, ownerVars, requestVars, outsideVars
<1>2. CASE Cleanup(t)
  BY <1>2 DEF Cleanup, CleanupInner, Woken, RequestInv, ownerVars, requestVars,
       outsideVars
<1>3. CASE TurnOffAttention(t)
  BY <1>3 DEF TurnOffAttention, RequestInv, ownerVars, outcomeVars, outsideVars
<1>4. CASE Attend(t)
  BY <1>4 DEF Attend, RequestInv, vmVars, ownerVars, requestVars, outcomeVars
<1>5. CASE Obey(t)
  BY <1>5 DEF Obey, NothingRequested, Suspend, ObeyTermination, WaitOn, Woken,
       RequestInv, ownerVars, outcomeVars, outsideVars
<1>6. CASE Resume(t)
  BY <1>6 DEF Resume, WaitOn, RequestInv, vmVars, ownerVars, requestVars, outcomeVars,
       outsideVars
<1>7. CASE JoinWakes(t)
  BY <1>7 DEF JoinWakes, EndJoin, Return, WaitOn, Outcome, RequestInv, Joining,
       ownerVars, requestVars
<1>8. CASE StopWakes(t)
  BY <1>8 DEF StopWakes, AwaitStop, Return, WaitOn, RequestInv, Stopping, vmVars,
       ownerVars, requestVars, outcomeVars, outsideVars
<1>9. CASE KillWakes(t)
  BY <1>9 DEF KillWakes, Return, WaitOn, RequestInv, Killing, vmVars, ownerVars,
       requestVars, outcomeVars, outsideVars
<1>10. CASE JoinTimesOut(t)
  BY <1>10 DEF JoinTimesOut, EndJoin, Return, RequestInv, ownerVars, requestVars
<1>11. CASE StopTimesOut(t)
  BY <1>11 DEF StopTimesOut, Return, RequestInv, vmVars, ownerVars, requestVars,
       outcomeVars, outsideVars
<1>12. CASE KillTimesOut(t)
  BY <1>12 DEF KillTimesOut, CleanupInner, Woken, Return, WaitOn, RequestInv, Killing,
       ownerVars, requestVars
<1>13. CASE Finish(t)
  BY <1>13 DEF Finish, RequestInv, ownerVars, requestVars, outsideVars
<1>14. CASE SpuriousWakeup(t)
  BY <1>14 DEF SpuriousWakeup, RequestInv, vmVars, ownerVars, requestVars, outcomeVars,
       outsideVars
<1>15. CASE Signalled(t)
  BY <1>15 DEF Signalled, Ignored, FirstSignal, SecondSignal, RequestInv, Stopping,
       Killing, ownerVars, outcomeVars, waitVars
<1>16. CASE ThreadStart(t, u)
  BY <1>16 DEF ThreadStart, Calls, RequestInv, ownerVars, requestVars, outcomeVars,
       outsideVars
<1>17. CASE ThreadJoin(t, u)
  BY <1>17 DEF ThreadJoin, Calls, EndJoin, Return, WaitOn, Outcome, RequestInv, Joining,
       ownerVars, requestVars
<1>18. CASE ThreadStop(t, u)
  BY <1>18 DEF ThreadStop, Calls, Store, AwaitStop, Return, WaitOn, ownerVars,
       RequestInv, Stopping, requestVars, outcomeVars, waitVars, outsideVars
<1>19. CASE ThreadCont(t, u)
  BY <1>19 DEF ThreadCont, Woken, RequestInv, outcomeVars, outsideVars
<1>20. CASE ThreadTerminate(t, u)
  BY <1>20 DEF ThreadTerminate, Calls, Store, ownerVars, TerminateSelf, TerminateNew,
       TerminateRunning, CleanupInner, Woken, WaitOn, RequestInv, requestVars,
       waitVars, outsideVars
<1>21. CASE AnnounceStop(t)
  BY <1>21 DEF AnnounceStop, Store, AwaitStop, Return, WaitOn, RequestInv, Waiting,
       Joining, Stopping, Killing, ownerVars, outcomeVars, outsideVars
<1>22. CASE AnnounceTermination(t)
  BY <1>22 DEF AnnounceTermination, Store, Return, WaitOn, RequestInv, Waiting, Joining,
       Stopping, Killing, ownerVars, outcomeVars, outsideVars
<1> QED
  BY <1>1, <1>2, <1>3, <1>4, <1>5, <1>6, <1>7, <1>8, <1>9, <1>10, <1>11, <1>12, <1>13,
     <1>14, <1>15, <1>16, <1>17, <1>18, <1>19, <1>20, <1>21, <1>22
  DEF StepOf, Proceed, TimesOut

LEMMA JoinersStep ==
    ASSUME Inv, NEW t \in Threads, NEW u \in Threads, StepOf(t, u)
    PROVE  JoinersWake'
<1> USE ThreadAssumption DEF Asking, AskingToStop, AskingToEnd, Inv, TypeOK, OnInv,
     NewInv, EndedInv, EndToCome, Positions, Waiting, Joining, Stopping, Killing

<1>1. CASE Attach(t)
  BY <1>1 DEF Attach, JoinersWake, Joining, ownerVars, requestVars, outsideVars
<1>2. CASE Cleanup(t)
  BY <1>2 DEF Cleanup, CleanupInner, Woken, JoinersWake, Joining, ownerVars,
       requestVars, outsideVars
<1>3. CASE TurnOffAttention(t)
  BY <1>3 DEF TurnOffAttention, JoinersWake, Joining, ownerVars, outcomeVars,
       outsideVars
<1>4. CASE Attend(t)
  BY <1>4 DEF Attend, JoinersWake, Joining, vmVars, ownerVars, requestVars, outcomeVars
<1>5. CASE Obey(t)
  BY <1>5 DEF Obey, NothingRequested, Suspend, ObeyTermination, WaitOn, Woken,
       JoinersWake, Joining, ownerVars, outcomeVars, outsideVars
<1>6. CASE Resume(t)
  BY <1>6 DEF Resume, WaitOn, JoinersWake, Joining, vmVars, ownerVars, requestVars,
       outcomeVars, outsideVars
<1>7. CASE JoinWakes(t)
  BY <1>7 DEF JoinWakes, EndJoin, Return, WaitOn, Outcome, JoinersWake, Joining,
       ownerVars, requestVars
<1>8. CASE StopWakes(t)
  BY <1>8 DEF StopWakes, AwaitStop, Return, WaitOn, JoinersWake, Joining, Stopping,
       vmVars, ownerVars, requestVars, outcomeVars, outsideVars
<1>9. CASE KillWakes(t)
  BY <1>9 DEF KillWakes, Return, WaitOn, JoinersWake, Joining, Killing, vmVars,
       ownerVars, requestVars, outcomeVars, outsideVars
<1>10. CASE JoinTimesOut(t)
  BY <1>10 DEF JoinTimesOut, EndJoin, Return, JoinersWake, Joining, ownerVars,
       requestVars
<1>11. CASE StopTimesOut(t)
  BY <1>11 DEF StopTimesOut, Return, JoinersWake, Joining, vmVars, ownerVars,
       requestVars, outcomeVars, outsideVars
<1>12. CASE KillTimesOut(t)
  BY <1>12 DEF KillTimesOut, CleanupInner, Woken, Return, WaitOn, JoinersWake, Joining,
       Killing, ownerVars, requestVars
<1>13. CASE Finish(t)
  BY <1>13 DEF Finish, JoinersWake, Joining, ownerVars, requestVars, outsideVars
<1>14. CASE SpuriousWakeup(t)
  BY <1>14 DEF SpuriousWakeup, JoinersWake, Joining, vmVars, ownerVars, requestVars,
       outcomeVars, outsideVars
<1>15. CASE Signalled(t)
  BY <1>15 DEF Signalled, Ignored, FirstSignal, SecondSignal, JoinersWake, Joining,
       Stopping, Killing, ownerVars, outcomeVars, waitVars
<1>16. CASE ThreadStart(t, u)
  BY <1>16 DEF ThreadStart, Calls, JoinersWake, Joining, ownerVars, requestVars,
       outcomeVars, outsideVars
<1>17. CASE ThreadJoin(t, u)
  BY <1>17 DEF ThreadJoin, Calls, EndJoin, Return, WaitOn, Outcome, JoinersWake,
       Joining, ownerVars, requestVars
<1>18. CASE ThreadStop(t, u)
  BY <1>18 DEF ThreadStop, Calls, Store, AwaitStop, Return, WaitOn, ownerVars,
       JoinersWake, Joining, Stopping, requestVars, outcomeVars, waitVars, outsideVars
<1>19. CASE ThreadCont(t, u)
  BY <1>19 DEF ThreadCont, Woken, JoinersWake, Joining, outcomeVars, outsideVars
<1>20. CASE ThreadTerminate(t, u)
  BY <1>20 DEF ThreadTerminate, Calls, Store, ownerVars, TerminateSelf, TerminateNew,
       TerminateRunning, CleanupInner, Woken, WaitOn, JoinersWake, Joining,
       requestVars, waitVars, outsideVars
<1>21. CASE AnnounceStop(t)
  BY <1>21 DEF AnnounceStop, Store, AwaitStop, Return, WaitOn, JoinersWake, Waiting,
       Joining, Stopping, Killing, ownerVars, outcomeVars, outsideVars
<1>22. CASE AnnounceTermination(t)
  BY <1>22 DEF AnnounceTermination, Store, Return, WaitOn, JoinersWake, Waiting,
       Joining, Stopping, Killing, ownerVars, outcomeVars, outsideVars
<1> QED
  BY <1>1, <1>2, <1>3, <1>4, <1>5, <1>6, <1>7, <1>8, <1>9, <1>10, <1>11, <1>12, <1>13,
     <1>14, <1>15, <1>16, <1>17, <1>18, <1>19, <1>20, <1>21, <1>22
  DEF StepOf, Proceed, TimesOut

LEMMA SuspendedStep ==
    ASSUME Inv, NEW t \in Threads, NEW u \in Threads, StepOf(t, u)
    PROVE  SuspendedWakes'
<1> USE ThreadAssumption DEF Asking, AskingToStop, AskingToEnd, Inv, TypeOK, OnInv

<1>1. CASE Attach(t)
  BY <1>1 DEF Attach, SuspendedWakes, ownerVars, requestVars, outsideVars
<1>2. CASE Cleanup(t)
  BY <1>2 DEF Cleanup, CleanupInner, Woken, SuspendedWakes, ownerVars, requestVars,
       outsideVars
<1>3. CASE TurnOffAttention(t)
  BY <1>3 DEF TurnOffAttention, SuspendedWakes, ownerVars, outcomeVars, outsideVars
<1>4. CASE Attend(t)
  BY <1>4 DEF Attend, SuspendedWakes, vmVars, ownerVars, requestVars, outcomeVars
<1>5. CASE Obey(t)
  BY <1>5 DEF Obey, NothingRequested, Suspend, ObeyTermination, WaitOn, Woken,
       SuspendedWakes, ownerVars, outcomeVars, outsideVars
<1>6. CASE Resume(t)
  BY <1>6 DEF Resume, WaitOn, SuspendedWakes, vmVars, ownerVars, requestVars,
       outcomeVars, outsideVars
<1>7. CASE JoinWakes(t)
  BY <1>7 DEF JoinWakes, EndJoin, Return, WaitOn, Outcome, SuspendedWakes, Joining,
       ownerVars, requestVars
<1>8. CASE StopWakes(t)
  BY <1>8 DEF StopWakes, AwaitStop, Return, WaitOn, SuspendedWakes, Stopping, vmVars,
       ownerVars, requestVars, outcomeVars, outsideVars
<1>9. CASE KillWakes(t)
  BY <1>9 DEF KillWakes, Return, WaitOn, SuspendedWakes, Killing, vmVars, ownerVars,
       requestVars, outcomeVars, outsideVars
<1>10. CASE JoinTimesOut(t)
  BY <1>10 DEF JoinTimesOut, EndJoin, Return, SuspendedWakes, ownerVars, requestVars
<1>11. CASE StopTimesOut(t)
  BY <1>11 DEF StopTimesOut, Return, SuspendedWakes, vmVars, ownerVars, requestVars,
       outcomeVars, outsideVars
<1>12. CASE KillTimesOut(t)
  BY <1>12 DEF KillTimesOut, CleanupInner, Woken, Return, WaitOn, SuspendedWakes,
       Killing, ownerVars, requestVars
<1>13. CASE Finish(t)
  BY <1>13 DEF Finish, SuspendedWakes, ownerVars, requestVars, outsideVars
<1>14. CASE SpuriousWakeup(t)
  BY <1>14 DEF SpuriousWakeup, SuspendedWakes, vmVars, ownerVars, requestVars,
       outcomeVars, outsideVars
<1>15. CASE Signalled(t)
  BY <1>15 DEF Signalled, Ignored, FirstSignal, SecondSignal, SuspendedWakes, Stopping,
       Killing, ownerVars, outcomeVars, waitVars
<1>16. CASE ThreadStart(t, u)
  BY <1>16 DEF ThreadStart, Calls, SuspendedWakes, ownerVars, requestVars, outcomeVars,
       outsideVars
<1>17. CASE ThreadJoin(t, u)
  BY <1>17 DEF ThreadJoin, Calls, EndJoin, Return, WaitOn, Outcome, SuspendedWakes,
       Joining, ownerVars, requestVars
<1>18. CASE ThreadStop(t, u)
  BY <1>18 DEF ThreadStop, Calls, Store, AwaitStop, Return, WaitOn, ownerVars,
       SuspendedWakes, Stopping, requestVars, outcomeVars, waitVars, outsideVars
<1>19. CASE ThreadCont(t, u)
  BY <1>19 DEF ThreadCont, Woken, SuspendedWakes, outcomeVars, outsideVars
<1>20. CASE ThreadTerminate(t, u)
  BY <1>20 DEF ThreadTerminate, Calls, Store, ownerVars, TerminateSelf, TerminateNew,
       TerminateRunning, CleanupInner, Woken, WaitOn, SuspendedWakes, requestVars,
       waitVars, outsideVars
<1>21. CASE AnnounceStop(t)
  BY <1>21 DEF AnnounceStop, Store, AwaitStop, Return, WaitOn, SuspendedWakes,
       Waiting, Joining, Stopping, Killing, ownerVars, outcomeVars, outsideVars
<1>22. CASE AnnounceTermination(t)
  BY <1>22 DEF AnnounceTermination, Store, Return, WaitOn, SuspendedWakes, Waiting,
       Joining, Stopping, Killing, ownerVars, outcomeVars, outsideVars
<1> QED
  BY <1>1, <1>2, <1>3, <1>4, <1>5, <1>6, <1>7, <1>8, <1>9, <1>10, <1>11, <1>12, <1>13,
     <1>14, <1>15, <1>16, <1>17, <1>18, <1>19, <1>20, <1>21, <1>22
  DEF StepOf, Proceed, TimesOut

LEMMA StoppedStep ==
    ASSUME Inv, NEW t \in Threads, NEW u \in Threads, StepOf(t, u)
    PROVE  StoppedIsStill'
<1> USE ThreadAssumption DEF Asking, AskingToStop, AskingToEnd, Inv, TypeOK

<1>1. CASE Attach(t)
  BY <1>1 DEF Attach, StoppedIsStill, ownerVars, requestVars, outsideVars
<1>2. CASE Cleanup(t)
  BY <1>2 DEF Cleanup, CleanupInner, Woken, StoppedIsStill, ownerVars, requestVars,
       outsideVars
<1>3. CASE TurnOffAttention(t)
  BY <1>3 DEF TurnOffAttention, StoppedIsStill, ownerVars, outcomeVars, outsideVars
<1>4. CASE Attend(t)
  BY <1>4 DEF Attend, StoppedIsStill, vmVars, ownerVars, requestVars, outcomeVars
<1>5. CASE Obey(t)
  BY <1>5 DEF Obey, NothingRequested, Suspend, ObeyTermination, WaitOn, Woken,
       StoppedIsStill, ownerVars, outcomeVars, outsideVars
<1>6. CASE Resume(t)
  BY <1>6 DEF Resume, WaitOn, StoppedIsStill, vmVars, ownerVars, requestVars,
       outcomeVars, outsideVars
<1>7. CASE JoinWakes(t)
  BY <1>7 DEF JoinWakes, EndJoin, Return, WaitOn, Outcome, StoppedIsStill, Joining,
       ownerVars, requestVars
<1>8. CASE StopWakes(t)
  BY <1>8 DEF StopWakes, AwaitStop, Return, WaitOn, StoppedIsStill, Stopping, vmVars,
       ownerVars, requestVars, outcomeVars, outsideVars
<1>9. CASE KillWakes(t)
  BY <1>9 DEF KillWakes, Return, WaitOn, StoppedIsStill, Killing, vmVars, ownerVars,
       requestVars, outcomeVars, outsideVars
<1>10. CASE JoinTimesOut(t)
  BY <1>10 DEF JoinTimesOut, EndJoin, Return, StoppedIsStill, ownerVars, requestVars
<1>11. CASE StopTimesOut(t)
  BY <1>11 DEF StopTimesOut, Return, StoppedIsStill, vmVars, ownerVars, requestVars,
       outcomeVars, outsideVars
<1>12. CASE KillTimesOut(t)
  BY <1>12 DEF KillTimesOut, CleanupInner, Woken, Return, WaitOn, StoppedIsStill,
       Killing, ownerVars, requestVars
<1>13. CASE Finish(t)
  BY <1>13 DEF Finish, StoppedIsStill, ownerVars, requestVars, outsideVars
<1>14. CASE SpuriousWakeup(t)
  BY <1>14 DEF SpuriousWakeup, StoppedIsStill, vmVars, ownerVars, requestVars,
       outcomeVars, outsideVars
<1>15. CASE Signalled(t)
  BY <1>15 DEF Signalled, Ignored, FirstSignal, SecondSignal, StoppedIsStill, Stopping,
       Killing, ownerVars, outcomeVars, waitVars
<1>16. CASE ThreadStart(t, u)
  BY <1>16 DEF ThreadStart, Calls, StoppedIsStill, ownerVars, requestVars, outcomeVars,
       outsideVars
<1>17. CASE ThreadJoin(t, u)
  BY <1>17 DEF ThreadJoin, Calls, EndJoin, Return, WaitOn, Outcome, StoppedIsStill,
       Joining, ownerVars, requestVars
<1>18. CASE ThreadStop(t, u)
  BY <1>18 DEF ThreadStop, Calls, Store, AwaitStop, Return, WaitOn, ownerVars,
       StoppedIsStill, Stopping, requestVars, outcomeVars, waitVars, outsideVars
<1>19. CASE ThreadCont(t, u)
  BY <1>19 DEF ThreadCont, Woken, StoppedIsStill, outcomeVars, outsideVars
<1>20. CASE ThreadTerminate(t, u)
  BY <1>20 DEF ThreadTerminate, Calls, Store, ownerVars, TerminateSelf, TerminateNew,
       TerminateRunning, CleanupInner, Woken, WaitOn, StoppedIsStill, requestVars,
       waitVars, outsideVars
<1>21. CASE AnnounceStop(t)
  BY <1>21 DEF AnnounceStop, Store, AwaitStop, Return, WaitOn, StoppedIsStill,
       Waiting, Joining, Stopping, Killing, ownerVars, outcomeVars, outsideVars
<1>22. CASE AnnounceTermination(t)
  BY <1>22 DEF AnnounceTermination, Store, Return, WaitOn, StoppedIsStill, Waiting,
       Joining, Stopping, Killing, ownerVars, outcomeVars, outsideVars
<1> QED
  BY <1>1, <1>2, <1>3, <1>4, <1>5, <1>6, <1>7, <1>8, <1>9, <1>10, <1>11, <1>12, <1>13,
     <1>14, <1>15, <1>16, <1>17, <1>18, <1>19, <1>20, <1>21, <1>22
  DEF StepOf, Proceed, TimesOut

-----------------------------------------------------------------------------
(* The invariant, and what follows from it.                                    *)

LEMMA InvInit == Init => Inv
<1> SUFFICES ASSUME Init
             PROVE  Inv
  OBVIOUS
<1>1. TypeOK
  BY ThreadAssumption DEF Init, TypeOK, Positions
<1>2. OnInv /\ NewInv /\ EndedInv /\ RequestInv
  BY DEF Init, OnInv, NewInv, EndedInv, RequestInv, Asking, AskingToStop, AskingToEnd,
       Waiting, Joining, Stopping, Killing
<1>3. JoinersWake /\ SuspendedWakes /\ StoppedIsStill
  BY DEF Init, JoinersWake, SuspendedWakes, StoppedIsStill
<1> QED
  BY <1>1, <1>2, <1>3 DEF Inv

LEMMA InvStep == Inv /\ [Next]_vars => Inv'
<1> SUFFICES ASSUME Inv, [Next]_vars
             PROVE  Inv'
  OBVIOUS
<1>1. CASE Next
  <2>1. PICK t \in Threads, u \in Threads : StepOf(t, u)
    BY <1>1 DEF Next, StepOf
  <2> QED
    BY <2>1, TypeStep, OnStep, NewStep, EndedStep, RequestStep, JoinersStep,
       SuspendedStep, StoppedStep DEF Inv
<1>2. CASE UNCHANGED vars
  <2> USE <1>2 DEF Inv, vars, vmVars, ownerVars, requestVars, outcomeVars, waitVars,
                   outsideVars
  <2>1. TypeOK'
    BY DEF TypeOK
  <2>2. OnInv' /\ NewInv' /\ EndedInv' /\ RequestInv'
    BY DEF OnInv, NewInv, EndedInv, RequestInv, Asked
  <2>3. JoinersWake' /\ SuspendedWakes' /\ StoppedIsStill'
    BY DEF JoinersWake, EndToCome, SuspendedWakes, StoppedIsStill
  <2> QED
    BY <2>1, <2>2, <2>3
<1> QED
  BY <1>1, <1>2

\* The inductive invariant holds in every reachable state.
THEOREM Invariance == Spec => []Inv
  BY InvInit, InvStep, PTL DEF Spec

\* The type invariant: every slot of a VM holds what thread.c stores there.
THEOREM TypeCorrect == Spec => []TypeOK
<1>1. Inv => TypeOK
  BY DEF Inv
<1> QED
  BY <1>1, Invariance, PTL

\* thread-join! misses no wake-up: who sleeps in it waits for a thread that is not
\* started yet or has its system thread, with thread_cleanup and its broadcast
\* before it; or for one that thread-cont! made runnable after its end.
THEOREM JoinMissesNoWakeup == Spec => []JoinersWake
<1>1. Inv => JoinersWake
  BY DEF Inv
<1> QED
  BY <1>1, Invariance, PTL

\* A thread suspended in process_queued_requests misses no wake-up: it sleeps
\* only while its state is STOPPED.
THEOREM SuspendedMissesNoWakeup == Spec => []SuspendedWakes
<1>1. Inv => SuspendedWakes
  BY DEF Inv
<1> QED
  BY <1>1, Invariance, PTL

\* process_queued_requests may turn attentionRequest off without a lock, even
\* between the two stores of a request: a pending request has the attention of a
\* thread that runs Scheme code, or gets it with the second store, unless whoever
\* asks is killed between the two.
THEOREM RequestsAreNoticed == Spec => []RequestNoticed
<1>1. Inv => RequestNoticed
  BY DEF Inv, RequestInv, RequestNoticed
<1> QED
  BY <1>1, Invariance, PTL

\* A thread in the state STOPPED executes no Scheme code, whoever stops, continues
\* and terminates it.
THEOREM StoppedThreadsAreStill == Spec => []StoppedIsStill
<1>1. Inv => StoppedIsStill
  BY DEF Inv
<1> QED
  BY <1>1, Invariance, PTL
=============================================================================
