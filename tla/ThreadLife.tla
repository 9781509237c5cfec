---------------------------- MODULE ThreadLife ----------------------------
(* The life cycle of a Scheme thread (src/src/thread.c): thread-start!,        *)
(* thread-join!, thread-stop!, thread-cont!, thread-terminate! and             *)
(* thread-schedule-terminate! on one side, and on the other side the thread    *)
(* that these are about, which looks for requests at safe points of the VM     *)
(* loop (process_queued_requests, src/src/vm.c).                               *)
(*                                                                             *)
(* A VM has a lock, vmlock, and a condition variable, cond, for its state.     *)
(* What a routine does between taking vmlock and releasing it, or waiting on   *)
(* cond, is one action, but for the two stores that make a request: the thread *)
(* they are for reads both without the lock, so it may come in between.  How   *)
(* long anything takes is left open, so a timeout may be reached at any time.  *)
EXTENDS Naturals, FiniteSets

CONSTANTS
    Threads,      \* the VMs
    Primordial,   \* the VMs that run from the beginning and never end
    MayCall,      \* the <<caller, operation, target>> that happen
    NoThread      \* NULL, in the inspector and canceller slots

Ops == {"start", "join", "join-timeout", "stop", "stop-timeout", "cont",
        "terminate", "schedule-terminate"}

ASSUME ThreadAssumption ==
    /\ Primordial \subseteq Threads
    /\ MayCall \subseteq Threads \X Ops \X Threads
    /\ NoThread \notin Threads

VARIABLES
    state,       \* vm->state
    inspector,   \* vm->inspector
    canceller,   \* vm->canceller
    stopRequest, \* vm->stopRequest
    attention,   \* vm->attentionRequest
    sigcount,    \* vm->sigq.sigcounts[GAUCHE_PTHREAD_SIGNAL]
    result,      \* vm->result: has the thunk returned a value?
    exception,   \* vm->resultException
    joinCount,   \* vm->joinCount, as far as "more than once" goes
    pos,         \* where the system thread of the VM is
    on,          \* the VM whose cond a thread waits on
    asleep,      \* the threads in a COND_WAIT that nobody has notified yet
    sent,        \* the GAUCHE_PTHREAD_SIGNALs on their way to a thread
    orphaned,    \* the VMs whose vmlock an exited thread has left locked
    got,         \* what the last thread-join! of a thread came back with
    revived      \* history: the threads thread-cont! made runnable after their end

ownerVars == <<inspector, canceller, revived>>
requestVars == <<stopRequest, attention>>
outcomeVars == <<result, exception, joinCount>>
vmVars == <<state, ownerVars, requestVars, outcomeVars>>
waitVars == <<pos, on, asleep>>
outsideVars == <<sigcount, sent, orphaned, got>>
vars == <<vmVars, waitVars, outsideVars>>

\* A thread waits inside thread-join!, thread-stop! or, in one of the three
\* calls of wait_for_termination, inside thread-terminate!; with a timeout or not.
Joining == {"join", "join-timeout"}
Stopping == {"stop", "stop-timeout"}
Killing == {"kill1", "kill2", "kill3"}
Waiting == Joining \cup Stopping \cup Killing

\* A thread that is inside thread-stop!, thread-terminate! or
\* thread-schedule-terminate!, between the two stores of its request.
AskingToStop == {"ask-stop", "ask-stop-timeout"}
AskingToEnd == {"ask-terminate", "ask-schedule"}
Asking == AskingToStop \cup AskingToEnd

\* A system thread: not there yet, created but not attached to its VM, in the VM
\* loop, in process_queued_requests, suspended there, asking, waiting, in its
\* cleanup handler, and no longer there.
Positions == {"none", "created", "run", "attend", "obey", "suspended", "exit", "gone"}
                 \cup Asking \cup Waiting

-----------------------------------------------------------------------------
(* Building blocks.                                                            *)

\* Somebody is between the two stores of a request to u, with its vmlock.
Asked(u) == \E t \in Threads : pos[t] \in Asking /\ on[t] = u

\* The vmlock of u can be taken.
Lockable(u) == u \notin orphaned /\ ~Asked(u)

\* COND_BROADCAST(u->cond): of those who wait on it, the suspended thread u
\* itself included, nobody is asleep.
Woken(u) == {t \in asleep : on[t] = u}

\* Thread t goes back to Scheme code.
Return(t) ==
    /\ pos' = [pos EXCEPT ![t] = "run"]
    /\ on' = [on EXCEPT ![t] = NoThread]

\* Thread t waits at p on the cond of u; the threads in woken have been notified.
WaitOn(t, p, u, woken) ==
    /\ pos' = [pos EXCEPT ![t] = p]
    /\ on' = [on EXCEPT ![t] = u]
    /\ asleep' = (asleep \ woken) \cup {t}

\* (Mutant of Store: the request is stored after the flag.)
StoreFlagFirst(n, u, r) ==
    \/ n = 2 /\ stopRequest' = [stopRequest EXCEPT ![u] = r] /\ UNCHANGED attention
    \/ n = 1 /\ attention' = [attention EXCEPT ![u] = TRUE] /\ UNCHANGED stopRequest

\* The first and the second store of the request r to u: stopRequest, and then
\* the flag by which the VM loop of u notices it.
Store(n, u, r) ==
    \/ n = 1 /\ stopRequest' = [stopRequest EXCEPT ![u] = r] /\ UNCHANGED attention
    \/ n = 2 /\ attention' = [attention EXCEPT ![u] = TRUE] /\ UNCHANGED stopRequest

\* Thread t, in thread-stop! of u, waits until the state is STOPPED; p is where.
AwaitStop(t, p, u) ==
    \/ state[u] = "stopped" /\ Return(t) /\ UNCHANGED asleep
    \/ state[u] # "stopped" /\ WaitOn(t, p, u, {})

\* (Mutant of CleanupInner: no COND_BROADCAST.)
CleanupInnerSilent(u, c) ==
    /\ state' = [state EXCEPT ![u] = "terminated"]
    /\ exception' = IF c = NoThread THEN exception
                    ELSE [exception EXCEPT ![u] = "terminated"]
    /\ asleep' = asleep

\* thread_cleanup_inner, with the canceller c.
CleanupInner(u, c) ==
    /\ state' = [state EXCEPT ![u] = "terminated"]
    /\ exception' = IF c = NoThread THEN exception
                    ELSE [exception EXCEPT ![u] = "terminated"]
    /\ asleep' = asleep \ Woken(u)

-----------------------------------------------------------------------------
(* The thread itself.                                                          *)

\* thread_entry: Scm_AttachVM makes the VM runnable, without taking vmlock, or
\* fails, and the thread ends with an error.
Attach(u) ==
    /\ pos[u] = "created"
    /\ \/ /\ state' = [state EXCEPT ![u] = "runnable"]
          /\ pos' = [pos EXCEPT ![u] = "run"]
          /\ UNCHANGED exception
       \/ /\ exception' = [exception EXCEPT ![u] = "error"]
          /\ pos' = [pos EXCEPT ![u] = "exit"]
          /\ UNCHANGED state
    /\ UNCHANGED <<result, joinCount, on, asleep, outsideVars, requestVars, ownerVars>>

\* The thunk returns, or ends with an uncaught exception or with an error about a
\* stale continuation.
Finish(u) ==
    /\ pos[u] = "run"
    /\ u \notin Primordial
    /\ pos' = [pos EXCEPT ![u] = "exit"]
    /\ \/ result' = [result EXCEPT ![u] = TRUE] /\ UNCHANGED exception
       \/ /\ \E e \in {"uncaught", "error"} : exception' = [exception EXCEPT ![u] = e]
          /\ UNCHANGED result
    /\ UNCHANGED <<state, joinCount, on, asleep, outsideVars, requestVars, ownerVars>>

\* The handler of pthread_cleanup_push: thread_cleanup.
Cleanup(u) ==
    /\ pos[u] = "exit"
    /\ Lockable(u)
    /\ CleanupInner(u, canceller[u])
    /\ pos' = [pos EXCEPT ![u] = "gone"]
    /\ UNCHANGED <<result, joinCount, on, outsideVars, requestVars, ownerVars>>

\* A safe point of the VM loop finds attentionRequest on, and turns it off before
\* it looks at what the request is.
TurnOffAttention(u) ==
    /\ pos[u] = "run"
    /\ attention[u]
    /\ attention' = [attention EXCEPT ![u] = FALSE]
    /\ pos' = [pos EXCEPT ![u] = "attend"]
    /\ UNCHANGED <<state, stopRequest, on, asleep, outsideVars, outcomeVars, ownerVars>>

\* process_queued_requests, after it has turned attentionRequest off and before
\* it takes vmlock: Scm_SigCheck exits if the termination signal has come.
Attend(u) ==
    /\ pos[u] = "attend"
    /\ pos' = [pos EXCEPT ![u] = IF sigcount[u] > 0 THEN "exit"
                                 ELSE IF stopRequest[u] = "none" THEN "run"
                                 ELSE "obey"]
    /\ sigcount' = [sigcount EXCEPT ![u] = 0]
    /\ UNCHANGED <<on, asleep, sent, orphaned, got, vmVars>>

\* The request has been taken back before the thread got vmlock.
NothingRequested(u) ==
    /\ stopRequest[u] = "none"
    /\ pos' = [pos EXCEPT ![u] = IF state[u] = "terminated" THEN "exit" ELSE "run"]
    /\ UNCHANGED <<state, stopRequest, on, asleep>>

\* SCM_VM_REQUEST_SUSPEND: the thread tells the inspector and waits.
Suspend(u) ==
    /\ stopRequest[u] = "suspend"
    /\ stopRequest' = [stopRequest EXCEPT ![u] = "none"]
    /\ state' = [state EXCEPT ![u] = "stopped"]
    /\ WaitOn(u, "suspended", u, Woken(u))

\* SCM_VM_REQUEST_TERMINATE: the thread exits; cond is left to thread_cleanup.
ObeyTermination(u) ==
    /\ stopRequest[u] = "terminate"
    /\ state' = [state EXCEPT ![u] = "terminated"]
    /\ pos' = [pos EXCEPT ![u] = "exit"]
    /\ UNCHANGED <<stopRequest, on, asleep>>

\* process_queued_requests, with vmlock.
Obey(u) ==
    /\ pos[u] = "obey"
    /\ Lockable(u)
    /\ NothingRequested(u) \/ Suspend(u) \/ ObeyTermination(u)
    /\ UNCHANGED <<attention, outsideVars, outcomeVars, ownerVars>>

\* (Mutant of Resume: the state is looked at once.)
ResumeOnce(u) ==
    /\ pos[u] = "suspended"
    /\ u \notin asleep
    /\ Lockable(u)
    /\ pos' = [pos EXCEPT ![u] = IF state[u] = "terminated" THEN "exit" ELSE "run"]
    /\ on' = [on EXCEPT ![u] = NoThread]
    /\ UNCHANGED <<asleep, vmVars, outsideVars>>

\* A suspended thread has been woken: it waits again, runs, or exits.
Resume(u) ==
    /\ pos[u] = "suspended"
    /\ u \notin asleep
    /\ Lockable(u)
    /\ \/ state[u] = "stopped" /\ WaitOn(u, "suspended", u, {})
       \/ /\ state[u] # "stopped"
          /\ pos' = [pos EXCEPT ![u] = IF state[u] = "terminated" THEN "exit" ELSE "run"]
          /\ on' = [on EXCEPT ![u] = NoThread]
          /\ UNCHANGED asleep
    /\ UNCHANGED <<vmVars, outsideVars>>

\* A condition variable may wake up a thread that nobody has notified.
SpuriousWakeup(t) ==
    /\ t \in asleep
    /\ asleep' = asleep \ {t}
    /\ UNCHANGED <<pos, on, vmVars, outsideVars>>

\* What sig_handle finds when the termination signal comes: no VM before the
\* thread is attached, and in the cleanup phase nothing that matters any more.
Ignored(u) ==
    /\ pos[u] \in {"created", "exit"}
    /\ UNCHANGED <<attention, sigcount, orphaned, waitVars>>

\* sig_handle, first time: the signal is counted, for Scm_SigCheck to see.
FirstSignal(u) ==
    /\ pos[u] \notin {"created", "exit", "gone"}
    /\ sigcount[u] = 0
    /\ sigcount' = [sigcount EXCEPT ![u] = 1]
    /\ attention' = [attention EXCEPT ![u] = TRUE]
    /\ UNCHANGED <<orphaned, waitVars>>

\* sig_handle, second time: "just quit", wherever the thread is.  A thread that
\* is inside thread-stop! or thread-terminate! has no cleanup handler for the
\* vmlock of the other VM: while it asks it leaves it locked, while it waits it
\* may or may not.
SecondSignal(u) ==
    /\ pos[u] \notin {"created", "exit", "gone"}
    /\ sigcount[u] > 0
    /\ pos' = [pos EXCEPT ![u] = "exit"]
    /\ on' = [on EXCEPT ![u] = NoThread]
    /\ asleep' = asleep \ {u}
    /\ \/ pos[u] \notin Asking /\ UNCHANGED orphaned
       \/ /\ pos[u] \in Asking \cup Stopping \cup Killing
          /\ orphaned' = orphaned \cup {on[u]}
    /\ UNCHANGED <<attention, sigcount>>

\* The termination signal reaches the thread.
Signalled(u) ==
    /\ sent[u] > 0
    /\ sent' = [sent EXCEPT ![u] = @ - 1]
    /\ Ignored(u) \/ FirstSignal(u) \/ SecondSignal(u)
    /\ UNCHANGED <<state, stopRequest, got, outcomeVars, ownerVars>>

-----------------------------------------------------------------------------
(* What other threads do to it.                                                *)

\* Thread t, running Scheme code, calls op on the thread u.
Calls(t, op, u) ==
    /\ <<t, op, u>> \in MayCall
    /\ pos[t] = "run"
    /\ Lockable(u)

\* Scm_ThreadStart; on a thread that is not new it is an error.
ThreadStart(t, u) ==
    /\ Calls(t, "start", u)
    /\ state[u] = "new"
    /\ state' = [state EXCEPT ![u] = "runnable"]
    /\ pos' = [pos EXCEPT ![u] = "created"]
    /\ UNCHANGED <<on, asleep, outsideVars, outcomeVars, requestVars, ownerVars>>

\* What thread-join! of u comes back with: its exception is raised, and cleared;
\* otherwise its result is returned, be there any.
Outcome(u) ==
    IF exception[u] \in {"uncaught", "terminated", "error"} THEN exception[u]
    ELSE IF result[u] THEN "value" ELSE "undefined"

\* The end of Scm_ThreadJoin, timeout reached or not.
EndJoin(t, u, tout) ==
    /\ got' = [got EXCEPT ![t] = IF tout THEN "timeout" ELSE Outcome(u)]
    /\ exception' = IF tout THEN exception ELSE [exception EXCEPT ![u] = "none"]
    /\ joinCount' = [joinCount EXCEPT ![u] = 1]
    /\ Return(t)

\* Scm_ThreadJoin.  It clears the exception when it has waited for u to end.
ThreadJoin(t, u) ==
    \E op \in Joining :
        /\ Calls(t, op, u)
        /\ \/ /\ state[u] = "terminated"
              /\ EndJoin(t, u, FALSE)
              /\ UNCHANGED asleep
           \/ /\ state[u] # "terminated"
              /\ WaitOn(t, op, u, {})
              /\ UNCHANGED <<got, exception, joinCount>>
        /\ UNCHANGED <<state, result, sigcount, sent, orphaned, requestVars, ownerVars>>

\* A joining thread has been woken.
JoinWakes(t) ==
    LET u == on[t]
    IN  /\ pos[t] \in Joining
        /\ t \notin asleep
        /\ Lockable(u)
        /\ \/ /\ state[u] = "terminated"
              /\ EndJoin(t, u, FALSE)
              /\ UNCHANGED asleep
           \/ /\ state[u] # "terminated"
              /\ WaitOn(t, pos[t], u, {})
              /\ UNCHANGED <<got, exception, joinCount>>
        /\ UNCHANGED <<state, result, sigcount, sent, orphaned, requestVars, ownerVars>>

\* A joining thread has reached its timeout.
JoinTimesOut(t) ==
    LET u == on[t]
    IN  /\ pos[t] = "join-timeout"
        /\ Lockable(u)
        /\ EndJoin(t, u, TRUE)
        /\ asleep' = asleep \ {t}
        /\ UNCHANGED <<state, result, sigcount, sent, orphaned, requestVars, ownerVars>>

\* Somebody else has stopped u, or is going to.
TakenByOther(t, u) ==
    /\ inspector[u] \notin {NoThread, t}
    /\ state[inspector[u]] # "terminated"

\* Scm_ThreadStop, up to the first store.  The calls that end with an error change
\* nothing.  A thread that stops u once more, after a timeout, does not repeat the
\* request.
ThreadStop(t, u) ==
    \E op \in Stopping :
        /\ Calls(t, op, u)
        /\ state[u] \in {"runnable", "stopped"}
        /\ ~TakenByOther(t, u)
        /\ \/ /\ inspector[u] = t
              /\ AwaitStop(t, op, u)
              /\ UNCHANGED <<inspector, requestVars>>
           \/ /\ inspector[u] # t
              /\ inspector' = [inspector EXCEPT ![u] = t]
              /\ Store(1, u, "suspend")
              /\ pos' = [pos EXCEPT ![t] = IF op = "stop" THEN "ask-stop"
                                           ELSE "ask-stop-timeout"]
              /\ on' = [on EXCEPT ![t] = u]
              /\ UNCHANGED asleep
        /\ UNCHANGED <<state, canceller, revived, outsideVars, outcomeVars>>

\* ... the second store, and on to the wait.
AnnounceStop(t) ==
    /\ pos[t] \in AskingToStop
    /\ Store(2, on[t], "suspend")
    /\ AwaitStop(t, IF pos[t] = "ask-stop" THEN "stop" ELSE "stop-timeout", on[t])
    /\ UNCHANGED <<state, ownerVars, outsideVars, outcomeVars>>

\* A stopping thread has been woken.  It waits on unless u is STOPPED, be it
\* because u is TERMINATED.
StopWakes(t) ==
    /\ pos[t] \in Stopping
    /\ t \notin asleep
    /\ Lockable(on[t])
    /\ AwaitStop(t, pos[t], on[t])
    /\ UNCHANGED <<vmVars, outsideVars>>

\* A stopping thread has reached its timeout; the request stays.
StopTimesOut(t) ==
    /\ pos[t] = "stop-timeout"
    /\ Lockable(on[t])
    /\ Return(t)
    /\ asleep' = asleep \ {t}
    /\ UNCHANGED <<vmVars, outsideVars>>

\* (Mutant of ThreadCont: no COND_BROADCAST.)
ThreadContSilent(t, u) ==
    /\ Calls(t, "cont", u)
    /\ inspector[u] # NoThread
    /\ ~TakenByOther(t, u)
    /\ inspector' = [inspector EXCEPT ![u] = NoThread]
    /\ state' = [state EXCEPT ![u] = "runnable"]
    /\ stopRequest' = [stopRequest EXCEPT ![u] = "none"]
    /\ revived' = IF pos[u] = "gone" THEN revived \cup {u} ELSE revived
    /\ UNCHANGED <<canceller, attention, outsideVars, waitVars, outcomeVars>>

\* Scm_ThreadCont: whatever the state of u, it becomes runnable, even if it has
\* ended, and whatever the request, it is taken back.
ThreadCont(t, u) ==
    /\ Calls(t, "cont", u)
    /\ inspector[u] # NoThread
    /\ ~TakenByOther(t, u)
    /\ inspector' = [inspector EXCEPT ![u] = NoThread]
    /\ state' = [state EXCEPT ![u] = "runnable"]
    /\ stopRequest' = [stopRequest EXCEPT ![u] = "none"]
    /\ asleep' = asleep \ Woken(u)
    /\ revived' = IF pos[u] = "gone" THEN revived \cup {u} ELSE revived
    /\ UNCHANGED <<canceller, attention, pos, on, outsideVars, outcomeVars>>

\* Scm_ThreadTerminate on the calling thread itself: it exits.
TerminateSelf(t) ==
    /\ canceller' = [canceller EXCEPT ![t] = IF @ = NoThread THEN t ELSE @]
    /\ pos' = [pos EXCEPT ![t] = "exit"]
    /\ UNCHANGED <<state, exception, on, asleep, requestVars>>

\* ... on a thread that has not been started: there is just the VM to clean up.
TerminateNew(t, u) ==
    /\ state[u] = "new"
    /\ canceller' = [canceller EXCEPT ![u] = t]
    /\ CleanupInner(u, t)
    /\ UNCHANGED <<pos, on, requestVars>>

\* ... on a thread that runs: the first store of the first request to terminate.
TerminateRunning(t, u, op) ==
    /\ state[u] # "new"
    /\ canceller' = [canceller EXCEPT ![u] = t]
    /\ Store(1, u, "terminate")
    /\ pos' = [pos EXCEPT ![t] = IF op = "terminate" THEN "ask-terminate"
                                 ELSE "ask-schedule"]
    /\ on' = [on EXCEPT ![t] = u]
    /\ UNCHANGED <<state, exception, asleep>>

\* Scm_ThreadTerminate.  It does nothing to a thread that is terminated, or that
\* somebody has called it on before.
ThreadTerminate(t, u) ==
    \E op \in {"terminate", "schedule-terminate"} :
        /\ Calls(t, op, u)
        /\ \/ t = u /\ TerminateSelf(t)
           \/ /\ t # u
              /\ state[u] # "terminated"
              /\ canceller[u] = NoThread
              /\ TerminateNew(t, u) \/ TerminateRunning(t, u, op)
        /\ UNCHANGED <<inspector, revived, result, joinCount, outsideVars>>

\* (Mutant of AnnounceTermination: attentionRequest is not turned on.)
AnnounceTerminationUnnoticed(t) ==
    /\ pos[t] \in AskingToEnd
    /\ \/ pos[t] = "ask-terminate" /\ WaitOn(t, "kill1", on[t], {})
       \/ pos[t] = "ask-schedule" /\ Return(t) /\ UNCHANGED asleep
    /\ UNCHANGED <<vmVars, outsideVars>>

\* ... the second store.  thread-schedule-terminate! leaves it at that.
AnnounceTermination(t) ==
    /\ pos[t] \in AskingToEnd
    /\ Store(2, on[t], "terminate")
    /\ \/ pos[t] = "ask-terminate" /\ WaitOn(t, "kill1", on[t], {})
       \/ pos[t] = "ask-schedule" /\ Return(t) /\ UNCHANGED asleep
    /\ UNCHANGED <<state, ownerVars, outsideVars, outcomeVars>>

\* wait_for_termination: woken up, it is content if the state is TERMINATED.
KillWakes(t) ==
    LET u == on[t]
    IN  /\ pos[t] \in Killing
        /\ t \notin asleep
        /\ Lockable(u)
        /\ \/ state[u] = "terminated" /\ Return(t) /\ UNCHANGED asleep
           \/ state[u] # "terminated" /\ WaitOn(t, pos[t], u, {})
        /\ UNCHANGED <<vmVars, outsideVars>>

\* The time is up, though u may be TERMINATED by now: send the signal once, send
\* it again, and in the end mark the thread as terminated.  A signal sent to a
\* system thread that is gone reaches nobody here; pthread_kill leaves it undefined.
KillTimesOut(t) ==
    LET u == on[t]
    IN  /\ pos[t] \in Killing
        /\ Lockable(u)
        /\ \/ /\ pos[t] # "kill3"
              /\ sent' = [sent EXCEPT ![u] = @ + 1]
              /\ WaitOn(t, IF pos[t] = "kill1" THEN "kill2" ELSE "kill3", u, {})
              /\ UNCHANGED <<state, exception>>
           \/ /\ pos[t] = "kill3"
              /\ CleanupInner(u, canceller[u])
              /\ Return(t)
              /\ UNCHANGED sent
        /\ UNCHANGED <<result, joinCount, sigcount, orphaned, got, requestVars, ownerVars>>

-----------------------------------------------------------------------------
Init ==
    /\ state = [t \in Threads |-> IF t \in Primordial THEN "runnable" ELSE "new"]
    /\ inspector = [t \in Threads |-> NoThread]
    /\ canceller = [t \in Threads |-> NoThread]
    /\ stopRequest = [t \in Threads |-> "none"]
    /\ attention = [t \in Threads |-> FALSE]
    /\ sigcount = [t \in Threads |-> 0]
    /\ result = [t \in Threads |-> FALSE]
    /\ exception = [t \in Threads |-> "none"]
    /\ joinCount = [t \in Threads |-> 0]
    /\ pos = [t \in Threads |-> IF t \in Primordial THEN "run" ELSE "none"]
    /\ on = [t \in Threads |-> NoThread]
    /\ asleep = {}
    /\ sent = [t \in Threads |-> 0]
    /\ orphaned = {}
    /\ got = [t \in Threads |-> "none"]
    /\ revived = {}

\* The steps of the thread itself, in the C code and in the VM loop.
Proceed(t) ==
    \/ Attach(t) \/ Cleanup(t)
    \/ TurnOffAttention(t) \/ Attend(t) \/ Obey(t) \/ Resume(t)
    \/ JoinWakes(t) \/ StopWakes(t) \/ KillWakes(t)
    \/ AnnounceStop(t) \/ AnnounceTermination(t)

TimesOut(t) == JoinTimesOut(t) \/ StopTimesOut(t) \/ KillTimesOut(t)

Next ==
    \E t \in Threads :
        \/ Proceed(t) \/ TimesOut(t)
        \/ Finish(t) \/ SpuriousWakeup(t) \/ Signalled(t)
        \/ \E u \in Threads :
               \/ ThreadStart(t, u) \/ ThreadJoin(t, u) \/ ThreadStop(t, u)
               \/ ThreadCont(t, u) \/ ThreadTerminate(t, u)

Spec == Init /\ [][Next]_vars

\* The scheduler runs every thread that can run, and time passes; a signal that
\* has been sent arrives; and a thread that executes Scheme code again and again
\* passes a safe point, for the VM loop has one at every instruction.  Nothing
\* makes a thunk return, or a program call an operation.
FairSpec ==
    /\ Spec
    /\ \A t \in Threads :
           /\ WF_vars(Proceed(t)) /\ WF_vars(TimesOut(t)) /\ WF_vars(Signalled(t))
           /\ SF_vars(TurnOffAttention(t))

-----------------------------------------------------------------------------
(* Properties.                                                                 *)

\* The type invariant of the VMs and of the threads that run them.
TypeOK ==
    /\ state \in [Threads -> {"new", "runnable", "stopped", "terminated"}]
    /\ inspector \in [Threads -> Threads \cup {NoThread}]
    /\ canceller \in [Threads -> Threads \cup {NoThread}]
    /\ stopRequest \in [Threads -> {"none", "suspend", "terminate"}]
    /\ attention \in [Threads -> BOOLEAN]
    /\ sigcount \in [Threads -> 0..1]
    /\ result \in [Threads -> BOOLEAN]
    /\ exception \in [Threads -> {"none", "uncaught", "terminated", "error"}]
    /\ joinCount \in [Threads -> 0..1]
    /\ pos \in [Threads -> Positions]
    /\ on \in [Threads -> Threads \cup {NoThread}]
    /\ asleep \subseteq Threads
    /\ sent \in [Threads -> Nat]
    /\ orphaned \subseteq Threads
    /\ got \in [Threads -> {"none", "uncaught", "terminated", "error", "value",
                            "undefined", "timeout"}]
    /\ revived \subseteq Threads

\* The thread u may still end: it waits to be started, or its system thread is
\* there, with thread_cleanup and its broadcast before it; once its state says
\* TERMINATED, it is on its way there.
EndToCome(u) ==
    \/ state[u] = "new"
    \/ pos[u] = "exit"
    \/ state[u] # "terminated" /\ pos[u] \notin {"none", "gone"}

\* No lost wake-up for thread-join!: who sleeps in it waits for a thread that may
\* still end, unless thread-cont! has made runnable a thread that had ended: its
\* state is not TERMINATED any more, but there is no system thread to notify
\* anybody.
JoinersWake ==
    \A t \in asleep : pos[t] \in Joining => EndToCome(on[t]) \/ on[t] \in revived

\* No lost wake-up for a suspended thread: it sleeps only while its state is
\* STOPPED, whoever makes it runnable, or marks it as terminated.
SuspendedWakes ==
    \A u \in asleep : pos[u] = "suspended" => state[u] = "stopped"

\* A request is never overlooked: while one is pending, the thread that runs
\* Scheme code has its attentionRequest on, though it turns that off without a
\* lock ("it is safe to turn off attentionRequest here", vm.c 3897), or whoever
\* asks has still to turn it on, or was killed before, and left vmlock locked.
RequestNoticed ==
    \A u \in Threads :
        pos[u] = "run" /\ stopRequest[u] # "none"
            => attention[u] \/ Asked(u) \/ u \in orphaned

\* While its state is STOPPED a thread executes no Scheme code, so that its
\* inspector may look at it: it is suspended, or on its way out.
StoppedIsStill ==
    \A u \in Threads : state[u] = "stopped" => pos[u] \in {"suspended", "exit"}

\* The threads with a thunk that nobody ever stops.
Unstopped ==
    {u \in Threads \ Primordial :
        \A t \in Threads, op \in Stopping : <<t, op, u>> \notin MayCall}

\* "as soon as it unblocks and resumes execution of Gauche code, it will see the
\* terminate request and terminate itself": the system thread of a cancelled
\* thread ends, if nobody stops it and nobody exits holding its vmlock.
CancelledEnds ==
    \A u \in Unstopped :
        canceller[u] # NoThread ~> pos[u] \in {"none", "gone"} \/ u \in orphaned

\* "Once a thread is in this state, the state can no longer be changed."
TerminatedForever ==
    [][\A u \in Threads : state[u] = "terminated" => state'[u] = "terminated"]_vars

\* "If thread terminates abnormally, thread-join! raises an exception which is
\* stored in the result exception field": the first thread-join! of a thread
\* tells that it was terminated.
JoinTellsOutcome ==
    [][\A u \in Threads :
           joinCount[u] = 0 /\ joinCount'[u] = 1
               => \A t \in Threads : got'[t] # got[t] => got'[t] # "undefined"]_vars
=============================================================================
