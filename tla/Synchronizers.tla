--------------------------- MODULE Synchronizers ---------------------------
(* What threads share (src/src/libthr.scm): a mutex, an atom, a semaphore, a   *)
(* latch or a barrier.  Each of the last three is a counter with a mutex and a *)
(* condition variable of its own.  A behaviour is about one object, the kind   *)
(* of which is chosen in the beginning.                                        *)
(*                                                                             *)
(* What a thread does between taking the mutex and giving it back is one step, *)
(* unless it gives it back in between.  It may be terminated before that step, *)
(* after it, and in its sleep.                                                 *)
EXTENDS Mutex, Integers, Sequences

CONSTANTS
    Threads,
    MaxCalls,        \* bound: per thread, its calls
    MaxSpurious,     \* bound: wake-ups for no reason
    InitialTokens,   \* the count a semaphore is made with; may be negative
    InitialLatch,    \* the count a latch is made with
    Threshold,       \* of the barrier
    Impatient,       \* the threads that give a timeout wherever they can
    Mortal           \* the threads that may be terminated

ASSUME SynchronizersAssumption ==
    /\ IsFiniteSet(Threads)
    /\ MaxCalls \in [Threads -> Nat] /\ MaxSpurious \in Nat /\ InitialTokens \in Int
    /\ InitialLatch \in Nat \ {0} /\ Threshold \in Nat \ {0}
    /\ Impatient \subseteq Threads /\ Mortal \subseteq Threads /\ NoThread \notin Threads

VARIABLES
    kind,        \* of the object
    count, generation, broken,   \* its slots
    call,        \* per thread, the operation in progress
    calls,       \* per thread, the calls made
    spurious,    \* wake-ups for no reason so far
    acquired, released,          \* tokens, all in all
    arrived,     \* how many threads have come to the barrier, generation by generation
    resets       \* barrier-reset! calls

objectVars == <<kind, count, generation, broken, acquired, released, arrived, resets>>
vars == <<mutexVars, dead, objectVars, call, calls, spurious>>

Kinds == {"mutex", "atom", "semaphore", "latch", "barrier", "barrier with action"}
IsBarrier == kind \in {"barrier", "barrier with action"}
Operations(k) ==
    CASE k = "mutex" -> {"lock"}
      [] k = "atom" -> {"update"}
      [] k = "semaphore" -> {"acquire", "release", "release2"}
      [] k = "latch" -> {"dec", "dec2", "clear", "await"}
      [] OTHER -> {"barrier-await", "reset"}
WithTimeout == {"lock", "update", "acquire", "await", "barrier-await"}

\* An operation in progress: at is the next step, timed whether it was given a
\* timeout; gen and place are variables of barrier-await (gen -1: the first time).
NoCall == [op |-> "none", at |-> "idle", timed |-> FALSE, gen |-> -1, place |-> 0]

At(t, label) == call[t].at = label /\ MayRun(t)
Goto(t, label) == call' = [call EXCEPT ![t].at = label]
Return(t) == call' = [call EXCEPT ![t] = NoCall]

\* The threads that have come in generation g, the first of which is 0.
Arrived(g) == arrived[g + 1]

-----------------------------------------------------------------------------
(* mutex-lock! and mutex-unlock!.                                              *)

Call(t, op) ==
    /\ At(t, "idle") /\ owner # t
    /\ calls[t] < MaxCalls[t]
    /\ calls' = [calls EXCEPT ![t] = @ + 1]
    /\ call' = [call EXCEPT ![t] = [NoCall EXCEPT !.op = op, !.at = "mutex-lock!",
                                                  !.timed = t \in Impatient /\ op \in WithTimeout]]
    /\ UNCHANGED <<mutexVars, dead, objectVars, spurious>>

\* The mutex is taken; mutex-lock! returns, or the body of the operation begins.
Take(t) ==
    /\ At(t, "mutex-lock!")
    /\ LockTake(t)
    /\ IF call[t].op = "lock" THEN Return(t) ELSE Goto(t, "body")
    /\ UNCHANGED <<dead, objectVars, calls, spurious>>

\* mutex-lock! raises an <abandoned-mutex-exception>, and the thread has the mutex;
\* the unwind-protect of an atom gives it back.
TakeAbandoned(t) ==
    /\ At(t, "mutex-lock!")
    /\ LockTakeAbandoned(t)
    /\ IF kind = "atom" THEN Goto(t, "mutex-unlock!") ELSE Return(t)
    /\ UNCHANGED <<dead, objectVars, calls, spurious>>

Sleep(t) ==
    /\ At(t, "mutex-lock!")
    /\ LockSleep(t)
    /\ UNCHANGED <<dead, objectVars, call, calls, spurious>>

\* Only mutex-lock! itself and that of an atom is given a timeout; the atom gives
\* the mutex back only if it has it.
TimeoutLock(t) ==
    /\ call[t].op \in {"lock", "update"} /\ call[t].timed /\ t \notin dead
    /\ LockTimeout(t)
    /\ Return(t)
    /\ UNCHANGED <<dead, objectVars, calls, spurious>>

\* mutex-unlock! by a program that has the mutex.
MutexUnlock(t) ==
    /\ kind = "mutex" /\ At(t, "idle") /\ owner = t
    /\ UnlockOnly
    /\ UNCHANGED <<dead, objectVars, call, calls, spurious>>

\* mutex-unlock! at the end of an operation.
Finish(t) ==
    /\ At(t, "mutex-unlock!")
    /\ UnlockOnly
    /\ Return(t)
    /\ UNCHANGED <<dead, objectVars, calls, spurious>>

\* Woken up from the condition variable: everything from the beginning.
Woken(t) ==
    /\ At(t, "asleep")
    /\ Goto(t, "mutex-lock!")
    /\ UNCHANGED <<mutexVars, dead, objectVars, calls, spurious>>

\* The operation gives the mutex back and sleeps on the condition variable.
Wait(t) == UnlockWait(t) /\ Goto(t, "asleep")

Body(t, op) == At(t, "body") /\ call[t].op = op

\* atomic and atomic-update!: the procedure returns, or raises an error, and the
\* mutex is given back.
Apply(t) ==
    /\ Body(t, "update")
    /\ Goto(t, "mutex-unlock!")
    /\ UNCHANGED <<mutexVars, dead, objectVars, calls, spurious>>

-----------------------------------------------------------------------------
(* Semaphores.                                                                 *)

Acquire(t) ==
    /\ Body(t, "acquire")
    /\ IF count > 0
       THEN /\ count' = count - 1 /\ acquired' = acquired + 1
            /\ Goto(t, "mutex-unlock!")
            /\ UNCHANGED mutexVars
       ELSE Wait(t) /\ UNCHANGED <<count, acquired>>
    /\ UNCHANGED <<dead, kind, generation, broken, released, arrived, resets, calls,
                   spurious>>

\* (Mutant of Notify: one waiter is woken for any number of tokens.)
NotifyOne(n) == IF count + n > 0 THEN CvSignal ELSE UNCHANGED mutexVars

\* A waiter is woken for one token, everybody for more; nobody while there are none.
Notify(n) ==
    IF count + n > 0 THEN IF n = 1 THEN CvSignal ELSE CvBroadcast ELSE UNCHANGED mutexVars

Release(t, n) ==
    /\ Body(t, IF n = 1 THEN "release" ELSE "release2")
    /\ count' = count + n /\ released' = released + n
    /\ Notify(n)
    /\ Goto(t, "mutex-unlock!")
    /\ UNCHANGED <<dead, kind, generation, broken, acquired, arrived, resets, calls,
                   spurious>>

-----------------------------------------------------------------------------
(* Latches.                                                                    *)

\* (Mutant of LatchDec: only who takes the count to exactly 0 wakes the others.)
LatchDecToZero(t, n) ==
    /\ Body(t, IF n = 1 THEN "dec" ELSE "dec2")
    /\ IF count > 0
       THEN count' = count - n /\ (IF count = n THEN CvBroadcast ELSE UNCHANGED mutexVars)
       ELSE UNCHANGED <<count, mutexVars>>
    /\ Goto(t, "mutex-unlock!")
    /\ UNCHANGED <<dead, kind, generation, broken, acquired, released, arrived,
                   resets, calls, spurious>>

\* latch-dec! by n: an open latch stays as it is, and the count may fall below 0.
LatchDec(t, n) ==
    /\ Body(t, IF n = 1 THEN "dec" ELSE "dec2")
    /\ IF count > 0
       THEN count' = count - n /\ (IF count <= n THEN CvBroadcast ELSE UNCHANGED mutexVars)
       ELSE UNCHANGED <<count, mutexVars>>
    /\ Goto(t, "mutex-unlock!")
    /\ UNCHANGED <<dead, kind, generation, broken, acquired, released, arrived,
                   resets, calls, spurious>>

LatchClear(t) ==
    /\ Body(t, "clear")
    /\ IF count # 0 THEN count' = 0 /\ CvBroadcast ELSE UNCHANGED <<count, mutexVars>>
    /\ Goto(t, "mutex-unlock!")
    /\ UNCHANGED <<dead, kind, generation, broken, acquired, released, arrived,
                   resets, calls, spurious>>

LatchAwait(t) ==
    /\ Body(t, "await")
    /\ IF count <= 0 THEN Goto(t, "mutex-unlock!") /\ UNCHANGED mutexVars ELSE Wait(t)
    /\ UNCHANGED <<dead, objectVars, calls, spurious>>

\* latch-await and semaphore-acquire! return timeout-val; barrier-await has to
\* break the barrier.
TimeoutWait(t) ==
    /\ call[t].timed /\ t \notin dead
    /\ CvTimeout(t)
    /\ IF IsBarrier
       THEN call' = [call EXCEPT ![t].at = "mutex-lock!", ![t].op = "break"]
       ELSE Return(t)
    /\ UNCHANGED <<dead, objectVars, calls, spurious>>

-----------------------------------------------------------------------------
(* Barriers.                                                                   *)

Reset(t) ==
    /\ Body(t, "reset")
    /\ broken' = FALSE /\ generation' = generation + 1 /\ count' = 0
    /\ resets' = resets + 1 /\ arrived' = Append(arrived, 0)
    /\ CvBroadcast
    /\ Goto(t, "mutex-unlock!")
    /\ UNCHANGED <<dead, kind, acquired, released, calls, spurious>>

\* The first time a thread is counted, and gets its generation and its place.
Arrive(t) ==
    /\ Body(t, "barrier-await") /\ call[t].gen = -1
    /\ count' = count + 1
    /\ arrived' = [arrived EXCEPT ![generation + 1] = @ + 1]
    /\ call' = [call EXCEPT ![t].gen = generation, ![t].place = Threshold - (count + 1)]
    /\ UNCHANGED <<mutexVars, dead, kind, generation, broken, acquired, released,
                   resets, calls, spurious>>

\* (Mutant of IsLast: who comes after the last one is the last one, too.)
IsLastOrLater(t) == call[t].place <= 0

IsLast(t) == call[t].place = 0

\* Broken, or the generation is over: the operation ends.  The last one lets
\* everybody go, after the action if there is one.  The others wait.
BarrierAwait(t) ==
    /\ Body(t, "barrier-await") /\ call[t].gen >= 0
    /\ IF broken \/ call[t].gen < generation
       THEN Goto(t, "mutex-unlock!") /\ UNCHANGED mutexVars
       ELSE IF ~IsLast(t) THEN Wait(t)
       ELSE IF kind = "barrier with action" THEN UnlockOnly /\ Goto(t, "action")
       ELSE Goto(t, "let-go") /\ UNCHANGED mutexVars
    /\ UNCHANGED <<dead, objectVars, calls, spurious>>

\* The action returns, or raises an error: broken is set without the mutex.
RunAction(t) ==
    /\ At(t, "action")
    /\ broken' \in {broken, TRUE}
    /\ call' = [call EXCEPT ![t].at = "mutex-lock!", ![t].op = "let-go"]
    /\ UNCHANGED <<mutexVars, dead, kind, count, generation, acquired, released,
                   arrived, resets, calls, spurious>>

LetGo(t) ==
    /\ At(t, "let-go") \/ Body(t, "let-go")
    /\ count' = 0 /\ generation' = generation + 1 /\ arrived' = Append(arrived, 0)
    /\ CvBroadcast
    /\ Goto(t, "mutex-unlock!")
    /\ UNCHANGED <<dead, kind, broken, acquired, released, resets, calls, spurious>>

\* After a timeout the barrier is broken, whatever has happened meanwhile.
Break(t) ==
    /\ Body(t, "break")
    /\ broken' = TRUE
    /\ CvBroadcast
    /\ Goto(t, "mutex-unlock!")
    /\ UNCHANGED <<dead, kind, count, generation, acquired, released, arrived,
                   resets, calls, spurious>>

-----------------------------------------------------------------------------
Terminate(t) ==
    /\ t \in Mortal \ dead
    /\ call[t].at # "mutex-lock!" \/ t \in lockWait
    /\ Die(t)
    /\ UNCHANGED <<objectVars, call, calls, spurious>>

WakeUp(t) ==
    /\ t \notin dead
    /\ spurious < MaxSpurious
    /\ spurious' = spurious + 1
    /\ Spurious(t)
    /\ UNCHANGED <<dead, objectVars, call, calls>>

Init ==
    /\ kind \in Kinds
    /\ locked = FALSE /\ owner = NoThread
    /\ lockWait = {} /\ cvWait = {} /\ dead = {}
    /\ count = CASE kind = "semaphore" -> InitialTokens [] kind = "latch" -> InitialLatch
                 [] OTHER -> 0
    /\ generation = 0 /\ broken = FALSE
    /\ call = [t \in Threads |-> NoCall]
    /\ calls = [t \in Threads |-> 0]
    /\ acquired = 0 /\ released = 0 /\ resets = 0 /\ spurious = 0
    /\ arrived = <<0>>

Step(t) ==
    \/ Take(t) \/ TakeAbandoned(t) \/ Sleep(t)
    \/ MutexUnlock(t) \/ Finish(t) \/ Woken(t) \/ Apply(t)
    \/ Acquire(t) \/ Release(t, 1) \/ Release(t, 2)
    \/ LatchDec(t, 1) \/ LatchDec(t, 2) \/ LatchClear(t) \/ LatchAwait(t)
    \/ Reset(t) \/ Arrive(t) \/ BarrierAwait(t) \/ RunAction(t) \/ LetGo(t) \/ Break(t)

Next ==
    \E t \in Threads :
        \/ \E op \in Operations(kind) : Call(t, op)
        \/ Step(t)
        \/ TimeoutLock(t) \/ TimeoutWait(t)
        \/ Terminate(t) \/ WakeUp(t)

Spec == Init /\ [][Next]_vars

\* A thread that can run runs, and programs give mutexes back that they have
\* locked; no timeout has to come, and nobody has to make a call.
FairSpec == Spec /\ \A t \in Threads : WF_vars(Step(t))

-----------------------------------------------------------------------------
(* Properties.                                                                 *)

\* The type invariant of the synchronizers.
TypeOK ==
    /\ locked \in BOOLEAN /\ owner \in Threads \cup {NoThread}
    /\ locked <=> owner # NoThread
    /\ lockWait \cap cvWait = {} /\ (lockWait \cup cvWait) \subseteq Threads \ dead
    /\ count \in Int /\ generation \in Nat /\ broken \in BOOLEAN
    /\ \A t \in Threads : call[t].gen \in -1..generation

\* Inside the mutex: an operation that has taken it, or a program.
Inside(t) ==
    \/ call[t].at \in {"body", "let-go", "mutex-unlock!"}
    \/ call[t].at = "idle" /\ owner = t

\* At most one thread that is alive is inside, and it is the owner: whatever
\* timeouts, wake-ups, signals and takeovers of abandoned mutexes come together.
MutexExclusive == \A t \in Threads \ dead : Inside(t) => owner = t

\* Nobody sleeps at the mutex while it is free, unless somebody who is awake is
\* about to take it (and will signal in turn).
LockSleepersWake ==
    lockWait # {} => locked \/ \E t \in Threads : At(t, "mutex-lock!")

\* The operations of the object that are on their way to look at its state.
OnTheWay(op) ==
    \E t \in Threads \ dead :
        call[t].op = op /\ t \notin cvWait /\ call[t].at \in {"asleep", "mutex-lock!", "body"}

\* No token is made or lost, and nobody sleeps at a semaphore that has one unless
\* somebody else is awake to take it; a waiter that is terminated when it has just
\* been woken takes the wake-up with it.
SemaphoreExact ==
    kind = "semaphore" =>
        /\ count = InitialTokens + released - acquired
        /\ count < 0 => acquired = 0
        /\ count > 0 /\ cvWait # {} /\ dead = {} => OnTheWay("acquire")

\* Nobody sleeps at an open latch.
LatchWakes == kind = "latch" /\ count <= 0 => cvWait = {}

\* Who sleeps at the barrier waits for the present generation, and the barrier
\* is not broken, unless by the action of the last thread, which will wake all
\* (if it does not find the mutex abandoned by a terminated thread).
BarrierWakes ==
    IsBarrier =>
        \A t \in cvWait :
            /\ call[t].gen = generation
            /\ broken /\ dead = {} => \E u \in Threads : call[u].op = "let-go"

\* Nobody is forgotten asleep: not at a mutex that is free, not at a latch that is
\* open, not at a barrier that has let the others go or is broken.
SleepersWake == LockSleepersWake /\ LatchWakes /\ BarrierWakes

\* Leaves the barrier with a place, and not with timeout-val.
Leaves(t) ==
    /\ call[t].op \in {"barrier-await", "let-go"} /\ call[t].at = "mutex-unlock!"
    /\ call[t].gen >= 0 /\ call[t].gen < generation /\ ~broken

\* Nobody leaves the barrier before as many threads as the threshold says have
\* come to it in this generation, as long as nobody resets the barrier.
BarrierTogether ==
    \A t \in Threads :
        Leaves(t) /\ resets = 0 => Arrived(call[t].gen) >= Threshold

\* Every call ends or sleeps on the condition variable for a reason that the
\* invariants above give, unless the mutex is kept by a thread that is terminated
\* or that has been left with it by an exception.
CallsEnd ==
    \A t \in Threads :
        call[t].op # "none" ~>
            \/ call[t].op = "none" \/ t \in cvWait \cup dead
            \/ locked /\ (owner \in dead \/ call[owner].op = "none")
=============================================================================
