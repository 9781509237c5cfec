------------------------------- MODULE Mutex -------------------------------
(* A <mutex> and a <condition-variable> of Gauche (src/src/mutex.c): the       *)
(* Scheme-level lock, taken over from an owner that is terminated, and the two *)
(* system-level condition variables that threads sleep on.                     *)
(*                                                                             *)
(* Everything happens under the internal mutex of the <mutex>, which only the  *)
(* waits let go, so every operator below is one step.  Whom a signal wakes is  *)
(* the system's choice, and a sleeper may wake up for no reason.               *)
EXTENDS Naturals, FiniteSets

CONSTANT NoThread

VARIABLES
    locked, owner,   \* the slots of the mutex
    lockWait,        \* the threads asleep on mutex->cv
    cvWait,          \* the threads asleep on the condition variable
    dead             \* the threads in the state TERMINATED

mutexVars == <<locked, owner, lockWait, cvWait>>

-----------------------------------------------------------------------------
(* Condition variables of the system.                                          *)

\* pthread_cond_signal: who is still asleep afterwards.
CondSignal(waiting) ==
    IF waiting = {} THEN {{}} ELSE {waiting \ {t} : t \in waiting}

-----------------------------------------------------------------------------
(* Scm_MutexLock.                                                              *)

MayRun(t) == t \notin lockWait \cup cvWait \cup dead

\* (Mutant of LockTake: a woken thread does not look at the lock again.)
LockTakeAnyway(t) ==
    /\ MayRun(t) /\ (locked => owner \notin dead)
    /\ locked' = TRUE /\ owner' = t
    /\ UNCHANGED <<lockWait, cvWait>>

\* The lock is free.
LockTake(t) ==
    /\ MayRun(t) /\ ~locked
    /\ locked' = TRUE /\ owner' = t
    /\ UNCHANGED <<lockWait, cvWait>>

\* The owner is terminated: the lock is taken, and an exception raised.
LockTakeAbandoned(t) ==
    /\ MayRun(t) /\ locked /\ owner \in dead
    /\ owner' = t
    /\ UNCHANGED <<locked, lockWait, cvWait>>

\* Somebody else has the lock, or the thread itself: it sleeps.
LockSleep(t) ==
    /\ MayRun(t) /\ locked /\ owner \notin dead
    /\ lockWait' = lockWait \cup {t}
    /\ UNCHANGED <<locked, owner, cvWait>>

\* The wait for the lock times out: #f, without another look at the lock.
LockTimeout(t) ==
    /\ t \in lockWait
    /\ lockWait' = lockWait \ {t}
    /\ UNCHANGED <<locked, owner, cvWait>>

-----------------------------------------------------------------------------
(* Scm_MutexUnlock; the lock is released whoever has it.                       *)

Unlock ==
    /\ locked' = FALSE /\ owner' = NoThread
    /\ lockWait' \in CondSignal(lockWait)

UnlockOnly == Unlock /\ UNCHANGED cvWait

\* (Mutant of UnlockWait: the thread does not sleep.)
UnlockNoWait(t) == Unlock /\ UNCHANGED cvWait

\* With a condition variable: the thread is asleep when the lock is free.
UnlockWait(t) == Unlock /\ cvWait' = cvWait \cup {t}

CvTimeout(t) ==
    /\ t \in cvWait
    /\ cvWait' = cvWait \ {t}
    /\ UNCHANGED <<locked, owner, lockWait>>

\* Scm_ConditionVariableSignal and Scm_ConditionVariableBroadcast.
CvSignal == cvWait' \in CondSignal(cvWait) /\ UNCHANGED <<locked, owner, lockWait>>
CvBroadcast == cvWait' = {} /\ UNCHANGED <<locked, owner, lockWait>>

\* A sleeper wakes up for no reason.
Spurious(t) ==
    /\ t \in lockWait \cup cvWait
    /\ lockWait' = lockWait \ {t}
    /\ cvWait' = cvWait \ {t}
    /\ UNCHANGED <<locked, owner>>

\* A thread that is terminated in its sleep leaves, and the cleanup handler of
\* SCM_INTERNAL_MUTEX_SAFE_LOCK_BEGIN releases the internal mutex.
Die(t) ==
    /\ dead' = dead \cup {t}
    /\ lockWait' = lockWait \ {t}
    /\ cvWait' = cvWait \ {t}
    /\ UNCHANGED <<locked, owner>>
=============================================================================
