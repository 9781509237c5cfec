------------------------------ MODULE Require ------------------------------
(* `require' and `provide' of Gauche (src/src/load.c 972-1200): several        *)
(* threads load feature files at once, and prov_mutex / prov_cv serialise the  *)
(* bookkeeping in ldinfo.provided, ldinfo.providing and ldinfo.waiting.        *)
(*                                                                             *)
(* One action is one critical section on prov_mutex, together with the code    *)
(* of the same thread up to the next one.  Scm_Load itself is abstracted to    *)
(* what the protocol sees of it: while a file is being loaded its thread may   *)
(* require and provide features, and in the end the load succeeds or fails.    *)
EXTENDS Naturals, Sequences, FiniteSets

CONSTANTS
    Threads,    \* the VMs that call require
    Features,   \* the features, each one naming the file that is loaded for it
    Requires,   \* <<f, g>>: the file of f contains a (require g)
    MaxCalls,   \* bound: require calls per thread
    NoFeature   \* what `waiting' holds for a thread that waits for nothing

ASSUME RequireAssumption ==
    /\ Requires \subseteq Features \X Features
    /\ MaxCalls \in Nat
    /\ NoFeature \notin Features

VARIABLES
    provided,   \* ldinfo.provided: the set of provided features
    providing,  \* ldinfo.providing: alist (feature thread provide-argument ...)
    waiting,    \* ldinfo.waiting: alist (thread . feature), as a function
    asleep,     \* the threads inside COND_WAIT that nobody has notified yet
    stack,      \* per thread, the files in the middle of Scm_Load, innermost first
    calls       \* per thread, the require calls made so far

vars == <<provided, providing, waiting, asleep, stack, calls>>

\* An entry of ldinfo.providing.  Of the arguments that Scm_Provide pushes into
\* the tail of an entry only "is there any" is ever looked at.
Entry == [feature : Features, thread : Threads, explicit : BOOLEAN]

-----------------------------------------------------------------------------
(* The association lists.                                                      *)

\* Scm_Assoc(f, alist) is not #f.
HasKey(f, alist) == \E i \in 1..Len(alist) : alist[i].feature = f

\* The position of the first entry for f.
KeyIndex(f, alist) ==
    CHOOSE i \in 1..Len(alist) :
        /\ alist[i].feature = f
        /\ \A j \in 1..(i - 1) : alist[j].feature # f

\* Scm_AssocDeleteX(f, alist).  There is never more than one entry for a key
\* (part of OneLoader), so it takes out one entry.
AssocDelete(f, alist) ==
    IF HasKey(f, alist)
    THEN [i \in 1..(Len(alist) - 1) |->
             IF i < KeyIndex(f, alist) THEN alist[i] ELSE alist[i + 1]]
    ELSE alist

\* (Mutant of Acons: the entry is pushed at the end.)
AppendEntry(f, t, alist) ==
    alist \o <<[feature |-> f, thread |-> t, explicit |-> FALSE]>>

\* Scm_Acons(f, SCM_LIST1(t), alist).
Acons(f, t, alist) ==
    <<[feature |-> f, thread |-> t, explicit |-> FALSE]>> \o alist

\* The position of the first entry that thread t has made, 0 if there is none.
FirstOf(t, alist) ==
    IF \E i \in 1..Len(alist) : alist[i].thread = t
    THEN CHOOSE i \in 1..Len(alist) :
             /\ alist[i].thread = t
             /\ \A j \in 1..(i - 1) : alist[j].thread # t
    ELSE 0

-----------------------------------------------------------------------------
(* do_require: the check of the three lists, under prov_mutex.                 *)

\* The dependency check for thread t requiring f, which somebody is loading.
\* A thread that requires what it is loading itself is caught.  The inner loop
\* means to follow the chain "the thread loading f waits for g, the thread
\* loading g waits for h, ...", but it looks SCM_CDR(p) up in ldinfo.waiting:
\* the list (thread ...), never eq? to a thread, so Scm_Assq returns #f and the
\* chain ends at its first link.
LoopDetected(t, f) == providing[KeyIndex(f, providing)].thread = t

\* The feature is provided: require returns 0 without loading anything.
AlreadyProvided(t, f) ==
    /\ f \in provided
    /\ waiting' = [waiting EXCEPT ![t] = NoFeature]
    /\ UNCHANGED <<providing, asleep, stack>>

\* Nobody provides it: the calling thread becomes responsible, and calls Scm_Load.
StartLoading(t, f) ==
    /\ f \notin provided
    /\ ~HasKey(f, providing)
    /\ providing' = Acons(f, t, providing)
    /\ stack' = [stack EXCEPT ![t] = <<f>> \o @]
    /\ waiting' = [waiting EXCEPT ![t] = NoFeature]
    /\ UNCHANGED asleep

\* "a loop is detected in the require dependency": an error in the caller.
LoopError(t, f) ==
    /\ f \notin provided
    /\ HasKey(f, providing)
    /\ LoopDetected(t, f)
    /\ waiting' = [waiting EXCEPT ![t] = NoFeature]
    /\ UNCHANGED <<providing, asleep, stack>>

\* Another thread is loading it: COND_WAIT.
WaitForIt(t, f) ==
    /\ f \notin provided
    /\ HasKey(f, providing)
    /\ ~LoopDetected(t, f)
    /\ waiting' = [waiting EXCEPT ![t] = f]
    /\ asleep' = asleep \cup {t}
    /\ UNCHANGED <<providing, stack>>

\* (Mutant of CheckLists: a woken thread leaves the loop and loads the file.)
TrustWakeup(t, f) ==
    /\ IF waiting[t] = NoFeature
       THEN \/ AlreadyProvided(t, f)
            \/ StartLoading(t, f)
            \/ LoopError(t, f)
            \/ WaitForIt(t, f)
       ELSE /\ providing' = Acons(f, t, providing)
            /\ stack' = [stack EXCEPT ![t] = <<f>> \o @]
            /\ waiting' = [waiting EXCEPT ![t] = NoFeature]
            /\ UNCHANGED asleep
    /\ UNCHANGED provided

\* One turn of the for(;;) loop, to the point where prov_mutex is released.
CheckLists(t, f) ==
    /\ \/ AlreadyProvided(t, f)
       \/ StartLoading(t, f)
       \/ LoopError(t, f)
       \/ WaitForIt(t, f)
    /\ UNCHANGED provided

-----------------------------------------------------------------------------
(* The actions.                                                                *)

\* The thread is executing Scheme code: toplevel code or the file it loads.
Running(t) == waiting[t] = NoFeature

\* (require f): from toplevel code of any feature, from a file of what it names.
Require(t, f) ==
    /\ Running(t)
    /\ calls[t] < MaxCalls
    /\ stack[t] # <<>> => <<Head(stack[t]), f>> \in Requires
    /\ calls' = [calls EXCEPT ![t] = @ + 1]
    /\ CheckLists(t, f)

\* COND_WAIT returns: the waiting entry is deleted and the loop goes round.
Resume(t) ==
    /\ ~Running(t)
    /\ t \notin asleep
    /\ CheckLists(t, waiting[t])
    /\ UNCHANGED calls

\* COND_WAIT may return although nobody has notified the condition variable.
SpuriousWakeup(t) ==
    /\ t \in asleep
    /\ asleep' = asleep \ {t}
    /\ UNCHANGED <<provided, providing, waiting, stack, calls>>

\* (provide f), or (provide #f): Scm_Provide.  It notifies one waiter, any one.
Provide(t, f) ==
    /\ Running(t)
    /\ provided' = provided \cup ({f} \ {NoFeature})
    /\ LET k == FirstOf(t, providing)
       IN  providing' = IF k = 0 THEN providing
                        ELSE [providing EXCEPT ![k].explicit = TRUE]
    /\ \/ \E w \in asleep : asleep' = asleep \ {w}
       \/ asleep = {} /\ asleep' = asleep
    /\ UNCHANGED <<waiting, stack, calls>>

\* Scm_Load has returned normally: autoprovide, and wake everybody.
LoadSucceeds(t) ==
    /\ Running(t)
    /\ stack[t] # <<>>
    /\ LET f == Head(stack[t])
       IN  /\ providing' = AssocDelete(f, providing)
           /\ provided' = IF providing[KeyIndex(f, providing)].explicit
                          THEN provided
                          ELSE provided \cup {f}
    /\ stack' = [stack EXCEPT ![t] = Tail(@)]
    /\ asleep' = {}
    /\ UNCHANGED <<waiting, calls>>

\* (Mutant of LoadFails: require_error_cleanup without its COND_BROADCAST.)
LoadFailsSilently(t) ==
    /\ Running(t)
    /\ stack[t] # <<>>
    /\ providing' = AssocDelete(Head(stack[t]), providing)
    /\ stack' = [stack EXCEPT ![t] = Tail(@)]
    /\ UNCHANGED <<provided, waiting, asleep, calls>>

\* Scm_Load has failed: require_error_cleanup.
LoadFails(t) ==
    /\ Running(t)
    /\ stack[t] # <<>>
    /\ providing' = AssocDelete(Head(stack[t]), providing)
    /\ stack' = [stack EXCEPT ![t] = Tail(@)]
    /\ asleep' = {}
    /\ UNCHANGED <<provided, waiting, calls>>

-----------------------------------------------------------------------------
Init ==
    /\ provided = {}
    /\ providing = <<>>
    /\ waiting = [t \in Threads |-> NoFeature]
    /\ asleep = {}
    /\ stack = [t \in Threads |-> <<>>]
    /\ calls = [t \in Threads |-> 0]

Next ==
    \E t \in Threads :
        \/ \E f \in Features : Require(t, f)
        \/ \E f \in Features \cup {NoFeature} : Provide(t, f)
        \/ Resume(t)
        \/ SpuriousWakeup(t)
        \/ LoadSucceeds(t)
        \/ LoadFails(t)

Spec == Init /\ [][Next]_vars

\* The scheduler runs every thread that can run, so a notified waiter gets
\* prov_mutex, and the file that a thread loads ends.  Nothing makes a program
\* call require or provide, and nothing promises a spurious wake-up.
FairSpec ==
    /\ Spec
    /\ \A t \in Threads :
           /\ WF_vars(Resume(t))
           /\ WF_vars(LoadSucceeds(t) \/ LoadFails(t))

-----------------------------------------------------------------------------
(* Properties.                                                                 *)

\* The type invariant of the bookkeeping of load.c.
TypeOK ==
    /\ provided \subseteq Features
    /\ providing \in Seq(Entry)
    /\ waiting \in [Threads -> Features \cup {NoFeature}]
    /\ asleep \subseteq Threads
    /\ stack \in [Threads -> Seq(Features)]
    /\ calls \in [Threads -> Nat]

\* do_require never lets two Scm_Loads of one feature overlap, be it in two
\* threads or nested in one, and ldinfo.providing has one entry per feature.
OneLoader ==
    /\ \A t, u \in Threads :
           \A i \in 1..Len(stack[t]), j \in 1..Len(stack[u]) :
               stack[t][i] = stack[u][j] => t = u /\ i = j
    /\ \A i, j \in 1..Len(providing) :
           providing[i].feature = providing[j].feature => i = j

\* "we know that the first matching entry is the current one" (load.c 1030):
\* the entry in which Scm_Provide turns autoprovide off, the first one of the
\* calling thread, is that of the file the thread is in the middle of, and a
\* thread that loads nothing has no entry.
CurrentEntryFirst ==
    \A t \in Threads :
        IF stack[t] = <<>>
        THEN FirstOf(t, providing) = 0
        ELSE /\ FirstOf(t, providing) # 0
             /\ providing[FirstOf(t, providing)].feature = Head(stack[t])

\* A thread that sleeps on prov_cv waits for a feature that another thread has
\* in its load stack, so a COND_BROADCAST is still to come: however a load ends,
\* and whoever swallowed the single COND_SIGNAL of Scm_Provide, no waiter is
\* left behind.
SleepersHaveLoader ==
    \A t \in asleep :
        \E u \in Threads \ {t} :
            \E i \in 1..Len(stack[u]) : stack[u][i] = waiting[t]

\* Threads that all wait, asleep or just woken, for a feature another one of them is loading.
CircularWait ==
    \E S \in SUBSET Threads \ {{}} :
        \A t \in S :
            /\ ~ Running(t)
            /\ \E u \in S : \E i \in 1..Len(stack[u]) : stack[u][i] = waiting[t]

\* A thread that waits for a feature comes back from do_require, unless threads have
\* come to wait for each other: loads end, and each end wakes the waiters.
RequireReturns ==
    \A t \in Threads : ~Running(t) ~> (Running(t) \/ CircularWait)

\* What load.c 1000-1005 promises: "An error should be signaled in such a case,
\* rather than going to deadlock": there are no threads that all wait for a
\* feature another one of them is loading.
NoCircularWait == ~ CircularWait
=============================================================================
