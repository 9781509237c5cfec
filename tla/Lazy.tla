-------------------------------- MODULE Lazy --------------------------------
(* Promises and lazy pairs of Gauche (src/src/lazy.c), forced by several       *)
(* threads at once.  A thread has a stack of forces it is in the middle of:    *)
(* the thunk of a promise, or the generator of a lazy pair, is Scheme code     *)
(* that may force something else, or the very same object, once more.          *)
(*                                                                             *)
(* One action is one access to memory that other threads read or write without *)
(* a lock; what is done under a content's mutex, which one thread writes while *)
(* others read it without the mutex, is split the same way.  What a thunk      *)
(* computes is a fresh object, a number, so that two runs of a thunk differ.   *)
EXTENDS Naturals, Sequences

CONSTANTS
    Threads,
    Mortal,      \* the threads that may be terminated while they force something
    MaxForces,   \* bound, per thread: the forces it begins and promises it makes
    MaxDepth,    \* bound: nested forces in a thread
    MaxPromises, \* bound: promises, the ones that thunks make included
    MaxRuns,     \* bound: thunks run
    MaxItems,    \* the generator ends after this many items
    MaxErrors,   \* bound: errors in generators
    NoThread,    \* (AO_t)0 in the owner word, and nobody in a mutex
    Desc         \* XPAIR_DESC() in the owner word

ASSUME LazyAssumption ==
    /\ Mortal \subseteq Threads
    /\ MaxForces \in [Threads -> Nat]
    /\ {MaxDepth, MaxRuns, MaxItems, MaxErrors} \subseteq Nat
    /\ MaxPromises \in Nat \ {0}
    /\ NoThread \notin Threads /\ Desc \notin Threads /\ Desc # NoThread

VARIABLES
    promise,    \* per promise, the index of its content (ScmPromise.content)
    content,    \* the ScmPromiseContents: [state, code, mutex]; code 0 is a thunk
    pair,       \* the lazy pairs: [owner, lazy, car, slot, target]
    produced,   \* the items the generator has made so far
    failed,     \* <<pair, item>>: forces that failed; the item made before, or 0
    stack,      \* per thread, the forces in progress, innermost first
    forces,     \* per thread, the forces begun and promises made
    runs,       \* the thunks run, and the objects made, so far
    answers,    \* <<promise, state, object>>: what force has delivered
    mixed,      \* the promises whose content was replaced, or copied, in midstream
    returned,   \* the pairs that Scm_ForceLazyPair has returned for normally
    dead        \* the threads that have been terminated

promiseVars == <<promise, content, runs, answers, mixed>>
pairVars == <<pair, produced, failed, returned>>
vars == <<promise, content, pair, produced, failed, stack, forces, runs,
          answers, mixed, returned, dead>>

\* A force of promise i or of lazy pair i; where it is, and its local variables:
\* c and cc are contents, val is the code or the item it has read or computed.
Frame(kind, i) ==
    [kind |-> kind, obj |-> i, at |-> "enter", c |-> 1, cc |-> 1,
     state |-> "UNFORCED", val |-> 0]

Top(t) == stack[t][1]
At(t, kind, label) ==
    stack[t] # <<>> /\ Top(t).kind = kind /\ Top(t).at = label

\* Another force begins in t.
Push(t, frame) ==
    /\ Len(stack[t]) < MaxDepth
    /\ forces[t] < MaxForces[t]
    /\ forces' = [forces EXCEPT ![t] = @ + 1]
    /\ stack' = [stack EXCEPT ![t] = <<frame>> \o @]

\* The innermost force of t becomes `frame', goes on at `label', or is left.
Set(t, frame) == stack' = [stack EXCEPT ![t][1] = frame]
Goto(t, label) == Set(t, [Top(t) EXCEPT !.at = label])
Leave(t) == stack' = [stack EXCEPT ![t] = Tail(@)]

\* Scheme code runs in t: the toplevel program, a thunk or a generator.
InScheme(t) ==
    /\ t \notin dead
    /\ stack[t] # <<>> => Top(t).at = "apply"

-----------------------------------------------------------------------------
(* Promises: Scm_MakePromise, Scm_VMForce, Scm_Force.                          *)

\* delay and lazy make an UNFORCED promise, eager a FORCED one.  All threads may
\* come to know it.
MakePromise(t, s) ==
    /\ InScheme(t)
    /\ Len(promise) < MaxPromises /\ forces[t] < MaxForces[t]
    /\ forces' = [forces EXCEPT ![t] = @ + 1]
    /\ s = "FORCED" => runs < MaxRuns
    /\ runs' = IF s = "FORCED" THEN runs + 1 ELSE runs
    /\ promise' = Append(promise, Len(content) + 1)
    /\ content' = Append(content,
           [state |-> s, code |-> IF s = "FORCED" THEN runs + 1 ELSE 0, mutex |-> NoThread])
    /\ UNCHANGED <<answers, mixed, pairVars, stack, dead>>

\* Scheme code calls force on a promise.
CallForce(t, p) ==
    /\ InScheme(t)
    /\ p <= Len(promise)
    /\ Push(t, Frame("promise", p))
    /\ UNCHANGED <<promiseVars, pairVars, dead>>

\* c = SCM_PROMISE(obj)->content.
ReadContent(t) ==
    /\ At(t, "promise", "enter")
    /\ Set(t, [Top(t) EXCEPT !.at = "switch", !.c = promise[Top(t).obj]])
    /\ UNCHANGED <<promiseVars, pairVars, forces, dead>>

\* switch (c->state), without the mutex.
ReadState(t) ==
    /\ At(t, "promise", "switch")
    /\ LET s == content[Top(t).c].state
       IN  Set(t, [Top(t) EXCEPT !.at = IF s = "UNFORCED" THEN "snapshot" ELSE "deliver",
                                 !.state = s])
    /\ UNCHANGED <<promiseVars, pairVars, forces, dead>>

\* The promise is settled: c->code is what to return or to raise.
Deliver(t) ==
    /\ At(t, "promise", "deliver")
    /\ answers' = answers \cup {<<Top(t).obj, Top(t).state, content[Top(t).c].code>>}
    /\ Leave(t)
    /\ UNCHANGED <<promise, content, runs, mixed, pairVars, forces, dead>>

\* State and code are read under the mutex; the code is called if the promise is
\* still UNFORCED, and otherwise we look at the state once more.  The code is the
\* thunk, but see WriteCode.
Snapshot(t) ==
    /\ At(t, "promise", "snapshot")
    /\ content[Top(t).c].mutex = NoThread
    /\ IF content[Top(t).c].state = "UNFORCED"
       THEN /\ runs < MaxRuns /\ runs' = runs + 1
            /\ Set(t, [Top(t) EXCEPT !.val = runs + 1,
                         !.at = IF content[Top(t).c].code = 0 THEN "apply" ELSE "not-thunk"])
       ELSE Goto(t, "switch") /\ UNCHANGED runs
    /\ UNCHANGED <<promise, content, answers, mixed, pairVars, forces, dead>>

\* The thunk returns a list of values.
ThunkReturns(t) ==
    /\ At(t, "promise", "apply") /\ t \notin dead
    /\ Set(t, [Top(t) EXCEPT !.at = "lock", !.state = "FORCED", !.c = promise[Top(t).obj]])
    /\ UNCHANGED <<promiseVars, pairVars, forces, dead>>

\* The thunk raises a condition, or there was no thunk to call: force_exc_handler.
ThunkRaises(t) ==
    /\ (At(t, "promise", "apply") /\ t \notin dead) \/ At(t, "promise", "not-thunk")
    /\ Set(t, [Top(t) EXCEPT !.at = "lock", !.state = "EXCEPTION", !.c = promise[Top(t).obj]])
    /\ UNCHANGED <<promiseVars, pairVars, forces, dead>>

\* The thunk returns a promise: its index becomes val.
ThunkReturnsPromise(t, p) ==
    /\ At(t, "promise", "apply") /\ t \notin dead
    /\ p <= Len(promise)
    /\ Set(t, [Top(t) EXCEPT !.at = "lock", !.state = "PROMISE", !.val = p,
                             !.c = promise[Top(t).obj]])
    /\ UNCHANGED <<promiseVars, pairVars, forces, dead>>

-----------------------------------------------------------------------------
(* Promises: force_cc and force_exc_handler.                                   *)

\* The mutex of the content is taken.  If the promise has been settled in the
\* meantime, what the thunk has returned is thrown away.
LockContent(t) ==
    /\ At(t, "promise", "lock")
    /\ content[Top(t).c].mutex = NoThread
    /\ content' = [content EXCEPT ![Top(t).c].mutex = t]
    /\ IF content[Top(t).c].state # "UNFORCED"
       THEN Goto(t, "unlock")
       ELSE IF Top(t).state = "PROMISE"
            THEN Set(t, [Top(t) EXCEPT !.at = "code", !.cc = promise[Top(t).val]])
            ELSE Goto(t, "code")
    /\ UNCHANGED <<promise, runs, answers, mixed, pairVars, forces, dead>>

\* (Mutant of WriteCode: c->state is set before c->code.)
WriteStateFirst(t) ==
    /\ At(t, "promise", "code")
    /\ Top(t).state # "PROMISE"
    /\ IF content[Top(t).c].state = "UNFORCED"
       THEN content' = [content EXCEPT ![Top(t).c].state = Top(t).state] /\ UNCHANGED stack
       ELSE content' = [content EXCEPT ![Top(t).c].code = Top(t).val] /\ Goto(t, "state")
    /\ UNCHANGED <<promise, runs, answers, mixed, pairVars, forces, dead>>

\* c->code, the result, the condition or the code of the promise returned, whose
\* own mutex is not taken, ...
WriteCode(t) ==
    /\ At(t, "promise", "code")
    /\ content' = [content EXCEPT ![Top(t).c].code =
                       IF Top(t).state = "PROMISE" THEN content[Top(t).cc].code
                       ELSE Top(t).val]
    /\ Goto(t, "state")
    /\ UNCHANGED <<promise, runs, answers, mixed, pairVars, forces, dead>>

\* ... then c->state.  If the promise returned was settled between the two, the
\* promises with content c are FORCED with a thunk for their result: mixed.
WriteState(t) ==
    /\ At(t, "promise", "state")
    /\ LET c == Top(t).c
           s == IF Top(t).state = "PROMISE" THEN content[Top(t).cc].state ELSE Top(t).state
       IN  /\ content' = [content EXCEPT ![c].state = s]
           /\ mixed' = IF s # "UNFORCED" /\ content[c].code = 0
                       THEN mixed \cup {p \in 1..Len(promise) : promise[p] = c} ELSE mixed
    /\ Goto(t, IF Top(t).state = "PROMISE" THEN "share" ELSE "unlock")
    /\ UNCHANGED <<promise, runs, answers, pairVars, forces, dead>>

\* Content c says of promise p what its own content says, and if p is UNFORCED no
\* force of p is under way that goes by its own content.
Interchangeable(p, c) ==
    LET own == content[promise[p]]
    IN  \/ promise[p] = c
        \/ /\ own.state = content[c].state
           /\ IF own.state # "UNFORCED" THEN own.code = content[c].code
              ELSE \A t \in Threads : \A k \in 1..Len(stack[t]) :
                       stack[t][k].kind = "promise" /\ stack[t][k].obj = p =>
                           stack[t][k].at \in {"enter", "apply", "not-thunk"}

\* The promise returned shares the content from now on.  Its own content, which
\* is given up, may have been settled since it was copied, or may be yet, as
\* nothing kept other threads from working on it: mixed.
ShareContent(t) ==
    /\ At(t, "promise", "share")
    /\ promise' = [promise EXCEPT ![Top(t).val] = Top(t).c]
    /\ mixed' = IF Interchangeable(Top(t).val, Top(t).c) THEN mixed ELSE mixed \cup {Top(t).val}
    /\ Goto(t, "unlock")
    /\ UNCHANGED <<content, runs, answers, pairVars, forces, dead>>

\* (Mutant of UnlockContent: the mutex stays locked if the thunk has failed.)
UnlockOnSuccess(t) ==
    /\ At(t, "promise", "unlock")
    /\ content' = IF Top(t).state = "EXCEPTION" THEN content
                  ELSE [content EXCEPT ![Top(t).c].mutex = NoThread]
    /\ Goto(t, IF Top(t).state = "EXCEPTION" THEN "deliver" ELSE "enter")
    /\ UNCHANGED <<promise, runs, answers, mixed, pairVars, forces, dead>>

\* The mutex is released.  force_cc forces the promise again to deliver the
\* result; force_exc_handler raises c->code, whoever has set it.
UnlockContent(t) ==
    /\ At(t, "promise", "unlock")
    /\ content' = [content EXCEPT ![Top(t).c].mutex = NoThread]
    /\ Set(t, IF Top(t).state = "EXCEPTION" THEN [Top(t) EXCEPT !.at = "deliver"]
              ELSE Frame("promise", Top(t).obj))
    /\ UNCHANGED <<promise, runs, answers, mixed, pairVars, forces, dead>>

PromiseStep(t) ==
    \/ ReadContent(t)
    \/ ReadState(t)
    \/ Deliver(t)
    \/ Snapshot(t)
    \/ ThunkReturns(t)
    \/ ThunkRaises(t)
    \/ \E p \in 1..MaxPromises : ThunkReturnsPromise(t, p)
    \/ LockContent(t)
    \/ WriteCode(t)
    \/ WriteState(t)
    \/ ShareContent(t)
    \/ UnlockContent(t)

-----------------------------------------------------------------------------
(* Lazy pairs: Scm_ForceLazyPair.  pair[i].target is 0 for a pair made from    *)
(* the generator and, for one made by lcons, the pair that its thunk returns.  *)

\* make_lazy_pair.  slot holds the item, and the next pair (0: NIL) afterwards.
MakeLazyPair(item, target) ==
    [owner |-> NoThread, lazy |-> TRUE, car |-> 0, slot |-> item, target |-> target]

\* Scheme code, or a C procedure, asks SCM_PAIRP of a lazy pair: Scm_PairP.
\* The program makes no two lazy pairs depend on each other: a generator forces
\* its own pair, which is an error, or earlier ones.
CallPairP(t, i) ==
    /\ InScheme(t)
    /\ pair[i].lazy
    /\ \A k \in 1..Len(stack[t]) : stack[t][k].kind = "pair" => i <= stack[t][k].obj
    /\ Push(t, Frame("pair", i))
    /\ UNCHANGED <<promiseVars, pairVars, dead>>

\* (Mutant of Grab: the owner word is looked at first, and written later.)
GrabInTwoSteps(t) ==
    /\ At(t, "pair", "enter")
    /\ \/ /\ pair[Top(t).obj].owner = NoThread /\ Top(t).c = 1
          /\ Set(t, [Top(t) EXCEPT !.c = 2])
          /\ UNCHANGED pair
       \/ /\ Top(t).c = 2
          /\ pair' = [pair EXCEPT ![Top(t).obj].owner = t]
          /\ Set(t, [Top(t) EXCEPT !.at = "apply", !.c = 1, !.val = pair[Top(t).obj].slot])
       \/ /\ pair[Top(t).obj].owner # NoThread /\ Top(t).c = 1
          /\ Goto(t, "owned")
          /\ UNCHANGED pair
    /\ UNCHANGED <<promiseVars, produced, failed, returned, forces, dead>>

\* Scm_AtomicCompareExchange(&lp->owner, 0, vm), and the item is read.
Grab(t) ==
    /\ At(t, "pair", "enter")
    /\ IF pair[Top(t).obj].owner = NoThread
       THEN /\ pair' = [pair EXCEPT ![Top(t).obj].owner = t]
            /\ Set(t, [Top(t) EXCEPT !.at = "apply", !.val = pair[Top(t).obj].slot])
       ELSE Goto(t, "owned") /\ UNCHANGED pair
    /\ UNCHANGED <<promiseVars, produced, failed, returned, forces, dead>>

\* Somebody is forcing the pair; if it is the thread itself, that is an error
\* (which goes to the generator that has forced its own pair).
CheckRecursive(t) ==
    /\ At(t, "pair", "owned")
    /\ IF pair[Top(t).obj].owner = t THEN Leave(t) ELSE Goto(t, "wait")
    /\ UNCHANGED <<promiseVars, pairVars, forces, dead>>

\* (Mutant of Wait: the owner word alone tells that the pair is ready.)
WaitForOwnerWord(t) ==
    /\ At(t, "pair", "wait")
    /\ pair[Top(t).obj].owner \notin Threads
    /\ Goto(t, "retry")
    /\ UNCHANGED <<promiseVars, pairVars, forces, dead>>

\* while (SCM_HTAG(obj) == 7 && lp->owner != 0) sleep: the end of it.
Wait(t) ==
    /\ At(t, "pair", "wait")
    /\ ~pair[Top(t).obj].lazy \/ pair[Top(t).obj].owner = NoThread
    /\ Goto(t, "retry")
    /\ UNCHANGED <<promiseVars, pairVars, forces, dead>>

\* while (lp->owner == 0): try again, or return.
Retry(t) ==
    /\ At(t, "pair", "retry")
    /\ IF pair[Top(t).obj].owner = NoThread
       THEN Goto(t, "enter") /\ UNCHANGED returned
       ELSE Leave(t) /\ returned' = returned \cup {Top(t).obj}
    /\ UNCHANGED <<promiseVars, pair, produced, failed, forces, dead>>

\* generator_to_lazy_pair: the generator yields an item, for which a lazy pair
\* is made, or EOF; the thunk of lcons returns a pair.
GeneratorReturns(t) ==
    /\ At(t, "pair", "apply") /\ t \notin dead
    /\ LET i == Top(t).obj
       IN  IF pair[i].target # 0
           THEN /\ pair' = [pair EXCEPT ![i].slot = pair[i].target]
                /\ UNCHANGED produced
           ELSE IF produced < MaxItems
                THEN /\ produced' = produced + 1
                     /\ pair' = Append([pair EXCEPT ![i].slot = Len(pair) + 1],
                                       MakeLazyPair(produced + 1, 0))
                ELSE pair' = [pair EXCEPT ![i].slot = 0] /\ UNCHANGED produced
    /\ Goto(t, "desc")
    /\ UNCHANGED <<promiseVars, failed, returned, forces, dead>>

\* The generator raises an error, perhaps after it has made an item that is lost
\* then: SCM_WHEN_ERROR gives the pair up, and passes the error on.
GeneratorRaises(t, item) ==
    /\ At(t, "pair", "apply") /\ t \notin dead
    /\ Len(failed) < MaxErrors
    /\ item # 0 => pair[Top(t).obj].target = 0 /\ item = produced + 1
    /\ failed' = Append(failed, <<Top(t).obj, item>>)
    /\ produced' = IF item = 0 THEN produced ELSE item
    /\ pair' = [pair EXCEPT ![Top(t).obj].owner = NoThread]
    /\ Leave(t)
    /\ UNCHANGED <<promiseVars, returned, forces, dead>>

\* lp->owner = XPAIR_DESC().
WriteDescriptor(t) ==
    /\ At(t, "pair", "desc")
    /\ pair' = [pair EXCEPT ![Top(t).obj].owner = Desc]
    /\ Goto(t, "car")
    /\ UNCHANGED <<promiseVars, produced, failed, returned, forces, dead>>

\* SCM_SET_CAR_UNCHECKED(obj, item): the tag is overwritten.
WriteCar(t) ==
    /\ At(t, "pair", "car")
    /\ pair' = [pair EXCEPT ![Top(t).obj].lazy = FALSE, ![Top(t).obj].car = Top(t).val]
    /\ returned' = returned \cup {Top(t).obj}
    /\ Leave(t)
    /\ UNCHANGED <<promiseVars, produced, failed, forces, dead>>

PairStep(t) ==
    \/ Grab(t)
    \/ CheckRecursive(t)
    \/ Wait(t)
    \/ Retry(t)
    \/ GeneratorReturns(t)
    \/ \E item \in 0..MaxItems : GeneratorRaises(t, item)
    \/ WriteDescriptor(t)
    \/ WriteCar(t)

-----------------------------------------------------------------------------
\* The thread is terminated at a safe point, in Scheme code: what it holds stays.
Terminate(t) ==
    /\ t \in Mortal
    /\ InScheme(t)
    /\ dead' = dead \cup {t}
    /\ UNCHANGED <<promiseVars, pairVars, stack, forces>>

\* A promise, a lazy pair of a generator that has made its first item
\* (Scm_GeneratorToLazyPair), and an lcons onto that pair.
Init ==
    /\ promise = <<1>>
    /\ content = <<[state |-> "UNFORCED", code |-> 0, mutex |-> NoThread]>>
    /\ pair = <<MakeLazyPair(1, 0), MakeLazyPair(0, 1)>>
    /\ produced = 1
    /\ failed = <<>>
    /\ stack = [t \in Threads |-> <<>>]
    /\ forces = [t \in Threads |-> 0]
    /\ runs = 0
    /\ answers = {}
    /\ mixed = {}
    /\ returned = {}
    /\ dead = {}

Next ==
    \E t \in Threads :
        \/ \E s \in {"UNFORCED", "FORCED"} : MakePromise(t, s)
        \/ \E p \in 1..MaxPromises : CallForce(t, p)
        \/ PromiseStep(t)
        \/ \E i \in 1..Len(pair) : CallPairP(t, i)
        \/ PairStep(t)
        \/ Terminate(t)

Spec == Init /\ [][Next]_vars

\* The scheduler runs every thread that can run, thunks and generators end, and
\* a thread that spins is sure to see the pair ready.  Nothing makes a program
\* force anything.
FairSpec == Spec /\ \A t \in Threads : WF_vars(PromiseStep(t) \/ PairStep(t))

-----------------------------------------------------------------------------
(* Properties.                                                                 *)

Frames == {f \in Threads \X (1..MaxDepth) : f[2] <= Len(stack[f[1]])}

\* The type invariant of the promises and the lazy pairs.
TypeOK ==
    /\ promise \in Seq(1..Len(content))
    /\ \A c \in 1..Len(content) :
           content[c] \in [state : {"UNFORCED", "FORCED", "EXCEPTION"}, code : 0..runs,
                          mutex : Threads \cup {NoThread}]
    /\ mixed \subseteq 1..Len(promise)
    /\ \A i \in 1..Len(pair) :
           pair[i] \in [owner : Threads \cup {NoThread, Desc}, lazy : BOOLEAN,
                       car : 0..produced, slot : 0..MaxItems + 2, target : {0, 1}]
    /\ \A f \in Frames : stack[f[1]][f[2]].kind \in {"promise", "pair"}

\* The write-once cells that the promises stand for.
Cells ==
    [p \in 1..MaxPromises |->
        IF p \in mixed THEN <<"LOST", 0>>
        ELSE IF p \notin 1..Len(promise) \/ content[promise[p]].state = "UNFORCED"
        THEN <<"UNFORCED", 0>>
        ELSE <<content[promise[p]].state, content[promise[p]].code>>]

Once == INSTANCE WriteOnce
    WITH Promises <- 1..MaxPromises, Objects <- 1..MaxRuns, result <- Cells

\* lazy.c 115-120: a promise is settled once, and everybody who forces it is
\* given the object it was settled with, although several threads run thunks
\* for it at the same time, thunks force the promise they belong to, and
\* promises come to share their content.  Excepted are the promises that the
\* last two went wrong for, as force_cc copies and replaces the content of the
\* promise that a thunk returns while other threads work on it (lazy.c 191-195).
PromiseIsWriteOnce == Once!Spec

\* lazy.c 119: "Once it becomes FORCED or EXCEPTION, the state never changes", nor
\* does what the promise is FORCED with.  It does for promises that are mixed.
SettledForGood ==
    [][\A p \in 1..Len(promise) :
           content[promise[p]].state # "UNFORCED" =>
               /\ content'[promise'[p]].state = content[promise[p]].state
               /\ content'[promise'[p]].code = content[promise[p]].code]_vars

\* The items of the pairs made from the generator, in the order of the list: the
\* owner of a pair has the item while it forces the pair.
Item(i) ==
    IF ~pair[i].lazy THEN pair[i].car
    ELSE IF \E f \in Frames : stack[f[1]][f[2]].kind = "pair"
                             /\ stack[f[1]][f[2]].obj = i
                             /\ stack[f[1]][f[2]].at \in {"apply", "desc", "car"}
         THEN LET f == CHOOSE f \in Frames :
                           /\ stack[f[1]][f[2]].kind = "pair"
                           /\ stack[f[1]][f[2]].obj = i
                           /\ stack[f[1]][f[2]].at \in {"apply", "desc", "car"}
              IN  stack[f[1]][f[2]].val
         ELSE pair[i].slot
GeneratorPairs == {i \in 1..Len(pair) : pair[i].target = 0}

\* Every item of the generator is in exactly one pair of the list, in the order
\* of the generator, unless the generator failed on it: although any thread may
\* force the last pair, the generator is never asked twice for the same place.
ItemsInOrder ==
    /\ \A i, j \in GeneratorPairs : i < j => Item(i) < Item(j)
    /\ {Item(i) : i \in GeneratorPairs}
           = (1..produced) \ {failed[k][2] : k \in 1..Len(failed)}
    /\ \A i \in GeneratorPairs :
           ~pair[i].lazy /\ pair[i].slot # 0 =>
               \A j \in GeneratorPairs : j > i => pair[i].slot <= j

\* When Scm_ForceLazyPair has returned, the object is a pair, whoever forced it.
\* (It need not be after the generator has failed on it: see Retry, which may
\* find the pair grabbed once more by another thread.)
ReturnedIsPair ==
    \A i \in returned : ~pair[i].lazy \/ \E k \in 1..Len(failed) : failed[k][1] = i

\* While no thread is terminated, every force of a promise and of a lazy pair
\* comes to an end: nobody waits for a mutex or spins for ever.  (Not if thunks
\* keep returning UNFORCED promises, their own one for instance: MaxRuns.)
ForceEnds ==
    \A t \in Threads : stack[t] # <<>> ~> stack[t] = <<>> \/ dead # {} \/ runs = MaxRuns
=============================================================================
