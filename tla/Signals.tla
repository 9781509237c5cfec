------------------------------ MODULE Signals ------------------------------
(***************************************************************************)
(* Signals: the C-level handler that only records a signal (sig_handle),   *)
(* the safe point of the VM that calls the Scheme handlers (Scm_SigCheck), *)
(* sigsuspend, sigwait and set-signal-handler! of src/signal.c.            *)
(*                                                                         *)
(* A signal is recorded in the counters of the thread it is delivered to.  *)
(* At a safe point the thread takes the counters, puts one cell per signal *)
(* at the end of its queue of pending handler calls, and walks along the   *)
(* cells.  A handler is ordinary code: it has safe points of its own, may  *)
(* raise an error, and may sleep in sigsuspend.                            *)
(***************************************************************************)
EXTENDS Integers, Sequences, FiniteSets, FiniteSetsExt

CONSTANTS Thread,
          NSig,          \* the signals of the master set are 1 .. NSig
          PendingLimit,  \* signalPendingLimit
          MaxKills,      \* bound: signals sent to the process
          MaxDepth,      \* [Thread -> Nat], bound: nested calls of Scm_SigCheck and sigsuspend
          MaxCalls,      \* [Thread -> Nat], bound: calls of the operations below
          InitialMask,   \* [Thread -> SUBSET (1 .. NSig)], the signals a thread starts with blocked
          InitialMasks,  \* [1 .. NSig -> the mask of the handler the signal starts with]
          Setters,       \* the threads that call set-signal-handler! and sys-sigwait
          Settings,      \* what set-signal-handler! is called with: <<signals, handler, mask>>
          Awaited,       \* what sys-sigwait is called with: sets of signals
          Sleepers       \* the threads that call sys-sigmask, sys-sigsuspend and pause

ASSUME SignalsAssumption ==
    /\ NSig \in Nat \ {0} /\ PendingLimit \in Nat /\ MaxKills \in Nat
    /\ MaxDepth \in [Thread -> Nat] /\ MaxCalls \in [Thread -> Nat]
    /\ InitialMask \in [Thread -> SUBSET (1 .. NSig)]
    /\ InitialMasks \in [1 .. NSig -> {{0}} \cup SUBSET (1 .. NSig)]
    /\ Settings \subseteq (SUBSET (1 .. NSig)) \X {"procedure", "#f", "#t"} \X (SUBSET (1 .. NSig))
    /\ {} \notin {set[1] : set \in Settings}
    /\ Awaited \subseteq SUBSET (1 .. NSig)
    /\ Setters \subseteq Thread /\ Sleepers \subseteq Thread

Signal == 1 .. NSig
NoMask == {0}                     \* sigHandlers.masks[s] is NULL
Mask == SUBSET Signal
Nil == 0                          \* the empty list

VARIABLES
    arrived,           \* the signals sent to the process and not delivered yet
    action,            \* [Signal -> the action sigaction(2) set]
    mask,              \* [Thread -> the signals the thread blocks]
    handlers, masks,   \* the tables of sigHandlers
    sigcounts, signalPending, attentionRequest,  \* of the VM of each thread
    cells,             \* [Thread -> the cells consed so far]; a cell is its index
    cdr,               \* [Thread -> the cdr of each of them]
    pending,           \* [Thread -> q->pending]
    stack,             \* [Thread -> the calls of Scm_SigCheck and sigsuspend under way]
    leaf,              \* [Thread -> the call of set-signal-handler! or sigwait under way]
    ended,             \* the process has ended
    kills, calls,      \* how much of the bounds is used
    owed,              \* history: [Thread -> signals recorded whose handler has not started since]
    raised,            \* history: the threads in which a handler raised an error
    clobbered,         \* history: the threads whose q->pending was overwritten while not walked
    crossed            \* history: the signals two sigwaits, or a sigwait and a setter, dealt with at once

kernel == <<arrived, action, mask, ended>>
table == <<handlers, masks>>
vm == <<sigcounts, signalPending, attentionRequest>>
queue == <<cells, cdr, pending>>
history == <<owed, raised, clobbered, crossed>>
vars == <<kernel, table, vm, queue, stack, leaf, kills, calls, history>>

-----------------------------------------------------------------------------
(* The state.                                                              *)

HandlerAction(h) ==
    CASE h = "procedure" -> "handle"
      [] h = "#f" -> "ignore"
      [] h = "#t" -> "default"

Idle == [pc |-> "none", sigs |-> {}, handler |-> "#f", mask |-> NoMask, oacts |-> <<>>]

\* A call under way.  "omask" is the variable of the code; "entry" is the mask the
\* interrupted code ran with; "arg" is the mask sigsuspend is given.
Call(pc, t, arg) ==
    [pc |-> pc, got |-> {}, sp |-> Nil, omask |-> {}, entry |-> mask[t], arg |-> arg]

Top(t) == stack[t][Len(stack[t])]
At(t, pc) == stack[t] # <<>> /\ Top(t).pc = pc
Runs(t, pc) == ~ ended /\ At(t, pc)
LeafAt(t, pc) == ~ ended /\ leaf[t].pc = pc
SetTop(t, f) == [stack EXCEPT ![t][Len(stack[t])] = f]
Push(t, f) == [stack EXCEPT ![t] = Append(@, f)]
Pop(t) == [stack EXCEPT ![t] = SubSeq(@, 1, Len(@) - 1)]

\* The thread runs code of the program: its main code or the body of a handler.
InCode(t) == LeafAt(t, "none") /\ (stack[t] = <<>> \/ At(t, "handler"))

\* The mask of the handler that a call of Scm_SigCheck is running.
MaskOf(t, frame) == cells[t][frame.sp].mask

Init ==
    /\ arrived = {} /\ mask = InitialMask /\ ended = FALSE
    /\ action = [s \in Signal |-> "handle"]
    /\ handlers = [s \in Signal |-> "procedure"]
    \* The handlers Scm_SetMasterSigmask installs have no mask; the program's have one.
    /\ masks = InitialMasks
    /\ sigcounts = [t \in Thread |-> [s \in Signal |-> 0]]
    /\ signalPending = [t \in Thread |-> FALSE]
    /\ attentionRequest = [t \in Thread |-> FALSE]
    /\ cells = [t \in Thread |-> <<>>] /\ cdr = [t \in Thread |-> <<>>]
    /\ pending = [t \in Thread |-> Nil]
    /\ stack = [t \in Thread |-> <<>>] /\ leaf = [t \in Thread |-> Idle]
    /\ kills = 0 /\ calls = [t \in Thread |-> 0]
    /\ owed = [t \in Thread |-> {}] /\ raised = {} /\ clobbered = {} /\ crossed = {}

-----------------------------------------------------------------------------
(* The kernel, and sig_handle, which it calls.                             *)

\* kill(2): a signal that is already pending is not counted twice.
Kill(s) ==
    /\ ~ ended /\ kills < MaxKills
    /\ kills' = kills + 1 /\ arrived' = arrived \cup {s}
    /\ UNCHANGED <<action, mask, ended, table, vm, queue, stack, leaf, calls, history>>

\* sig_handle records the signal in the VM of the thread it runs in.
Counted(t, s) == IF PendingLimit = 0 THEN 1 ELSE sigcounts[t][s] + 1
TooMany(t, s) == PendingLimit > 0 /\ Counted(t, s) >= PendingLimit
Record(t, s) ==
    /\ sigcounts' = [sigcounts EXCEPT ![t][s] = Counted(t, s)]
    /\ ended' = TooMany(t, s)               \* Scm_Abort
    /\ IF TooMany(t, s)
         THEN UNCHANGED <<signalPending, attentionRequest>>
         ELSE /\ signalPending' = [signalPending EXCEPT ![t] = TRUE]
              /\ attentionRequest' = [attentionRequest EXCEPT ![t] = TRUE]

\* sigsuspend(2) returns when a handler has run, with the mask it was called under.
WakeUp(t) ==
    IF At(t, "asleep")
      THEN /\ stack' = SetTop(t, [Top(t) EXCEPT !.pc = "woken"])
           /\ mask' = [mask EXCEPT ![t] = Signal]
      ELSE UNCHANGED <<stack, mask>>

\* The kernel delivers a signal to a thread that does not block it.
Deliver(t, s) ==
    /\ ~ ended /\ s \in arrived \ mask[t]
    /\ arrived' = arrived \ {s}
    /\ CASE action[s] = "handle" ->
              /\ Record(t, s) /\ WakeUp(t)
              /\ owed' = [owed EXCEPT ![t] = @ \cup {s}]
         [] action[s] = "ignore" -> UNCHANGED <<vm, ended, stack, mask, owed>>
         [] action[s] = "default" -> ended' = TRUE /\ UNCHANGED <<vm, stack, mask, owed>>
    /\ UNCHANGED <<action, table, queue, leaf, kills, calls, raised, clobbered, crossed>>

-----------------------------------------------------------------------------
(* The safe point: process_queued_requests and Scm_SigCheck.               *)

\* The VM notices the request at a safe point of the code it runs.
SafePoint(t) ==
    /\ InCode(t) /\ attentionRequest[t] /\ Len(stack[t]) < MaxDepth[t]
    /\ attentionRequest' = [attentionRequest EXCEPT ![t] = FALSE]
    /\ stack' = Push(t, Call("check", t, {}))
    /\ UNCHANGED <<kernel, table, sigcounts, signalPending, queue, leaf, kills, calls, history>>

\* A mutant: nothing is blocked.
BlockNothing(t) == UNCHANGED mask

BlockAll(t) == mask' = [mask EXCEPT ![t] = Signal]

\* A mutant: the counters are copied with the signals unblocked.
CopyUnblocked(t) ==
    /\ Runs(t, "check")
    /\ stack' = IF ~ signalPending[t] THEN Pop(t)
                ELSE SetTop(t, [Top(t) EXCEPT !.pc = "clear", !.omask = mask[t],
                                              !.got = {s \in Signal : sigcounts[t][s] > 0}])
    /\ UNCHANGED <<kernel, table, vm, queue, leaf, kills, calls, history>>

\* SCM_SIGCHECK, and the head of Scm_SigCheck: block every signal and copy the counters.
Copy(t) ==
    /\ Runs(t, "check")
    /\ IF ~ signalPending[t]
         THEN stack' = Pop(t) /\ UNCHANGED mask
         ELSE /\ BlockAll(t)
              /\ stack' = SetTop(t, [Top(t) EXCEPT !.pc = "clear", !.omask = mask[t],
                                                   !.got = {s \in Signal : sigcounts[t][s] > 0}])
    /\ UNCHANGED <<arrived, action, ended, table, vm, queue, leaf, kills, calls, history>>

\* Clear the counters and the flag, and restore the mask.
Clear(t) ==
    /\ Runs(t, "clear")
    /\ sigcounts' = [sigcounts EXCEPT ![t] = [s \in Signal |-> 0]]
    /\ signalPending' = [signalPending EXCEPT ![t] = FALSE]
    /\ mask' = [mask EXCEPT ![t] = Top(t).omask]
    /\ stack' = SetTop(t, [Top(t) EXCEPT !.pc = "queue"])
    /\ UNCHANGED <<arrived, action, ended, table, attentionRequest, queue, leaf, kills, calls, history>>

\* The cells of the list that starts at c: the least set with c and the cdrs of its cells.
CellsFrom(next, c) ==
    {i \in DOMAIN next :
       \A L \in SUBSET DOMAIN next :
         c \in L \cup {Nil} /\ (\A k \in L : next[k] \in L \cup {Nil}) => i \in L}
LastPair(next, c) == CHOOSE i \in CellsFrom(next, c) : next[i] = Nil

\* A new cell at the tail of q->pending.
AddCell(t, cell) ==
    LET new == Len(cells[t]) + 1
        linked == IF pending[t] = Nil THEN cdr[t]
                  ELSE [cdr[t] EXCEPT ![LastPair(cdr[t], pending[t])] = new]
    IN  /\ cells' = [cells EXCEPT ![t] = Append(@, cell)]
        /\ cdr' = [cdr EXCEPT ![t] = Append(linked, Nil)]
        /\ pending' = [pending EXCEPT ![t] = IF @ = Nil THEN new ELSE @]

\* One signal of the copied counters, in the order of their numbers: it gets a cell if
\* it still has a procedure for handler (the table is read without its mutex).  Then the
\* walk begins; SCM_FOR_EACH reads the head of q->pending once.
QueueOne(t) ==
    /\ Runs(t, "queue")
    /\ LET s == Min(Top(t).got)
           rest == Top(t).got \ {s}
       IN  /\ IF handlers[s] = "procedure"
                THEN AddCell(t, [sig |-> s, mask |-> masks[s]]) /\ UNCHANGED owed
                ELSE UNCHANGED queue /\ owed' = [owed EXCEPT ![t] = @ \ {s}]
           /\ stack' = SetTop(t, IF rest # {} THEN [Top(t) EXCEPT !.got = rest]
                                 ELSE [Top(t) EXCEPT !.got = {}, !.pc = "walk", !.sp = pending'[t]])
    /\ UNCHANGED <<kernel, table, vm, leaf, kills, calls, raised, clobbered, crossed>>

\* The cells are garbage once no call is under way and the queue is empty.
Collect(t) ==
    LET garbage == stack'[t] = <<>> /\ pending[t] = Nil IN
      /\ cells' = [cells EXCEPT ![t] = IF garbage THEN <<>> ELSE @]
      /\ cdr' = [cdr EXCEPT ![t] = IF garbage THEN <<>> ELSE @]
      /\ UNCHANGED pending

\* The next cell of the walk leaves the queue and its handler is called, with the
\* handler's signals blocked; at the end of the list Scm_SigCheck returns.
CallHandler(t) ==
    /\ Runs(t, "walk") /\ Top(t).sp # Nil
    /\ LET c == Top(t).sp
           m == MaskOf(t, Top(t))
       IN  /\ pending' = [pending EXCEPT ![t] = cdr[t][c]]
           /\ mask' = [mask EXCEPT ![t] = IF m = NoMask THEN @ ELSE @ \cup m]
           /\ stack' = SetTop(t, [Top(t) EXCEPT !.pc = "handler", !.omask = mask[t]])
           /\ owed' = [owed EXCEPT ![t] = @ \ {cells[t][c].sig}]
           /\ clobbered' = IF pending[t] \in {c, Nil} \cup CellsFrom(cdr[t], c)
                             THEN clobbered ELSE clobbered \cup {t}
    /\ UNCHANGED <<arrived, action, ended, table, vm, cells, cdr, leaf, kills, calls, raised, crossed>>

ReturnFromCheck(t) ==
    /\ Runs(t, "walk") /\ Top(t).sp = Nil
    /\ stack' = Pop(t) /\ Collect(t)
    /\ UNCHANGED <<kernel, table, vm, leaf, kills, calls, history>>

\* A mutant: one handler is called at each safe point.
HandlerReturnsAtOnce(t) ==
    /\ InCode(t) /\ stack[t] # <<>>
    /\ mask' = [mask EXCEPT ![t] = IF MaskOf(t, Top(t)) = NoMask THEN @ ELSE Top(t).omask]
    /\ stack' = SetTop(t, [Top(t) EXCEPT !.pc = "walk", !.sp = Nil])
    /\ UNCHANGED <<arrived, action, ended, table, vm, queue, leaf, kills, calls, history>>

\* A handler returns: its mask is undone and the walk goes on to the next cell.
HandlerReturns(t) ==
    /\ InCode(t) /\ stack[t] # <<>>
    /\ mask' = [mask EXCEPT ![t] = IF MaskOf(t, Top(t)) = NoMask THEN @ ELSE Top(t).omask]
    /\ stack' = SetTop(t, [Top(t) EXCEPT !.pc = "walk", !.sp = cdr[t][@]])
    /\ UNCHANGED <<arrived, action, ended, table, vm, queue, leaf, kills, calls, history>>

Masking(t, n) ==
    {i \in n + 1 .. Len(stack[t]) : stack[t][i].pc = "handler" /\ MaskOf(t, stack[t][i]) # NoMask}
\* A mutant: an error leaves the mask of the handler in force.
RestoredNothing(t, n) == mask[t]

RestoredBelow(t, n) == IF Masking(t, n) = {} THEN mask[t] ELSE stack[t][Min(Masking(t, n))].omask

\* A handler raises an error that the code under all but the first n calls catches.  Each
\* call of Scm_SigCheck it leaves restores the mask it saved.
HandlerRaises(t, n) ==
    /\ InCode(t) /\ n \in 0 .. Len(stack[t]) - 1
    /\ n > 0 => stack[t][n].pc = "handler"
    /\ mask' = [mask EXCEPT ![t] = RestoredBelow(t, n)]
    /\ stack' = [stack EXCEPT ![t] = SubSeq(@, 1, n)]
    /\ raised' = raised \cup {t} /\ Collect(t)
    /\ UNCHANGED <<arrived, action, ended, table, vm, leaf, kills, calls,
                   owed, clobbered, crossed>>

-----------------------------------------------------------------------------
(* Operations the program calls.                                           *)

MayCall(t) == InCode(t) /\ calls[t] < MaxCalls[t]
CountCall(t) == calls' = [calls EXCEPT ![t] = @ + 1]

\* sys-sigmask with SIG_SETMASK; blocking and unblocking are other ways to choose m.
SysSigmask(t, m) ==
    /\ t \in Sleepers /\ MayCall(t) /\ CountCall(t)
    /\ mask' = [mask EXCEPT ![t] = m]
    /\ UNCHANGED <<arrived, action, ended, table, vm, queue, stack, leaf, kills, history>>

\* scm_sigsuspend, called by sys-sigsuspend with any mask and by pause with the present one.
SigSuspend(t, m) ==
    /\ t \in Sleepers /\ MayCall(t) /\ CountCall(t)
    /\ Len(stack[t]) < MaxDepth[t]
    /\ stack' = Push(t, Call("suspend", t, m))
    /\ UNCHANGED <<kernel, table, vm, queue, leaf, kills, history>>

\* The head of the loop: block every signal, then look for a pending one.
SuspendBlocks(t) ==
    /\ Runs(t, "suspend")
    /\ BlockAll(t)
    /\ stack' = SetTop(t, [Top(t) EXCEPT !.pc = "blocked", !.omask = mask[t]])
    /\ UNCHANGED <<arrived, action, ended, table, vm, queue, leaf, kills, calls, history>>

\* With a pending signal, process it and look again.
SuspendLooks(t) ==
    /\ Runs(t, "blocked")
    /\ IF signalPending[t]
         THEN /\ mask' = [mask EXCEPT ![t] = Top(t).omask]
              /\ stack' = [stack EXCEPT ![t] =
                             Append([@ EXCEPT ![Len(@)].pc = "suspend"],
                                    [Call("check", t, {}) EXCEPT !.entry = Top(t).omask])]
         ELSE stack' = SetTop(t, [Top(t) EXCEPT !.pc = "ready"]) /\ UNCHANGED mask
    /\ UNCHANGED <<arrived, action, ended, table, vm, queue, leaf, kills, calls, history>>

\* sigsuspend(2) sets the mask it is given and sleeps, in one step.
SuspendSleeps(t) ==
    /\ Runs(t, "ready")
    /\ mask' = [mask EXCEPT ![t] = Top(t).arg]
    /\ stack' = SetTop(t, [Top(t) EXCEPT !.pc = "asleep"])
    /\ UNCHANGED <<arrived, action, ended, table, vm, queue, leaf, kills, calls, history>>

\* Awake: restore the mask and process what has arrived.
SuspendReturns(t) ==
    /\ Runs(t, "woken")
    /\ mask' = [mask EXCEPT ![t] = Top(t).omask]
    /\ stack' = SetTop(t, [Call("check", t, {}) EXCEPT !.entry = Top(t).entry])
    /\ UNCHANGED <<arrived, action, ended, table, vm, queue, leaf, kills, calls, history>>

\* sigHandlers.mutex; a thread has it from the first step of set-signal-handler! to the last.
MutexFree == \A t \in Thread : leaf[t].pc \notin {"action", "handler", "mask"}
AwaitedBySomeone == UNION {leaf[t].sigs : t \in {u \in Thread : leaf[u].pc \in {"sigwait", "restore"}}}

\* set-signal-handler!: for each signal the action, the handler and its mask, in that order.
SetSignalHandler(t, sigs, h, m) ==
    /\ t \in Setters /\ MayCall(t) /\ CountCall(t)
    /\ MutexFree
    /\ leaf' = [leaf EXCEPT ![t] = [Idle EXCEPT !.pc = "action", !.sigs = sigs, !.handler = h, !.mask = m]]
    /\ crossed' = crossed \cup (sigs \cap AwaitedBySomeone)
    /\ UNCHANGED <<kernel, table, vm, queue, stack, kills, owed, raised, clobbered>>

SetAction(t) ==
    /\ LeafAt(t, "action")
    /\ action' = [action EXCEPT ![Min(leaf[t].sigs)] = HandlerAction(leaf[t].handler)]
    /\ leaf' = [leaf EXCEPT ![t].pc = "handler"]
    /\ UNCHANGED <<arrived, mask, ended, table, vm, queue, stack, kills, calls, history>>

SetHandler(t) ==
    /\ LeafAt(t, "handler")
    /\ handlers' = [handlers EXCEPT ![Min(leaf[t].sigs)] = leaf[t].handler]
    /\ leaf' = [leaf EXCEPT ![t].pc = "mask"]
    /\ UNCHANGED <<kernel, masks, vm, queue, stack, kills, calls, history>>

SetMask(t) ==
    /\ LeafAt(t, "mask")
    /\ LET s == Min(leaf[t].sigs) IN
         /\ masks' = [masks EXCEPT ![s] = leaf[t].mask]
         /\ leaf' = IF leaf[t].sigs = {s} THEN [leaf EXCEPT ![t] = Idle]
                    ELSE [leaf EXCEPT ![t].pc = "action", ![t].sigs = @ \ {s}]
    /\ UNCHANGED <<kernel, handlers, vm, queue, stack, kills, calls, history>>

\* sys-sigwait on signals the thread blocks: the C-level handlers are taken away...
SigWait(t, sigs) ==
    /\ t \in Setters /\ MayCall(t) /\ CountCall(t)
    /\ sigs \subseteq mask[t] /\ MutexFree
    /\ leaf' = [leaf EXCEPT ![t] = [Idle EXCEPT !.pc = "sigwait", !.sigs = sigs, !.oacts = action]]
    /\ action' = [s \in Signal |-> IF s \in sigs THEN "default" ELSE action[s]]
    /\ crossed' = crossed \cup (sigs \cap AwaitedBySomeone)
    /\ UNCHANGED <<arrived, mask, ended, table, vm, queue, stack, kills, owed, raised, clobbered>>

\* ... sigwait(2) takes one of them ...
SigWaitTakes(t, s) ==
    /\ LeafAt(t, "sigwait") /\ s \in arrived \cap leaf[t].sigs
    /\ arrived' = arrived \ {s}
    /\ leaf' = [leaf EXCEPT ![t].pc = "restore"]
    /\ UNCHANGED <<action, mask, ended, table, vm, queue, stack, kills, calls, history>>

\* A mutant: the C-level handlers are not put back.
PutBackNothing(t) == action

\* ... and the C-level handlers are put back.
PutBack(t) == [s \in Signal |-> IF s \in leaf[t].sigs THEN leaf[t].oacts[s] ELSE action[s]]
SigWaitReturns(t) ==
    /\ LeafAt(t, "restore") /\ MutexFree
    /\ action' = PutBack(t)
    /\ leaf' = [leaf EXCEPT ![t] = Idle]
    /\ UNCHANGED <<arrived, mask, ended, table, vm, queue, stack, kills, calls, history>>

-----------------------------------------------------------------------------
(* The specification.                                                      *)

\* What the thread does by itself, once it has begun a call.
Step(t) ==
    \/ SafePoint(t) \/ Copy(t) \/ Clear(t) \/ QueueOne(t)
    \/ CallHandler(t) \/ ReturnFromCheck(t)
    \/ SuspendBlocks(t) \/ SuspendLooks(t) \/ SuspendSleeps(t) \/ SuspendReturns(t)
    \/ SetAction(t) \/ SetHandler(t) \/ SetMask(t) \/ SigWaitReturns(t)

HandlerEnds(t) == HandlerReturns(t) \/ \E n \in 0 .. MaxDepth[t] : HandlerRaises(t, n)

Request(t) ==
    \/ \E m \in {{}, Signal} : SysSigmask(t, m)
    \/ \E m \in {{}, mask[t]} : SigSuspend(t, m)
    \/ \E set \in Settings : SetSignalHandler(t, set[1], set[2], set[3])
    \/ \E sigs \in Awaited : SigWait(t, sigs)

Next ==
    \/ \E s \in Signal : Kill(s)
    \/ \E t \in Thread, s \in Signal : Deliver(t, s) \/ SigWaitTakes(t, s)
    \/ \E t \in Thread : Step(t) \/ HandlerEnds(t) \/ Request(t)

Spec == Init /\ [][Next]_vars

\* The threads run, handlers end, and the kernel delivers a signal that is not blocked.
Fairness ==
    /\ \A t \in Thread : WF_vars(Step(t) \/ HandlerEnds(t))
    /\ \A s \in Signal : WF_vars(\E t \in Thread : Deliver(t, s))

FairSpec == Spec /\ Fairness

-----------------------------------------------------------------------------
(* Properties.                                                             *)

Frame == [pc : {"check", "clear", "queue", "walk", "handler", "suspend", "blocked", "ready", "asleep", "woken"},
          got : Mask, sp : Nat, omask : Mask, entry : Mask, arg : Mask]

\* The type invariant: every cell index is in range, every frame has a known stage.
TypeOK ==
    /\ arrived \subseteq Signal /\ mask \in [Thread -> Mask] /\ ended \in BOOLEAN
    /\ action \in [Signal -> {"handle", "ignore", "default"}]
    /\ handlers \in [Signal -> {"procedure", "#f", "#t"}]
    /\ masks \in [Signal -> Mask \cup {NoMask}]
    /\ sigcounts \in [Thread -> [Signal -> Nat]]
    /\ signalPending \in [Thread -> BOOLEAN] /\ attentionRequest \in [Thread -> BOOLEAN]
    /\ \A t \in Thread :
         /\ pending[t] \in 0 .. Len(cells[t])
         /\ cdr[t] \in [1 .. Len(cells[t]) -> 0 .. Len(cells[t])]
         /\ \A i \in 1 .. Len(cells[t]) : cells[t][i].sig \in Signal
         /\ \A i \in 1 .. Len(stack[t]) : stack[t][i] \in Frame
         /\ leaf[t].pc \in {"none", "action", "handler", "mask", "sigwait", "restore"}
    /\ owed \in [Thread -> SUBSET Signal] /\ crossed \subseteq Signal
    /\ raised \subseteq Thread /\ clobbered \subseteq Thread

\* Where a recorded signal can be: counted, with the flags up that lead to the next
\* Scm_SigCheck; copied by a Scm_SigCheck under way; or in q->pending.
Counting(t, s) ==
    /\ sigcounts[t][s] > 0 /\ signalPending[t]
    /\ attentionRequest[t] \/ At(t, "check") \/ At(t, "clear")
Copied(t, s) == \E i \in 1 .. Len(stack[t]) : stack[t][i].pc = "queue" /\ s \in stack[t][i].got
Listed(t, s) == \E c \in CellsFrom(cdr[t], pending[t]) : cells[t][c].sig = s

\* No recorded signal is lost: until its handler is called it is counted, copied or
\* listed, whatever signals come during Scm_SigCheck, whatever handlers raise, and
\* whatever checks are nested in handlers.  The exception the code has: a walk that
\* goes on after a nested one whose list another has replaced overwrites q->pending.
NoSignalLost ==
    ~ ended =>
      \A t \in Thread \ clobbered : \A s \in owed[t] :
        Counting(t, s) \/ Copied(t, s) \/ Listed(t, s)

\* sigsuspend never sleeps over a signal that was recorded before it fell asleep (the
\* reason pause is not pause(2), as the comment on Scm_Pause says).
SleepMissesNothing ==
    \A t \in Thread : At(t, "asleep") =>
        ~ signalPending[t] /\ \A s \in Signal : sigcounts[t][s] = 0

\* Scm_SigCheck and sigsuspend give the code they interrupt its signal mask back, also
\* when a handler raises an error through several of them.  (A handler without a mask
\* of its own is called without saving it, and may change it for good.)
MaskRestored ==
    [][\A t \in Thread :
         Len(stack'[t]) < Len(stack[t]) /\ (\A i \in 1 .. Len(cells[t]) : cells[t][i].mask # NoMask)
           => mask'[t] = stack[t][Len(stack'[t]) + 1].entry]_vars

\* What the kernel does with a signal agrees with the handler table, except while a
\* set-signal-handler! or a sigwait deals with the signal, or after two of them did at once.
ActionsMatch ==
    \A s \in Signal \ crossed :
        (\A t \in Thread : s \notin leaf[t].sigs) => action[s] = HandlerAction(handlers[s])

\* A signal that a thread has recorded gets its handler called, unless an error stops
\* a walk (what it leaves in the queue waits for the next signal), or a handler sleeps.
SignalsHandled ==
    \A t \in Thread, s \in Signal :
        s \in owed[t] ~> \/ s \notin owed[t]
                        \/ ended
                        \/ t \in raised \cup clobbered
                        \/ (At(t, "asleep") /\ Len(stack[t]) > 1)
                        \/ leaf[t].pc = "sigwait"

\* A handler whose mask contains its signal is not entered again by that signal while
\* it runs (corelib.texi says so of set-signal-handler!).
NoReentry ==
    \A t \in Thread : \A i, j \in 1 .. Len(stack[t]) :
        i < j /\ stack[t][i].pc = "handler" /\ stack[t][j].pc = "handler"
          => LET outer == cells[t][stack[t][i].sp]
                 inner == cells[t][stack[t][j].sp]
             IN  inner.sig = outer.sig => inner.sig \notin outer.mask
=============================================================================
