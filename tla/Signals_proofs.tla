--------------------------- MODULE Signals_proofs ---------------------------
(* Proofs about Signals, for any number of threads, signals and calls, and any *)
(* depth of handlers that are interrupted by other handlers.                   *)
EXTENDS Signals, SequenceTheorems, WellFoundedInduction, TLAPS

-----------------------------------------------------------------------------
(* Facts about the building blocks.                                            *)

\* A set of natural numbers that is not empty has a smallest element,
LEMMA LeastNumber ==
    ASSUME NEW T, T \subseteq Nat, T # {}
    PROVE  \E x \in T : \A y \in T : x <= y
<1>1. PICK x \in T : \A y \in T : ~ (<<y, x>> \in OpToRel(<, Nat))
  BY NatLessThanWellFounded, WFMin
<1>2. ASSUME NEW y \in T, y < x PROVE FALSE
  <2>1. <<y, x>> \in Nat \X Nat
    OBVIOUS
  <2>2. <<y, x>> \in OpToRel(<, Nat)
    BY <1>2, <2>1, Zenon DEF OpToRel
  <2> QED
    BY <1>1, <2>2
<1>3. \A y \in T : x <= y
  BY <1>2
<1> QED
  BY <1>3

\* which Min finds.
LEMMA MinElement ==
    ASSUME NEW T, T \subseteq Nat, T # {}
    PROVE  Min(T) \in T /\ \A y \in T : Min(T) <= y
  BY LeastNumber DEF Min

Actions == {"handle", "ignore", "default"}
Handlers == {"procedure", "#f", "#t"}

\* Every handler has its action.
LEMMA HandlerActionType ==
    ASSUME NEW h \in Handlers
    PROVE  HandlerAction(h) \in Actions
<1>1. /\ HandlerAction("procedure") = "handle"
      /\ HandlerAction("#f") = "ignore"
      /\ HandlerAction("#t") = "default"
  BY DEF HandlerAction
<1>2. h = "procedure" \/ h = "#f" \/ h = "#t"
  BY DEF Handlers
<1> QED
  BY <1>1, <1>2 DEF Actions

-----------------------------------------------------------------------------
(* The table of handlers and the actions of the kernel.                        *)

Leaf == [pc : {"none", "action", "handler", "mask", "sigwait", "restore"}, sigs : Mask,
         handler : Handlers, mask : Mask \cup {NoMask}, oacts : {<<>>} \cup [Signal -> Actions]]

LeafTypes ==
    /\ action \in [Signal -> Actions]
    /\ handlers \in [Signal -> Handlers]
    /\ masks \in [Signal -> Mask \cup {NoMask}]
    /\ leaf \in [Thread -> Leaf]
    /\ crossed \subseteq Signal

Setting(t) == leaf[t].pc \in {"action", "handler", "mask"}
Awaiting(t) == leaf[t].pc \in {"sigwait", "restore"}

\* How far a set-signal-handler! or a sigwait has come: the first has set the action
\* and the handler of the signal it is at, or is going to; the second has saved an
\* action that still agrees with the table.
LeafExact(t) ==
    /\ leaf[t].pc = "none" => leaf[t].sigs = {}
    /\ Setting(t) => leaf[t].sigs # {}
    /\ leaf[t].pc \in {"handler", "mask"} =>
         action[Min(leaf[t].sigs)] = HandlerAction(leaf[t].handler)
    /\ leaf[t].pc = "mask" => handlers[Min(leaf[t].sigs)] = leaf[t].handler
    /\ Awaiting(t) =>
         /\ leaf[t].oacts \in [Signal -> Actions]
         /\ \A s \in leaf[t].sigs \ crossed : leaf[t].oacts[s] = HandlerAction(handlers[s])

\* One thread sets handlers at a time, and whatever signal another waits for at the
\* same time is among the crossed ones.
LeafApart ==
    \A t, u \in Thread :
        /\ Setting(t) /\ Setting(u) => t = u
        /\ Setting(t) /\ Awaiting(u) => leaf[t].sigs \cap leaf[u].sigs \subseteq crossed

LeafInv == LeafTypes /\ ActionsMatch /\ LeafApart /\ \A t \in Thread : LeafExact(t)

\* The record of a thread that does neither.
LEMMA IdleLeaf ==
    /\ Idle \in Leaf /\ Idle.pc = "none" /\ Idle.sigs = {}
  BY DEF Idle, Leaf, Handlers, Mask, NoMask

\* What the operations do to the record of their thread.
LEMMA SetSignalHandlerLeaf ==
    ASSUME SignalsAssumption, LeafTypes, NEW t \in Thread, NEW set \in Settings,
           SetSignalHandler(t, set[1], set[2], set[3])
    PROVE  /\ leaf' \in [Thread -> Leaf] /\ \A u \in Thread \ {t} : leaf'[u] = leaf[u]
           /\ leaf'[t].pc = "action" /\ leaf'[t].sigs = set[1] /\ set[1] # {}
           /\ set[1] \subseteq Signal
           /\ leaf[t].pc = "none" /\ UNCHANGED <<action, handlers, masks>>
           /\ crossed' = crossed \cup (set[1] \cap AwaitedBySomeone)
           /\ \A u \in Thread : ~Setting(u)
<1>1. /\ set[1] \in Mask /\ set[1] # {} /\ set[2] \in Handlers /\ set[3] \in Mask
  BY DEF SignalsAssumption, Mask, Signal, Handlers
<1>2. leaf' = [leaf EXCEPT ![t] = [Idle EXCEPT !.pc = "action", !.sigs = set[1],
                                               !.handler = set[2], !.mask = set[3]]]
  BY DEF SetSignalHandler
<1> DEFINE r == [Idle EXCEPT !.pc = "action", !.sigs = set[1], !.handler = set[2], !.mask = set[3]]
<1>3. r \in Leaf /\ r.pc = "action" /\ r.sigs = set[1]
  BY <1>1, IdleLeaf DEF Leaf
<1> HIDE DEF r
<1>4. leaf' = [leaf EXCEPT ![t] = r]
  BY <1>2 DEF r
<1>5. /\ leaf[t].pc = "none" /\ UNCHANGED <<action, handlers, masks>>
      /\ crossed' = crossed \cup (set[1] \cap AwaitedBySomeone)
      /\ \A u \in Thread : ~Setting(u)
  BY DEF SetSignalHandler, MayCall, InCode, LeafAt, MutexFree, Setting, kernel, table
<1> QED
  BY <1>1, <1>3, <1>4, <1>5 DEF LeafTypes, Mask

LEMMA SetActionLeaf ==
    ASSUME LeafTypes, NEW t \in Thread, SetAction(t)
    PROVE  /\ leaf' \in [Thread -> Leaf] /\ \A u \in Thread \ {t} : leaf'[u] = leaf[u]
           /\ leaf[t].pc = "action" /\ leaf'[t].pc = "handler"
           /\ leaf'[t].sigs = leaf[t].sigs /\ leaf'[t].handler = leaf[t].handler
           /\ UNCHANGED <<handlers, masks, crossed>>
           /\ action' = [action EXCEPT ![Min(leaf[t].sigs)] = HandlerAction(leaf[t].handler)]
<1>1. leaf' = [leaf EXCEPT ![t].pc = "handler"]
  BY DEF SetAction
<1>2. leaf' \in [Thread -> Leaf] /\ leaf'[t] = [leaf[t] EXCEPT !.pc = "handler"]
  BY <1>1 DEF LeafTypes, Leaf
<1>3. leaf[t] \in Leaf
  BY DEF LeafTypes
<1>4. /\ leaf'[t].pc = "handler" /\ leaf'[t].sigs = leaf[t].sigs
      /\ leaf'[t].handler = leaf[t].handler
  BY <1>2, <1>3 DEF Leaf
<1>5. /\ leaf[t].pc = "action" /\ UNCHANGED <<handlers, masks, crossed>>
      /\ action' = [action EXCEPT ![Min(leaf[t].sigs)] = HandlerAction(leaf[t].handler)]
  BY DEF SetAction, LeafAt, table, history
<1> QED
  BY <1>1, <1>2, <1>4, <1>5 DEF LeafTypes

LEMMA SetHandlerLeaf ==
    ASSUME LeafTypes, NEW t \in Thread, SetHandler(t)
    PROVE  /\ leaf' \in [Thread -> Leaf] /\ \A u \in Thread \ {t} : leaf'[u] = leaf[u]
           /\ leaf[t].pc = "handler" /\ leaf'[t].pc = "mask"
           /\ leaf'[t].sigs = leaf[t].sigs /\ leaf'[t].handler = leaf[t].handler
           /\ UNCHANGED <<action, masks, crossed>>
           /\ handlers' = [handlers EXCEPT ![Min(leaf[t].sigs)] = leaf[t].handler]
<1>1. leaf' = [leaf EXCEPT ![t].pc = "mask"]
  BY DEF SetHandler
<1>2. leaf' \in [Thread -> Leaf] /\ leaf'[t] = [leaf[t] EXCEPT !.pc = "mask"]
  BY <1>1 DEF LeafTypes, Leaf
<1>3. leaf[t] \in Leaf
  BY DEF LeafTypes
<1>4. /\ leaf'[t].pc = "mask" /\ leaf'[t].sigs = leaf[t].sigs
      /\ leaf'[t].handler = leaf[t].handler
  BY <1>2, <1>3 DEF Leaf
<1>5. /\ leaf[t].pc = "handler" /\ UNCHANGED <<action, masks, crossed>>
      /\ handlers' = [handlers EXCEPT ![Min(leaf[t].sigs)] = leaf[t].handler]
  BY DEF SetHandler, LeafAt, kernel, history
<1> QED
  BY <1>1, <1>2, <1>4, <1>5 DEF LeafTypes

LEMMA SetMaskLeaf ==
    ASSUME LeafTypes, NEW t \in Thread, SetMask(t)
    PROVE  /\ leaf' \in [Thread -> Leaf] /\ \A u \in Thread \ {t} : leaf'[u] = leaf[u]
           /\ leaf[t].pc = "mask"
           /\ leaf'[t].sigs = leaf[t].sigs \ {Min(leaf[t].sigs)}
           /\ \/ leaf'[t].pc = "none" /\ leaf'[t].sigs = {}
              \/ leaf'[t].pc = "action" /\ leaf[t].sigs # {Min(leaf[t].sigs)}
           /\ UNCHANGED <<action, handlers, crossed>>
           /\ masks' = [masks EXCEPT ![Min(leaf[t].sigs)] = leaf[t].mask]
<1> DEFINE s == Min(leaf[t].sigs)
<1>1. /\ leaf[t].pc = "mask" /\ UNCHANGED <<action, handlers, crossed>>
      /\ masks' = [masks EXCEPT ![s] = leaf[t].mask]
      /\ leaf' = IF leaf[t].sigs = {s} THEN [leaf EXCEPT ![t] = Idle]
                 ELSE [leaf EXCEPT ![t].pc = "action", ![t].sigs = @ \ {s}]
  BY DEF SetMask, LeafAt, kernel, history
<1> HIDE DEF s
<1>2. leaf[t] \in Leaf
  BY DEF LeafTypes
<1>3. CASE leaf[t].sigs = {s}
  <2>1. leaf' = [leaf EXCEPT ![t] = Idle]
    BY <1>1, <1>3
  <2> QED
    BY <1>1, <1>3, <2>1, IdleLeaf DEF LeafTypes, s
<1>4. CASE leaf[t].sigs # {s}
  <2>1. leaf' = [leaf EXCEPT ![t] = [leaf[t] EXCEPT !.pc = "action", !.sigs = leaf[t].sigs \ {s}]]
    BY <1>1, <1>2, <1>4 DEF LeafTypes, Leaf
  <2> DEFINE r == [leaf[t] EXCEPT !.pc = "action", !.sigs = leaf[t].sigs \ {s}]
  <2>2. r \in Leaf /\ r.pc = "action" /\ r.sigs = leaf[t].sigs \ {s}
    BY <1>2 DEF Leaf, Mask
  <2> HIDE DEF r
  <2>3. leaf' = [leaf EXCEPT ![t] = r]
    BY <2>1 DEF r
  <2> QED
    BY <1>1, <1>4, <2>2, <2>3 DEF LeafTypes, s
<1> QED
  BY <1>3, <1>4

LEMMA SigWaitLeaf ==
    ASSUME SignalsAssumption, LeafTypes, NEW t \in Thread, NEW sigs \in Awaited, SigWait(t, sigs)
    PROVE  /\ leaf' \in [Thread -> Leaf] /\ \A u \in Thread \ {t} : leaf'[u] = leaf[u]
           /\ leaf[t].pc = "none" /\ leaf'[t].pc = "sigwait"
           /\ leaf'[t].sigs = sigs /\ leaf'[t].oacts = action /\ sigs \subseteq Signal
           /\ UNCHANGED <<handlers, masks>>
           /\ crossed' = crossed \cup (sigs \cap AwaitedBySomeone)
           /\ action' = [s \in Signal |-> IF s \in sigs THEN "default" ELSE action[s]]
           /\ \A u \in Thread : ~Setting(u)
<1>1. sigs \in Mask
  BY DEF SignalsAssumption, Mask, Signal
<1> DEFINE r == [Idle EXCEPT !.pc = "sigwait", !.sigs = sigs, !.oacts = action]
<1>2. leaf' = [leaf EXCEPT ![t] = r]
  BY DEF SigWait
<1>3. r \in Leaf /\ r.pc = "sigwait" /\ r.sigs = sigs /\ r.oacts = action
  BY <1>1, IdleLeaf DEF Leaf, LeafTypes
<1> HIDE DEF r
<1>4. /\ leaf[t].pc = "none" /\ UNCHANGED <<handlers, masks>>
      /\ crossed' = crossed \cup (sigs \cap AwaitedBySomeone)
      /\ action' = [s \in Signal |-> IF s \in sigs THEN "default" ELSE action[s]]
      /\ \A u \in Thread : ~Setting(u)
  BY DEF SigWait, MayCall, InCode, LeafAt, MutexFree, Setting, table
<1> QED
  BY <1>1, <1>2, <1>3, <1>4 DEF LeafTypes, Mask

LEMMA SigWaitTakesLeaf ==
    ASSUME LeafTypes, NEW t \in Thread, NEW s, SigWaitTakes(t, s)
    PROVE  /\ leaf' \in [Thread -> Leaf] /\ \A u \in Thread \ {t} : leaf'[u] = leaf[u]
           /\ leaf[t].pc = "sigwait" /\ leaf'[t].pc = "restore"
           /\ leaf'[t].sigs = leaf[t].sigs /\ leaf'[t].oacts = leaf[t].oacts
           /\ UNCHANGED <<action, handlers, masks, crossed>>
<1>1. leaf' = [leaf EXCEPT ![t].pc = "restore"]
  BY DEF SigWaitTakes
<1>2. leaf' \in [Thread -> Leaf] /\ leaf'[t] = [leaf[t] EXCEPT !.pc = "restore"]
  BY <1>1 DEF LeafTypes, Leaf
<1>3. leaf[t] \in Leaf
  BY DEF LeafTypes
<1>4. /\ leaf'[t].pc = "restore" /\ leaf'[t].sigs = leaf[t].sigs
      /\ leaf'[t].oacts = leaf[t].oacts
  BY <1>2, <1>3 DEF Leaf
<1>5. leaf[t].pc = "sigwait" /\ UNCHANGED <<action, handlers, masks, crossed>>
  BY DEF SigWaitTakes, LeafAt, table, history
<1> QED
  BY <1>1, <1>2, <1>4, <1>5 DEF LeafTypes

LEMMA SigWaitReturnsLeaf ==
    ASSUME LeafTypes, NEW t \in Thread, SigWaitReturns(t)
    PROVE  /\ leaf' \in [Thread -> Leaf] /\ \A u \in Thread \ {t} : leaf'[u] = leaf[u]
           /\ leaf[t].pc = "restore" /\ leaf'[t].pc = "none" /\ leaf'[t].sigs = {}
           /\ UNCHANGED <<handlers, masks, crossed>>
           /\ action' = [s \in Signal |->
                            IF s \in leaf[t].sigs THEN leaf[t].oacts[s] ELSE action[s]]
           /\ \A u \in Thread : ~Setting(u)
<1>1. /\ leaf[t].pc = "restore" /\ UNCHANGED <<handlers, masks, crossed>>
      /\ leaf' = [leaf EXCEPT ![t] = Idle]
      /\ action' = [s \in Signal |->
                       IF s \in leaf[t].sigs THEN leaf[t].oacts[s] ELSE action[s]]
      /\ \A u \in Thread : ~Setting(u)
  BY DEF SigWaitReturns, LeafAt, PutBack, MutexFree, Setting, table, history
<1> QED
  BY <1>1, IdleLeaf DEF LeafTypes

\* The signals of a thread that sets handlers are numbers, the smallest is one of them.
LEMMA LeafMin ==
    ASSUME SignalsAssumption, LeafTypes, NEW t \in Thread, leaf[t].sigs # {}
    PROVE  Min(leaf[t].sigs) \in leaf[t].sigs /\ Min(leaf[t].sigs) \in Signal
<1>1. leaf[t] \in Leaf
  BY DEF LeafTypes
<1>2. leaf[t].sigs \subseteq Signal
  BY <1>1 DEF Leaf, Mask
<1>3. leaf[t].sigs \subseteq Nat
  BY <1>2 DEF Signal, SignalsAssumption
<1> QED
  BY <1>2, <1>3, MinElement

\* What a thread that does nothing of the kind needs of the others.
LEMMA LeafExactKept ==
    ASSUME LeafInv, NEW u \in Thread, leaf'[u] = leaf[u], crossed \subseteq crossed',
           Setting(u) => UNCHANGED <<action, handlers>>,
           Awaiting(u) => \A s \in leaf[u].sigs \ crossed' : handlers'[s] = handlers[s]
    PROVE  LeafExact(u)'
<1>1. LeafExact(u)
  BY DEF LeafInv
<1>2. CASE Setting(u)
  <2>1. UNCHANGED <<action, handlers>> /\ leaf[u].pc \notin {"sigwait", "restore"}
    BY <1>2 DEF Setting
  <2> QED
    BY <1>1, <2>1 DEF LeafExact, Setting, Awaiting
<1>3. CASE Awaiting(u)
  <2>1. leaf[u].pc \notin {"none", "action", "handler", "mask"}
    BY <1>3 DEF Awaiting
  <2> QED
    BY <1>1, <1>3, <2>1 DEF LeafExact, Setting, Awaiting
<1>4. CASE ~Setting(u) /\ ~Awaiting(u)
  <2>1. leaf[u].pc \notin {"action", "handler", "mask", "sigwait", "restore"}
    BY <1>4 DEF Setting, Awaiting
  <2> QED
    BY <1>1, <2>1 DEF LeafExact, Setting, Awaiting
<1> QED
  BY <1>2, <1>3, <1>4

\* set-signal-handler! begins.
LEMMA SetSignalHandlerKeeps ==
    ASSUME SignalsAssumption, LeafInv, NEW t \in Thread, NEW set \in Settings,
           SetSignalHandler(t, set[1], set[2], set[3])
    PROVE  LeafInv'
<1>0. LeafTypes
  BY DEF LeafInv
<1>1. /\ leaf' \in [Thread -> Leaf] /\ \A u \in Thread \ {t} : leaf'[u] = leaf[u]
      /\ leaf'[t].pc = "action" /\ leaf'[t].sigs = set[1] /\ set[1] # {}
      /\ set[1] \subseteq Signal
      /\ leaf[t].pc = "none" /\ UNCHANGED <<action, handlers, masks>>
      /\ crossed' = crossed \cup (set[1] \cap AwaitedBySomeone)
      /\ \A u \in Thread : ~Setting(u)
  BY <1>0, SetSignalHandlerLeaf
<1>2. LeafTypes'
  BY <1>0, <1>1 DEF LeafTypes
<1>3. leaf[t].sigs = {}
  BY <1>1 DEF LeafInv, LeafExact
<1>4. ActionsMatch'
  BY <1>1, <1>3 DEF ActionsMatch, LeafInv
<1>5. ASSUME NEW u \in Thread PROVE LeafExact(u)'
  <2>1. CASE u = t
    BY <1>1, <2>1 DEF LeafExact, Setting, Awaiting
  <2>2. CASE u # t
    BY <1>1, <2>2, LeafExactKept
  <2> QED
    BY <2>1, <2>2
<1>6. LeafApart'
  <2>1. ASSUME NEW u \in Thread, NEW w \in Thread, Setting(u)', Setting(w)'
        PROVE  u = w
    BY <1>1, <2>1 DEF Setting
  <2>2. ASSUME NEW u \in Thread, NEW w \in Thread, Setting(u)', Awaiting(w)'
        PROVE  leaf'[u].sigs \cap leaf'[w].sigs \subseteq crossed'
    <3>1. u = t /\ w # t
      BY <1>1, <2>2 DEF Setting, Awaiting
    <3>2. leaf[w].sigs \subseteq AwaitedBySomeone
      BY <1>1, <2>2, <3>1 DEF Awaiting, AwaitedBySomeone
    <3> QED
      BY <1>1, <3>1, <3>2
  <2> QED
    BY <2>1, <2>2 DEF LeafApart
<1> QED
  BY <1>2, <1>4, <1>5, <1>6 DEF LeafInv

\* It sets the action,
LEMMA SetActionKeeps ==
    ASSUME SignalsAssumption, LeafInv, NEW t \in Thread, SetAction(t)
    PROVE  LeafInv'
<1>0. LeafTypes /\ LeafExact(t) /\ leaf[t] \in Leaf
  BY DEF LeafInv, LeafTypes
<1> DEFINE m == Min(leaf[t].sigs)
<1>1. /\ leaf' \in [Thread -> Leaf] /\ \A u \in Thread \ {t} : leaf'[u] = leaf[u]
      /\ leaf[t].pc = "action" /\ leaf'[t].pc = "handler"
      /\ leaf'[t].sigs = leaf[t].sigs /\ leaf'[t].handler = leaf[t].handler
      /\ UNCHANGED <<handlers, masks, crossed>>
      /\ action' = [action EXCEPT ![m] = HandlerAction(leaf[t].handler)]
  BY <1>0, SetActionLeaf
<1>2. Setting(t) /\ leaf[t].sigs # {}
  BY <1>0, <1>1 DEF Setting, LeafExact
<1>3. m \in leaf[t].sigs /\ m \in Signal
  BY <1>0, <1>2, LeafMin
<1> HIDE DEF m
<1>4. HandlerAction(leaf[t].handler) \in Actions
  BY <1>0, HandlerActionType DEF Leaf
<1>5. LeafTypes'
  BY <1>0, <1>1, <1>4 DEF LeafTypes
<1>6. ActionsMatch'
  BY <1>0, <1>1, <1>3, ZenonT(60) DEF ActionsMatch, LeafInv, LeafTypes
<1>7. \A u \in Thread : u # t => ~Setting(u)
  BY <1>2 DEF LeafInv, LeafApart
<1>8. ASSUME NEW u \in Thread PROVE LeafExact(u)'
  <2>1. CASE u = t
    <3>1. action'[m] = HandlerAction(leaf[t].handler)
      BY <1>0, <1>1, <1>3 DEF LeafTypes
    <3> QED
      BY <1>1, <1>2, <2>1, <3>1 DEF LeafExact, Setting, Awaiting, m
  <2>2. CASE u # t
    BY <1>1, <1>7, <2>2, LeafExactKept
  <2> QED
    BY <2>1, <2>2
<1>9. LeafApart'
  BY <1>1, ZenonT(60) DEF LeafInv, LeafApart, Setting, Awaiting
<1> QED
  BY <1>5, <1>6, <1>8, <1>9 DEF LeafInv

\* the handler,
LEMMA SetHandlerKeeps ==
    ASSUME SignalsAssumption, LeafInv, NEW t \in Thread, SetHandler(t)
    PROVE  LeafInv'
<1>0. LeafTypes /\ LeafExact(t) /\ leaf[t] \in Leaf
  BY DEF LeafInv, LeafTypes
<1> DEFINE m == Min(leaf[t].sigs)
<1>1. /\ leaf' \in [Thread -> Leaf] /\ \A u \in Thread \ {t} : leaf'[u] = leaf[u]
      /\ leaf[t].pc = "handler" /\ leaf'[t].pc = "mask"
      /\ leaf'[t].sigs = leaf[t].sigs /\ leaf'[t].handler = leaf[t].handler
      /\ UNCHANGED <<action, masks, crossed>>
      /\ handlers' = [handlers EXCEPT ![m] = leaf[t].handler]
  BY <1>0, SetHandlerLeaf
<1>2. Setting(t) /\ leaf[t].sigs # {} /\ action[m] = HandlerAction(leaf[t].handler)
  BY <1>0, <1>1 DEF Setting, LeafExact
<1>3. m \in leaf[t].sigs /\ m \in Signal
  BY <1>0, <1>2, LeafMin
<1> HIDE DEF m
<1>4. leaf[t].handler \in Handlers
  BY <1>0 DEF Leaf
<1>5. LeafTypes'
  BY <1>0, <1>1, <1>4 DEF LeafTypes
<1>6. ActionsMatch'
  BY <1>0, <1>1, <1>3, ZenonT(60) DEF ActionsMatch, LeafInv, LeafTypes
<1>7. \A u \in Thread : u # t => ~Setting(u)
  BY <1>2 DEF LeafInv, LeafApart
<1>8. ASSUME NEW u \in Thread PROVE LeafExact(u)'
  <2>1. CASE u = t
    <3>1. handlers'[m] = leaf[t].handler
      BY <1>0, <1>1, <1>3 DEF LeafTypes
    <3> QED
      BY <1>1, <1>2, <2>1, <3>1 DEF LeafExact, Setting, Awaiting, m
  <2>2. CASE u # t
    <3>1. Awaiting(u) => m \notin leaf[u].sigs \ crossed
      BY <1>2, <1>3 DEF LeafInv, LeafApart
    <3>2. leaf[u].sigs \subseteq Signal
      BY <1>0 DEF LeafTypes, Leaf, Mask
    <3>3. Awaiting(u) => \A s \in leaf[u].sigs \ crossed : handlers'[s] = handlers[s]
      BY <1>0, <1>1, <3>1, <3>2 DEF LeafTypes
    <3> QED
      BY <1>1, <1>7, <2>2, <3>3, LeafExactKept
  <2> QED
    BY <2>1, <2>2
<1>9. LeafApart'
  BY <1>1 DEF LeafInv, LeafApart, Setting, Awaiting
<1> QED
  BY <1>5, <1>6, <1>8, <1>9 DEF LeafInv

\* and the mask, and goes on to the next signal.
LEMMA SetMaskKeeps ==
    ASSUME SignalsAssumption, LeafInv, NEW t \in Thread, SetMask(t)
    PROVE  LeafInv'
<1>0. LeafTypes /\ LeafExact(t) /\ leaf[t] \in Leaf
  BY DEF LeafInv, LeafTypes
<1> DEFINE m == Min(leaf[t].sigs)
<1>1. /\ leaf' \in [Thread -> Leaf] /\ \A u \in Thread \ {t} : leaf'[u] = leaf[u]
      /\ leaf[t].pc = "mask"
      /\ leaf'[t].sigs = leaf[t].sigs \ {m}
      /\ \/ leaf'[t].pc = "none" /\ leaf'[t].sigs = {}
         \/ leaf'[t].pc = "action" /\ leaf[t].sigs # {m}
      /\ UNCHANGED <<action, handlers, crossed>>
      /\ masks' = [masks EXCEPT ![m] = leaf[t].mask]
  BY <1>0, SetMaskLeaf
<1>2. /\ Setting(t) /\ leaf[t].sigs # {} /\ action[m] = HandlerAction(leaf[t].handler)
      /\ handlers[m] = leaf[t].handler
  BY <1>0, <1>1 DEF Setting, LeafExact
<1>3. m \in leaf[t].sigs /\ m \in Signal
  BY <1>0, <1>2, LeafMin
<1> HIDE DEF m
<1>4. leaf[t].mask \in Mask \cup {NoMask}
  BY <1>0 DEF Leaf
<1>5. LeafTypes'
  BY <1>0, <1>1, <1>4 DEF LeafTypes
<1>6. ActionsMatch'
  <2> SUFFICES ASSUME NEW s \in Signal \ crossed', \A u \in Thread : s \notin leaf'[u].sigs
               PROVE  action'[s] = HandlerAction(handlers'[s])
    BY DEF ActionsMatch
  <2>1. CASE s = m
    BY <1>1, <1>2, <2>1
  <2>2. CASE s # m
    <3>1. \A u \in Thread : s \notin leaf[u].sigs
      BY <1>1, <2>2
    <3> QED
      BY <1>1, <3>1 DEF LeafInv, ActionsMatch
  <2> QED
    BY <2>1, <2>2
<1>7. ASSUME NEW u \in Thread PROVE LeafExact(u)'
  <2>1. CASE u = t
    <3>1. leaf'[t].pc = "action" => leaf'[t].sigs # {}
      BY <1>1, <1>3
    <3> QED
      BY <1>1, <2>1, <3>1 DEF LeafExact, Setting, Awaiting
  <2>2. CASE u # t
    BY <1>1, <2>2, LeafExactKept
  <2> QED
    BY <2>1, <2>2
<1>8. LeafApart'
  <2>1. ASSUME NEW u \in Thread
        PROVE  /\ Setting(u)' => Setting(u) /\ leaf'[u].sigs \subseteq leaf[u].sigs
               /\ Awaiting(u)' => Awaiting(u) /\ leaf'[u].sigs \subseteq leaf[u].sigs
    BY <1>1 DEF Setting, Awaiting
  <2>2. LeafApart
    BY DEF LeafInv
  <2>3. ASSUME NEW u \in Thread, NEW w \in Thread, Setting(u)', Setting(w)'
        PROVE  u = w
    BY <2>1, <2>2, <2>3 DEF LeafApart
  <2>4. ASSUME NEW u \in Thread, NEW w \in Thread, Setting(u)', Awaiting(w)'
        PROVE  leaf'[u].sigs \cap leaf'[w].sigs \subseteq crossed'
    <3>1. leaf[u].sigs \cap leaf[w].sigs \subseteq crossed
      BY <2>1, <2>2, <2>4 DEF LeafApart
    <3> QED
      BY <1>1, <2>1, <2>4, <3>1
  <2> QED
    BY <2>3, <2>4 DEF LeafApart
<1> QED
  BY <1>5, <1>6, <1>7, <1>8 DEF LeafInv

\* sigwait saves the actions of its signals and sets them to the default,
LEMMA SigWaitKeeps ==
    ASSUME SignalsAssumption, LeafInv, NEW t \in Thread, NEW sigs \in Awaited, SigWait(t, sigs)
    PROVE  LeafInv'
<1>0. LeafTypes /\ ActionsMatch
  BY DEF LeafInv
<1>1. /\ leaf' \in [Thread -> Leaf] /\ \A u \in Thread \ {t} : leaf'[u] = leaf[u]
      /\ leaf[t].pc = "none" /\ leaf'[t].pc = "sigwait"
      /\ leaf'[t].sigs = sigs /\ leaf'[t].oacts = action /\ sigs \subseteq Signal
      /\ UNCHANGED <<handlers, masks>>
      /\ crossed' = crossed \cup (sigs \cap AwaitedBySomeone)
      /\ action' = [s \in Signal |-> IF s \in sigs THEN "default" ELSE action[s]]
      /\ \A u \in Thread : ~Setting(u)
  BY <1>0, SigWaitLeaf
<1>2. LeafTypes'
  BY <1>0, <1>1 DEF LeafTypes, Actions
<1>3. leaf[t].sigs = {}
  BY <1>1 DEF LeafInv, LeafExact
<1>4. ActionsMatch'
  <2> SUFFICES ASSUME NEW s \in Signal \ crossed', \A u \in Thread : s \notin leaf'[u].sigs
               PROVE  action'[s] = HandlerAction(handlers'[s])
    BY DEF ActionsMatch
  <2>1. s \notin sigs /\ \A u \in Thread : s \notin leaf[u].sigs
    BY <1>1, <1>3
  <2> QED
    BY <1>0, <1>1, <2>1 DEF ActionsMatch
<1>5. ASSUME NEW u \in Thread PROVE LeafExact(u)'
  <2>1. CASE u = t
    <3>1. ASSUME NEW s \in sigs \ crossed' PROVE action[s] = HandlerAction(handlers[s])
      <4>1. s \in Signal \ crossed /\ s \notin AwaitedBySomeone
        BY <1>1, <3>1
      <4>2. ASSUME NEW w \in Thread PROVE s \notin leaf[w].sigs
        <5>1. leaf[w] \in Leaf /\ LeafExact(w) /\ ~Setting(w)
          BY <1>0, <1>1 DEF LeafTypes, LeafInv
        <5>2. CASE leaf[w].pc = "none"
          BY <5>1, <5>2 DEF LeafExact
        <5>3. CASE leaf[w].pc \in {"sigwait", "restore"}
          BY <4>1, <5>3 DEF AwaitedBySomeone
        <5> QED
          BY <5>1, <5>2, <5>3 DEF Leaf, Setting
      <4> QED
        BY <1>0, <4>1, <4>2 DEF ActionsMatch
    <3>2. leaf'[t].oacts \in [Signal -> Actions]
      BY <1>0, <1>1 DEF LeafTypes
    <3> QED
      BY <1>1, <2>1, <3>1, <3>2 DEF LeafExact, Setting, Awaiting
  <2>2. CASE u # t
    BY <1>1, <2>2, LeafExactKept
  <2> QED
    BY <2>1, <2>2
<1>6. LeafApart'
  <2>1. \A u \in Thread : ~Setting(u)'
    BY <1>1 DEF Setting
  <2> QED
    BY <2>1 DEF LeafApart
<1> QED
  BY <1>2, <1>4, <1>5, <1>6 DEF LeafInv

\* takes a signal,
LEMMA SigWaitTakesKeeps ==
    ASSUME LeafInv, NEW t \in Thread, NEW s, SigWaitTakes(t, s)
    PROVE  LeafInv'
<1>0. LeafTypes /\ LeafExact(t)
  BY DEF LeafInv
<1>1. /\ leaf' \in [Thread -> Leaf] /\ \A u \in Thread \ {t} : leaf'[u] = leaf[u]
      /\ leaf[t].pc = "sigwait" /\ leaf'[t].pc = "restore"
      /\ leaf'[t].sigs = leaf[t].sigs /\ leaf'[t].oacts = leaf[t].oacts
      /\ UNCHANGED <<action, handlers, masks, crossed>>
  BY <1>0, SigWaitTakesLeaf
<1>2. LeafTypes'
  BY <1>0, <1>1 DEF LeafTypes
<1>3. ActionsMatch'
  BY <1>1 DEF LeafInv, ActionsMatch
<1>4. ASSUME NEW u \in Thread PROVE LeafExact(u)'
  <2>1. CASE u = t
    BY <1>0, <1>1, <2>1 DEF LeafExact, Setting, Awaiting
  <2>2. CASE u # t
    BY <1>1, <2>2, LeafExactKept
  <2> QED
    BY <2>1, <2>2
<1>5. LeafApart'
  BY <1>1 DEF LeafInv, LeafApart, Setting, Awaiting
<1> QED
  BY <1>2, <1>3, <1>4, <1>5 DEF LeafInv

\* and puts the actions back.
LEMMA SigWaitReturnsKeeps ==
    ASSUME LeafInv, NEW t \in Thread, SigWaitReturns(t)
    PROVE  LeafInv'
<1>0. LeafTypes /\ LeafExact(t) /\ leaf[t] \in Leaf /\ ActionsMatch
  BY DEF LeafInv, LeafTypes
<1>1. /\ leaf' \in [Thread -> Leaf] /\ \A u \in Thread \ {t} : leaf'[u] = leaf[u]
      /\ leaf[t].pc = "restore" /\ leaf'[t].pc = "none" /\ leaf'[t].sigs = {}
      /\ UNCHANGED <<handlers, masks, crossed>>
      /\ action' = [s \in Signal |->
                       IF s \in leaf[t].sigs THEN leaf[t].oacts[s] ELSE action[s]]
      /\ \A u \in Thread : ~Setting(u)
  BY <1>0, SigWaitReturnsLeaf
<1>2. /\ leaf[t].oacts \in [Signal -> Actions]
      /\ \A s \in leaf[t].sigs \ crossed : leaf[t].oacts[s] = HandlerAction(handlers[s])
  BY <1>0, <1>1 DEF LeafExact, Awaiting
<1>3. LeafTypes'
  BY <1>0, <1>1, <1>2 DEF LeafTypes
<1>4. ActionsMatch'
  <2> SUFFICES ASSUME NEW s \in Signal \ crossed', \A u \in Thread : s \notin leaf'[u].sigs
               PROVE  action'[s] = HandlerAction(handlers'[s])
    BY DEF ActionsMatch
  <2>1. CASE s \in leaf[t].sigs
    BY <1>1, <1>2, <2>1
  <2>2. CASE s \notin leaf[t].sigs
    <3>1. \A u \in Thread : s \notin leaf[u].sigs
      BY <1>1, <2>2
    <3> QED
      BY <1>0, <1>1, <2>2, <3>1 DEF ActionsMatch
  <2> QED
    BY <2>1, <2>2
<1>5. ASSUME NEW u \in Thread PROVE LeafExact(u)'
  <2>1. CASE u = t
    BY <1>1, <2>1 DEF LeafExact, Setting, Awaiting
  <2>2. CASE u # t
    BY <1>1, <2>2, LeafExactKept
  <2> QED
    BY <2>1, <2>2
<1>6. LeafApart'
  <2>1. \A u \in Thread : ~Setting(u)'
    BY <1>1 DEF Setting
  <2> QED
    BY <2>1 DEF LeafApart
<1> QED
  BY <1>3, <1>4, <1>5, <1>6 DEF LeafInv

\* The other actions have nothing to do with the table.
LEMMA LeafFrame ==
    ASSUME LeafInv, UNCHANGED <<action, handlers, masks, leaf, crossed>>
    PROVE  LeafInv'
<1>1. LeafTypes' /\ ActionsMatch' /\ LeafApart'
  BY DEF LeafInv, LeafTypes, ActionsMatch, LeafApart, Setting, Awaiting
<1>2. ASSUME NEW u \in Thread PROVE LeafExact(u)'
  BY LeafExactKept
<1> QED
  BY <1>1, <1>2 DEF LeafInv

LEMMA LeafStep ==
    ASSUME SignalsAssumption, LeafInv, Next
    PROVE  LeafInv'
<1>1. ASSUME NEW s \in Signal, Kill(s) PROVE LeafInv'
  <2>1. UNCHANGED <<action, handlers, masks, leaf, crossed>>
    BY <1>1 DEF Kill, table, history
  <2> QED
    BY <2>1, LeafFrame
<1>2. ASSUME NEW t \in Thread, NEW s \in Signal, Deliver(t, s) PROVE LeafInv'
  <2>1. UNCHANGED <<action, handlers, masks, leaf, crossed>>
    BY <1>2 DEF Deliver, table
  <2> QED
    BY <2>1, LeafFrame
<1>3. ASSUME NEW t \in Thread, Step(t) PROVE LeafInv'
  <2>1. CASE SetAction(t) \/ SetHandler(t) \/ SetMask(t) \/ SigWaitReturns(t)
    BY <2>1, SetActionKeeps, SetHandlerKeeps, SetMaskKeeps, SigWaitReturnsKeeps
  <2>2. CASE \/ SafePoint(t) \/ Copy(t) \/ Clear(t) \/ QueueOne(t)
             \/ CallHandler(t) \/ ReturnFromCheck(t)
             \/ SuspendBlocks(t) \/ SuspendLooks(t) \/ SuspendSleeps(t) \/ SuspendReturns(t)
    <3>1. UNCHANGED <<action, handlers, masks, leaf, crossed>>
      BY <2>2 DEF SafePoint, Copy, Clear, QueueOne, CallHandler, ReturnFromCheck, SuspendBlocks,
                  SuspendLooks, SuspendSleeps, SuspendReturns, table, kernel, history
    <3> QED
      BY <3>1, LeafFrame
  <2> QED
    BY <1>3, <2>1, <2>2 DEF Step
<1>4. ASSUME NEW t \in Thread, HandlerEnds(t) PROVE LeafInv'
  <2>1. UNCHANGED <<action, handlers, masks, leaf, crossed>>
    BY <1>4 DEF HandlerEnds, HandlerReturns, HandlerRaises, table, kernel, history
  <2> QED
    BY <2>1, LeafFrame
<1>5. ASSUME NEW t \in Thread, Request(t) PROVE LeafInv'
  <2>1. CASE (\E m \in {{}, Signal} : SysSigmask(t, m)) \/ (\E m \in {{}, mask[t]} : SigSuspend(t, m))
    <3>1. UNCHANGED <<action, handlers, masks, leaf, crossed>>
      BY <2>1 DEF SysSigmask, SigSuspend, table, kernel, history
    <3> QED
      BY <3>1, LeafFrame
  <2>2. CASE \E set \in Settings : SetSignalHandler(t, set[1], set[2], set[3])
    BY <2>2, SetSignalHandlerKeeps
  <2>3. CASE \E sigs \in Awaited : SigWait(t, sigs)
    BY <2>3, SigWaitKeeps
  <2> QED
    BY <1>5, <2>1, <2>2, <2>3, Zenon DEF Request
<1> QED
  BY <1>1, <1>2, <1>3, <1>4, <1>5, SigWaitTakesKeeps, Zenon DEF Next

\* The invariant of the table holds throughout.
THEOREM LeafInvariance == Spec => []LeafInv
<1>1. Init => LeafInv
  <2> SUFFICES ASSUME Init PROVE LeafInv
    OBVIOUS
  <2>1. /\ action = [s \in Signal |-> "handle"] /\ handlers = [s \in Signal |-> "procedure"]
        /\ masks = InitialMasks /\ leaf = [t \in Thread |-> Idle] /\ crossed = {}
    BY DEF Init
  <2>2. InitialMasks \in [Signal -> Mask \cup {NoMask}]
    BY SignalsAssumption DEF SignalsAssumption, Signal, Mask, NoMask
  <2>3. LeafTypes
    BY <2>1, <2>2, IdleLeaf DEF LeafTypes, Actions, Handlers
  <2>4. HandlerAction("procedure") = "handle"
    BY DEF HandlerAction
  <2>5. ActionsMatch
    BY <2>1, <2>4 DEF ActionsMatch
  <2>6. LeafApart /\ \A t \in Thread : LeafExact(t)
    BY <2>1, IdleLeaf DEF LeafApart, LeafExact, Setting, Awaiting
  <2> QED
    BY <2>3, <2>5, <2>6 DEF LeafInv
<1>2. LeafInv /\ [Next]_vars => LeafInv'
  <2>1. UNCHANGED vars => UNCHANGED <<action, handlers, masks, leaf, crossed>>
    BY DEF vars, kernel, table, history
  <2> QED
    BY <2>1, LeafFrame, LeafStep, SignalsAssumption
<1> QED
  BY <1>1, <1>2, PTL DEF Spec

\* What the kernel does with a signal agrees with the table of handlers: actions,
\* handlers and masks are set one after the other, and put back by sigwait, but
\* sigHandlers.mutex keeps all that apart, but for the crossed signals.
THEOREM HandlersMatchActions == Spec => []ActionsMatch
<1>1. LeafInv => ActionsMatch
  BY DEF LeafInv
<1> QED
  BY <1>1, LeafInvariance, PTL

-----------------------------------------------------------------------------
(* The calls under way in a thread, as a list st with the innermost call last.  *)

CheckStages == {"check", "clear", "queue", "walk", "handler"}

\* Below the innermost call there are handlers, and sigsuspends that process what they
\* have found pending; nothing sleeps on top of a sigsuspend.
Below(st, i) ==
    /\ st[i].pc \in {"handler", "suspend"}
    /\ st[i].pc = "suspend" => st[i + 1].pc \in CheckStages
Nested(st) == \A i \in 1 .. Len(st) - 1 : Below(st, i)

\* What a call needs, when n cells have been consed: a handler has its cell, and there
\* is something to queue.
FrameFit(frame, n) ==
    /\ frame.sp <= n
    /\ frame.pc = "handler" => frame.sp # Nil
    /\ frame.pc \in {"clear", "queue"} => frame.got # {}
Fit(st, n) == \A i \in 1 .. Len(st) : FrameFit(st[i], n)

\* Where the mask of the interrupted code is: saved in the call, or in force (m) if the
\* call is the innermost one, or as the call above it has it.
Keeping(frame) ==
    frame.pc \in {"clear", "handler", "blocked", "ready", "asleep", "woken"} =>
        frame.omask = frame.entry
InForce(frame, m) == frame.pc \in {"check", "queue", "walk", "suspend"} => m = frame.entry
Handed(st, i) == st[i].pc = "suspend" => st[i + 1].entry = st[i].entry
Saved(st, m) ==
    /\ \A i \in 1 .. Len(st) : Keeping(st[i])
    /\ \A i \in 1 .. Len(st) - 1 : Handed(st, i)
    /\ st # <<>> => InForce(st[Len(st)], m)

\* A sigsuspend that has found nothing pending has all signals blocked until it sleeps.
QuietFrame(frame, m, p, c) ==
    /\ frame.pc \in {"blocked", "ready"} => m = Signal
    /\ frame.pc \in {"ready", "asleep"} => ~ p /\ \A s \in Signal : c[s] = 0
Quiet(st, m, p, c) == st # <<>> => QuietFrame(st[Len(st)], m, p, c)

Replace(st, frame) == [st EXCEPT ![Len(st)] = frame]
Cut(st, n) == SubSeq(st, 1, n)

\* The innermost call goes on to another stage,
LEMMA ReplaceFacts ==
    ASSUME NEW st \in Seq(Frame), st # <<>>, NEW frame \in Frame
    PROVE  /\ Replace(st, frame) \in Seq(Frame) /\ Replace(st, frame) # <<>>
           /\ Len(Replace(st, frame)) = Len(st) /\ Len(st) \in Nat \ {0}
           /\ Replace(st, frame)[Len(st)] = frame
           /\ \A i \in 1 .. Len(st) - 1 : Replace(st, frame)[i] = st[i]
<1>1. Len(st) \in Nat \ {0}
  BY EmptySeq, LenProperties
<1>2. Len(st) \in 1 .. Len(st)
  BY <1>1
<1>3. /\ Replace(st, frame) \in Seq(Frame)
      /\ Len(Replace(st, frame)) = Len(st)
      /\ \A j \in 1 .. Len(st) : Replace(st, frame)[j] = IF j = Len(st) THEN frame ELSE st[j]
  BY <1>2, ExceptSeq DEF Replace
<1>4. Replace(st, frame) # <<>>
  BY <1>1, <1>3, EmptySeq
<1> QED
  BY <1>1, <1>2, <1>3, <1>4

LEMMA ReplaceKeeps ==
    ASSUME NEW st \in Seq(Frame), st # <<>>, NEW frame \in Frame, NEW n, NEW m,
           Nested(st), Fit(st, n), FrameFit(frame, n),
           frame.pc \in CheckStages \/ st[Len(st)].pc \notin CheckStages
    PROVE  /\ Nested(Replace(st, frame)) /\ Fit(Replace(st, frame), n)
           /\ \A m0 : /\ Saved(st, m0) /\ Keeping(frame) /\ InForce(frame, m)
                      /\ frame.entry = st[Len(st)].entry
                      => Saved(Replace(st, frame), m)
<1> DEFINE new == Replace(st, frame)
<1>1. /\ new \in Seq(Frame) /\ new # <<>> /\ Len(new) = Len(st) /\ Len(st) \in Nat \ {0}
      /\ new[Len(st)] = frame
      /\ \A i \in 1 .. Len(st) - 1 : new[i] = st[i]
  BY ReplaceFacts
<1> HIDE DEF new
<1>2. \A i \in 1 .. Len(st) : i = Len(st) \/ i \in 1 .. Len(st) - 1
  BY <1>1
<1>3. Fit(new, n)
  BY <1>1, <1>2 DEF Fit
<1>4. ASSUME NEW i \in 1 .. Len(st) - 1 PROVE Below(new, i)
  <2>1. new[i] = st[i] /\ Below(st, i)
    BY <1>1 DEF Nested
  <2>2. i + 1 = Len(st) \/ i + 1 \in 1 .. Len(st) - 1
    BY <1>1
  <2>3. CASE i + 1 = Len(st)
    BY <1>1, <2>1, <2>3 DEF Below
  <2>4. CASE i + 1 \in 1 .. Len(st) - 1
    BY <1>1, <2>1, <2>4 DEF Below
  <2> QED
    BY <2>2, <2>3, <2>4
<1>5. Nested(new)
  BY <1>1, <1>4 DEF Nested
<1>6. ASSUME NEW m0, Saved(st, m0), Keeping(frame), InForce(frame, m),
             frame.entry = st[Len(st)].entry
      PROVE  Saved(new, m)
  <2>1. \A i \in 1 .. Len(new) : Keeping(new[i])
    BY <1>1, <1>2, <1>6 DEF Saved
  <2>2. ASSUME NEW i \in 1 .. Len(st) - 1 PROVE Handed(new, i)
    <3>1. new[i] = st[i] /\ Handed(st, i)
      BY <1>1, <1>6 DEF Saved
    <3>2. i + 1 = Len(st) \/ i + 1 \in 1 .. Len(st) - 1
      BY <1>1
    <3> QED
      BY <1>1, <1>6, <3>1, <3>2 DEF Handed
  <2> QED
    BY <1>1, <1>6, <2>1, <2>2 DEF Saved
<1> QED
  BY <1>3, <1>5, <1>6 DEF new

\* another call begins,
LEMMA AppendKeeps ==
    ASSUME NEW st \in Seq(Frame), NEW frame \in Frame, NEW n, NEW m,
           Nested(st), Fit(st, n), FrameFit(frame, n),
           \/ st = <<>>
           \/ st[Len(st)].pc = "handler"
           \/ st[Len(st)].pc = "suspend" /\ frame.pc \in CheckStages
    PROVE  /\ Append(st, frame) \in Seq(Frame) /\ Append(st, frame) # <<>>
           /\ Append(st, frame)[Len(Append(st, frame))] = frame
           /\ Nested(Append(st, frame)) /\ Fit(Append(st, frame), n)
           /\ \A m0 : /\ Saved(st, m0) /\ Keeping(frame) /\ InForce(frame, m)
                      /\ st # <<>> => Handed(Append(st, frame), Len(st))
                      => Saved(Append(st, frame), m)
<1> DEFINE new == Append(st, frame)
<1>1. /\ new \in Seq(Frame) /\ new # <<>> /\ Len(new) = Len(st) + 1 /\ Len(st) \in Nat
      /\ new[Len(st) + 1] = frame
      /\ \A i \in 1 .. Len(st) : new[i] = st[i]
  BY AppendProperties, LenProperties
<1> HIDE DEF new
<1>2. \A i \in 1 .. Len(new) : i = Len(st) + 1 \/ i \in 1 .. Len(st)
  BY <1>1
<1>3. Fit(new, n)
  BY <1>1, <1>2 DEF Fit
<1>4. ASSUME NEW i \in 1 .. Len(st) PROVE Below(new, i)
  <2>1. st # <<>> /\ new[i] = st[i]
    BY <1>1
  <2>2. CASE i = Len(st)
    BY <1>1, <2>1, <2>2 DEF Below
  <2>3. CASE i # Len(st)
    <3>1. Below(st, i) /\ new[i + 1] = st[i + 1]
      BY <1>1, <2>3 DEF Nested
    <3> QED
      BY <2>1, <3>1 DEF Below
  <2> QED
    BY <2>2, <2>3
<1>5. Nested(new)
  BY <1>1, <1>4 DEF Nested
<1>6. ASSUME NEW m0, Saved(st, m0), Keeping(frame), InForce(frame, m),
             st # <<>> => Handed(new, Len(st))
      PROVE  Saved(new, m)
  <2>1. \A i \in 1 .. Len(new) : Keeping(new[i])
    BY <1>1, <1>2, <1>6 DEF Saved
  <2>2. ASSUME NEW i \in 1 .. Len(st) PROVE Handed(new, i)
    <3>1. CASE i = Len(st)
      BY <1>1, <1>6, <3>1
    <3>2. CASE i # Len(st)
      <4>1. new[i] = st[i] /\ new[i + 1] = st[i + 1] /\ Handed(st, i)
        BY <1>1, <1>6, <3>2 DEF Saved
      <4> QED
        BY <4>1 DEF Handed
    <3> QED
      BY <3>1, <3>2
  <2> QED
    BY <1>1, <1>6, <2>1, <2>2 DEF Saved
<1> QED
  BY <1>1, <1>3, <1>5, <1>6 DEF new

\* and calls are left, down to the first n of them.
LEMMA CutKeeps ==
    ASSUME NEW st \in Seq(Frame), NEW k \in Nat, k < Len(st), NEW n, NEW m,
           Nested(st), Fit(st, n)
    PROVE  /\ Cut(st, k) \in Seq(Frame) /\ Len(Cut(st, k)) = k
           /\ Cut(st, k) # <<>> => /\ k > 0 /\ Cut(st, k)[k] = st[k]
                                   /\ st[k].pc \in {"handler", "suspend"}
           /\ Nested(Cut(st, k)) /\ Fit(Cut(st, k), n)
           /\ \A m0 : /\ Saved(st, m0)
                      /\ k > 0 => InForce(st[k], m)
                      => Saved(Cut(st, k), m)
<1> DEFINE new == Cut(st, k)
<1>0. Len(st) \in Nat
  BY LenProperties
<1>1. \A i \in 1 .. k : st[i] \in Frame /\ i \in 1 .. Len(st) - 1 /\ i \in 1 .. Len(st)
  BY <1>0, ElementOfSeq
<1>2. /\ new \in Seq(Frame) /\ Len(new) = k /\ \A i \in 1 .. k : new[i] = st[i]
  BY <1>1, SubSeqProperties DEF Cut
<1> HIDE DEF new
<1>3. new # <<>> => k > 0
  BY <1>2, EmptySeq
<1>4. k > 0 => new[k] = st[k] /\ st[k].pc \in {"handler", "suspend"}
  BY <1>1, <1>2 DEF Nested, Below
<1>5. Fit(new, n)
  BY <1>1, <1>2 DEF Fit
<1>6. \A i \in 1 .. k - 1 : i \in 1 .. k /\ i + 1 \in 1 .. k
  OBVIOUS
<1>7. ASSUME NEW i \in 1 .. k - 1 PROVE Below(new, i)
  <2>1. Below(st, i) /\ new[i] = st[i] /\ new[i + 1] = st[i + 1]
    BY <1>1, <1>2, <1>6 DEF Nested
  <2> QED
    BY <2>1 DEF Below
<1>8. Nested(new)
  BY <1>2, <1>7 DEF Nested
<1>9. ASSUME NEW m0, Saved(st, m0), k > 0 => InForce(st[k], m) PROVE Saved(new, m)
  <2>1. \A i \in 1 .. Len(new) : Keeping(new[i])
    BY <1>1, <1>2, <1>9 DEF Saved
  <2>2. ASSUME NEW i \in 1 .. k - 1 PROVE Handed(new, i)
    <3>1. Handed(st, i) /\ new[i] = st[i] /\ new[i + 1] = st[i + 1]
      BY <1>1, <1>2, <1>6, <1>9 DEF Saved
    <3> QED
      BY <3>1 DEF Handed
  <2> QED
    BY <1>2, <1>3, <1>4, <1>9, <2>1, <2>2 DEF Saved
<1> QED
  BY <1>2, <1>3, <1>4, <1>5, <1>8, <1>9 DEF new

-----------------------------------------------------------------------------
(* The threads.                                                                *)

Cell == [sig : Signal, mask : Mask \cup {NoMask}]

SigTypes ==
    /\ arrived \subseteq Signal /\ mask \in [Thread -> Mask] /\ ended \in BOOLEAN
    /\ sigcounts \in [Thread -> [Signal -> Nat]]
    /\ signalPending \in [Thread -> BOOLEAN] /\ attentionRequest \in [Thread -> BOOLEAN]
    /\ cells \in [Thread -> Seq(Cell)] /\ cdr \in [Thread -> Seq(Nat)]
    /\ pending \in [Thread -> Nat] /\ stack \in [Thread -> Seq(Frame)]
    /\ owed \in [Thread -> SUBSET Signal]
    /\ raised \subseteq Thread /\ clobbered \subseteq Thread

\* The queue p, with the cells cs and their cdrs d: every index is that of a cell.
Linked(cs, d, p) ==
    /\ Len(d) = Len(cs) /\ p <= Len(cs)
    /\ \A i \in 1 .. Len(d) : d[i] <= Len(cs)

AllMasked(cs) == \A i \in 1 .. Len(cs) : cs[i].mask # NoMask

\* The flag is up when something is counted, and only then.
Flag(p, c, e) ==
    /\ p => \E s \in Signal : c[s] > 0
    /\ ~ e /\ ~ p => \A s \in Signal : c[s] = 0

Good(t) ==
    /\ Linked(cells[t], cdr[t], pending[t])
    /\ Nested(stack[t]) /\ Fit(stack[t], Len(cells[t]))
    /\ AllMasked(cells[t]) => Saved(stack[t], mask[t])
    /\ Quiet(stack[t], mask[t], signalPending[t], sigcounts[t])
    /\ Flag(signalPending[t], sigcounts[t], ended)

SigInv == SigTypes /\ \A t \in Thread : Good(t)

\* An action of t leaves alone what the other threads have.
Others(t) ==
    \A u \in Thread \ {t} :
        /\ stack'[u] = stack[u] /\ mask'[u] = mask[u]
        /\ signalPending'[u] = signalPending[u] /\ sigcounts'[u] = sigcounts[u]
        /\ cells'[u] = cells[u] /\ cdr'[u] = cdr[u] /\ pending'[u] = pending[u]

\* A call that is left gives the mask back.
Restores(t) ==
    Len(stack'[t]) < Len(stack[t]) /\ AllMasked(cells[t]) =>
        mask'[t] = stack[t][Len(stack'[t]) + 1].entry

Moves(t) == ~ ended /\ Others(t) /\ SigTypes' /\ Good(t)' /\ Restores(t)

LEMMA MovesKeeps ==
    ASSUME SigInv, NEW t \in Thread, Moves(t)
    PROVE  SigInv' /\ \A u \in Thread : Restores(u)
<1>1. ASSUME NEW u \in Thread, u # t PROVE Good(u)' /\ Restores(u)
  <2>1. /\ stack'[u] = stack[u] /\ mask'[u] = mask[u]
        /\ signalPending'[u] = signalPending[u] /\ sigcounts'[u] = sigcounts[u]
        /\ cells'[u] = cells[u] /\ cdr'[u] = cdr[u] /\ pending'[u] = pending[u]
    BY <1>1 DEF Moves, Others
  <2>2. Good(u) /\ ~ ended /\ Len(stack[u]) \in Nat
    BY LenProperties DEF SigInv, Moves, SigTypes
  <2>3. Flag(signalPending'[u], sigcounts'[u], ended')
    BY <2>1, <2>2 DEF Good, Flag
  <2>4. Good(u)'
    BY <2>1, <2>2, <2>3 DEF Good
  <2>5. Restores(u)
    BY <2>1, <2>2 DEF Restores
  <2> QED
    BY <2>4, <2>5
<1>2. SigTypes' /\ Good(t)' /\ Restores(t)
  BY DEF Moves
<1> QED
  BY <1>1, <1>2 DEF SigInv

\* An action that does not touch any of that.
LEMMA SigFrame ==
    ASSUME SigInv, SigTypes',
           UNCHANGED <<stack, mask, signalPending, sigcounts, cells, cdr, pending, ended>>
    PROVE  SigInv' /\ \A u \in Thread : Restores(u)
<1>1. ASSUME NEW u \in Thread PROVE Good(u)' /\ Restores(u)
  <2>1. Good(u) /\ Len(stack[u]) \in Nat
    BY LenProperties DEF SigInv, SigTypes
  <2> QED
    BY <2>1 DEF Good, Restores
<1> QED
  BY <1>1 DEF SigInv

\* The call a thread executes.
LEMMA TopFacts ==
    ASSUME SigInv, NEW t \in Thread, stack[t] # <<>>
    PROVE  /\ stack[t] \in Seq(Frame) /\ Len(stack[t]) \in Nat \ {0}
           /\ Top(t) = stack[t][Len(stack[t])] /\ Top(t) \in Frame
           /\ Len(cells[t]) \in Nat /\ FrameFit(Top(t), Len(cells[t]))
           /\ AllMasked(cells[t]) => Keeping(Top(t)) /\ InForce(Top(t), mask[t])
           /\ QuietFrame(Top(t), mask[t], signalPending[t], sigcounts[t])
<1>1. stack[t] \in Seq(Frame) /\ cells[t] \in Seq(Cell) /\ Good(t)
  BY DEF SigInv, SigTypes
<1>2. Len(stack[t]) \in Nat \ {0} /\ Len(cells[t]) \in Nat
  BY <1>1, EmptySeq, LenProperties
<1>3. Len(stack[t]) \in 1 .. Len(stack[t])
  BY <1>2
<1>4. Top(t) = stack[t][Len(stack[t])] /\ Top(t) \in Frame
  BY <1>1, <1>3, ElementOfSeq DEF Top
<1>5. FrameFit(Top(t), Len(cells[t]))
  BY <1>1, <1>3, <1>4 DEF Good, Fit
<1>6. AllMasked(cells[t]) => Keeping(Top(t)) /\ InForce(Top(t), mask[t])
  BY <1>1, <1>3, <1>4 DEF Good, Saved
<1>7. QuietFrame(Top(t), mask[t], signalPending[t], sigcounts[t])
  BY <1>1, <1>4 DEF Good, Quiet
<1> QED
  BY <1>1, <1>2, <1>4, <1>5, <1>6, <1>7

LEMMA SetTopFacts ==
    ASSUME SigTypes, NEW t \in Thread, NEW frame
    PROVE  SetTop(t, frame) = [stack EXCEPT ![t] = Replace(stack[t], frame)]
  BY DEF SigTypes, SetTop, Replace

\* The call a thread executes goes on to another stage.
LEMMA MoveTop ==
    ASSUME SigInv, NEW t \in Thread, stack[t] # <<>>, NEW frame \in Frame,
           ~ ended, SigTypes', Others(t), stack' = SetTop(t, frame),
           Linked(cells'[t], cdr'[t], pending'[t]), Len(cells[t]) <= Len(cells'[t]),
           FrameFit(frame, Len(cells'[t])),
           frame.pc \in CheckStages \/ Top(t).pc \notin CheckStages,
           AllMasked(cells'[t]) =>
               /\ AllMasked(cells[t])
               /\ Keeping(frame) /\ InForce(frame, mask'[t]) /\ frame.entry = Top(t).entry,
           QuietFrame(frame, mask'[t], signalPending'[t], sigcounts'[t]),
           Flag(signalPending'[t], sigcounts'[t], ended')
    PROVE  Moves(t)
<1> DEFINE st == stack[t]
<1>1. /\ st \in Seq(Frame) /\ st # <<>> /\ Top(t) = st[Len(st)]
      /\ Good(t) /\ SigTypes
  BY TopFacts DEF SigInv
<1>2. stack'[t] = Replace(st, frame)
  BY <1>1, SetTopFacts DEF SigTypes
<1>3. Len(cells[t]) \in Nat /\ Len(cells'[t]) \in Nat
  BY <1>1, LenProperties DEF SigTypes
<1>4. Fit(st, Len(cells'[t])) /\ Nested(st)
  <2>1. ASSUME NEW i \in 1 .. Len(st) PROVE FrameFit(st[i], Len(cells'[t]))
    <3>1. st[i] \in Frame /\ FrameFit(st[i], Len(cells[t]))
      BY <1>1, ElementOfSeq DEF Good, Fit
    <3>2. st[i].sp \in Nat
      BY <3>1 DEF Frame
    <3> QED
      BY <1>3, <3>1, <3>2 DEF FrameFit
  <2> QED
    BY <1>1, <2>1 DEF Fit, Good
<1> HIDE DEF st
<1> DEFINE new == Replace(st, frame)
<1>5. /\ Nested(new) /\ Fit(new, Len(cells'[t]))
      /\ \A m0 : /\ Saved(st, m0) /\ Keeping(frame) /\ InForce(frame, mask'[t])
                 /\ frame.entry = st[Len(st)].entry
                 => Saved(new, mask'[t])
  <2>1. frame.pc \in CheckStages \/ st[Len(st)].pc \notin CheckStages
    BY <1>1
  <2> QED
    BY <1>1, <1>4, <2>1, ReplaceKeeps, Zenon
<1>6. new[Len(new)] = frame /\ Len(new) = Len(st) /\ Len(st) \in Nat
  BY <1>1, ReplaceFacts, ZenonT(60)
<1>7. stack'[t] = new
  BY <1>2
<1> HIDE DEF new
<1>8. AllMasked(cells'[t]) => Saved(stack'[t], mask'[t])
  <2>1. AllMasked(cells[t]) => Saved(st, mask[t])
    BY <1>1 DEF Good, st
  <2> QED
    BY <1>7, <1>1, <1>5, <2>1
<1>9. Quiet(stack'[t], mask'[t], signalPending'[t], sigcounts'[t])
  BY <1>7, <1>6 DEF Quiet
<1>10. Good(t)'
  BY <1>7, <1>5, <1>8, <1>9 DEF Good
<1>11. Restores(t)
  BY <1>7, <1>6 DEF Restores, st
<1> QED
  BY <1>10, <1>11 DEF Moves

\* Only the stage and the mask change.
LEMMA MoveStage ==
    ASSUME SigInv, NEW t \in Thread, stack[t] # <<>>, NEW frame \in Frame, NEW m \in Mask,
           ~ ended, stack' = SetTop(t, frame), mask' = [mask EXCEPT ![t] = m],
           UNCHANGED <<arrived, signalPending, sigcounts, attentionRequest, ended, cells, cdr, pending,
                       owed, raised, clobbered>>,
           FrameFit(frame, Len(cells[t])),
           frame.pc \in CheckStages \/ Top(t).pc \notin CheckStages,
           AllMasked(cells[t]) =>
               Keeping(frame) /\ InForce(frame, m) /\ frame.entry = Top(t).entry,
           QuietFrame(frame, m, signalPending[t], sigcounts[t])
    PROVE  Moves(t)
<1>1. SigTypes /\ Good(t)
  BY DEF SigInv
<1>2. stack' = [stack EXCEPT ![t] = Replace(stack[t], frame)]
  BY <1>1, SetTopFacts
<1>3. Replace(stack[t], frame) \in Seq(Frame)
  BY <1>1, ReplaceFacts DEF SigTypes
<1>4. SigTypes'
  BY <1>1, <1>2, <1>3 DEF SigTypes
<1>5. Others(t)
  BY <1>1, <1>2 DEF Others, SigTypes
<1>6. mask'[t] = m /\ Len(cells[t]) <= Len(cells[t])
  BY <1>1, LenProperties DEF SigTypes
<1>7. Flag(signalPending'[t], sigcounts'[t], ended') /\ Linked(cells'[t], cdr'[t], pending'[t])
  BY <1>1 DEF Good
<1> QED
  BY <1>4, <1>5, <1>6, <1>7, MoveTop

\* A thread leaves all but the first n calls.
LEMMA MoveCut ==
    ASSUME SigInv, NEW t \in Thread, NEW n \in Nat, n < Len(stack[t]),
           ~ ended, SigTypes', Others(t), stack'[t] = Cut(stack[t], n),
           AllMasked(cells[t]) => mask'[t] = stack[t][n + 1].entry,
           UNCHANGED <<signalPending, sigcounts, ended>>,
           \/ cells'[t] = cells[t] /\ cdr'[t] = cdr[t] /\ pending'[t] = pending[t]
           \/ cells'[t] = <<>> /\ cdr'[t] = <<>> /\ pending'[t] = 0 /\ stack'[t] = <<>>
    PROVE  Moves(t)
<1> DEFINE st == stack[t]
           new == Cut(st, n)
<1>1. st \in Seq(Frame) /\ Good(t) /\ SigTypes /\ Len(st) \in Nat
  BY LenProperties DEF SigInv, SigTypes
<1>2. Nested(st) /\ Fit(st, Len(cells[t])) /\ (AllMasked(cells[t]) => Saved(st, mask[t]))
  BY <1>1 DEF Good
<1>3. stack'[t] = new /\ n < Len(st) /\ (AllMasked(cells[t]) => mask'[t] = st[n + 1].entry)
  OBVIOUS
<1> HIDE DEF st
<1>4. /\ new \in Seq(Frame) /\ Len(new) = n
      /\ new # <<>> => n > 0 /\ new[n] = st[n] /\ st[n].pc \in {"handler", "suspend"}
      /\ Nested(new) /\ Fit(new, Len(cells[t]))
      /\ \A m0 : /\ Saved(st, m0)
                 /\ n > 0 => InForce(st[n], mask'[t])
                 => Saved(new, mask'[t])
  BY <1>1, <1>2, <1>3, CutKeeps, Zenon
<1> HIDE DEF new
<1>5. ASSUME AllMasked(cells[t]), n > 0 PROVE InForce(st[n], mask'[t])
  <2>1. n \in 1 .. Len(st) - 1 /\ Saved(st, mask[t]) /\ mask'[t] = st[n + 1].entry
    BY <1>1, <1>2, <1>3, <1>5
  <2>2. Handed(st, n) /\ Below(st, n)
    BY <1>2, <2>1 DEF Saved, Nested
  <2> QED
    BY <2>1, <2>2 DEF Handed, Below, InForce
<1>6. AllMasked(cells[t]) => Saved(new, mask'[t])
  BY <1>2, <1>4, <1>5
<1>7. Quiet(new, mask'[t], signalPending'[t], sigcounts'[t])
  BY <1>4 DEF Quiet, QuietFrame
<1>8. Flag(signalPending'[t], sigcounts'[t], ended')
  BY <1>1 DEF Good
<1>9. ASSUME cells'[t] = cells[t], cdr'[t] = cdr[t], pending'[t] = pending[t]
      PROVE  Good(t)'
  BY <1>1, <1>3, <1>4, <1>6, <1>7, <1>8, <1>9 DEF Good
<1>10. ASSUME cells'[t] = <<>>, cdr'[t] = <<>>, pending'[t] = 0, stack'[t] = <<>>
       PROVE  Good(t)'
  <2>1. Len(<<>>) = 0
    OBVIOUS
  <2>2. Linked(cells'[t], cdr'[t], pending'[t])
    BY <1>10, <2>1 DEF Linked
  <2>3. Nested(stack'[t]) /\ Fit(stack'[t], Len(cells'[t]))
    BY <1>10, <2>1 DEF Nested, Fit
  <2>4. Saved(stack'[t], mask'[t])
    BY <1>10, <2>1 DEF Saved
  <2> QED
    BY <1>3, <1>7, <1>8, <2>2, <2>3, <2>4 DEF Good
<1>11. Restores(t)
  BY <1>3, <1>4 DEF Restores, st
<1> QED
  BY <1>9, <1>10, <1>11 DEF Moves

\* A call begins.
LEMMA MovePush ==
    ASSUME SigInv, NEW t \in Thread, NEW frame \in Frame,
           ~ ended, SigTypes', Others(t), stack' = Push(t, frame),
           stack[t] = <<>> \/ Top(t).pc = "handler",
           frame.pc \in {"check", "suspend"}, frame.sp = 0, frame.entry = mask[t],
           UNCHANGED <<mask, signalPending, sigcounts, ended, cells, cdr, pending>>
    PROVE  Moves(t)
<1> DEFINE st == stack[t]
           new == Append(st, frame)
<1>1. st \in Seq(Frame) /\ Good(t) /\ SigTypes /\ Len(st) \in Nat /\ Len(cells[t]) \in Nat
  BY LenProperties DEF SigInv, SigTypes
<1>2. Nested(st) /\ Fit(st, Len(cells[t])) /\ (AllMasked(cells[t]) => Saved(st, mask[t]))
  BY <1>1 DEF Good
<1>3. st = <<>> \/ st[Len(st)].pc = "handler"
  BY DEF Top
<1>4. stack'[t] = new
  BY <1>1 DEF Push, SigTypes
<1>5. FrameFit(frame, Len(cells[t])) /\ Keeping(frame) /\ InForce(frame, mask[t])
  BY <1>1 DEF FrameFit, Keeping, InForce
<1> HIDE DEF st
<1>6. /\ new \in Seq(Frame) /\ new # <<>> /\ new[Len(new)] = frame
      /\ Nested(new) /\ Fit(new, Len(cells[t]))
      /\ \A m0 : /\ Saved(st, m0) /\ Keeping(frame) /\ InForce(frame, mask[t])
                 /\ st # <<>> => Handed(new, Len(st))
                 => Saved(new, mask[t])
  BY <1>1, <1>2, <1>3, <1>5, AppendKeeps, Zenon
<1>7. Len(new) = Len(st) + 1 /\ \A i \in 1 .. Len(st) : new[i] = st[i]
  BY <1>1, AppendProperties
<1> HIDE DEF new
<1>8. st # <<>> => Handed(new, Len(st))
  <2>1. st # <<>> => Len(st) \in 1 .. Len(st)
    BY <1>1, EmptySeq
  <2> QED
    BY <1>3, <1>7, <2>1 DEF Handed
<1>9. AllMasked(cells[t]) => Saved(new, mask[t])
  BY <1>2, <1>5, <1>6, <1>8
<1>10. Quiet(new, mask[t], signalPending[t], sigcounts[t])
  BY <1>6 DEF Quiet, QuietFrame
<1>11. Good(t)'
  BY <1>1, <1>4, <1>6, <1>9, <1>10 DEF Good
<1>12. Restores(t)
  BY <1>1, <1>4, <1>7 DEF Restores, st
<1> QED
  BY <1>11, <1>12 DEF Moves

\* The calls stay as they are.
LEMMA MoveNone ==
    ASSUME SigInv, NEW t \in Thread, ~ ended, SigTypes', Others(t),
           UNCHANGED <<stack, cells, cdr, pending>>,
           AllMasked(cells[t]) => Saved(stack[t], mask'[t]),
           Quiet(stack[t], mask'[t], signalPending'[t], sigcounts'[t]),
           Flag(signalPending'[t], sigcounts'[t], ended')
    PROVE  Moves(t)
<1>1. Good(t) /\ Len(stack[t]) \in Nat
  BY LenProperties DEF SigInv, SigTypes
<1>2. Good(t)'
  BY <1>1 DEF Good
<1>3. Restores(t)
  BY <1>1 DEF Restores
<1> QED
  BY <1>2, <1>3 DEF Moves

\* A call that begins.
LEMMA CallFacts ==
    ASSUME SigTypes, NEW t \in Thread, NEW pc \in {"check", "suspend"}, NEW arg \in Mask
    PROVE  /\ Call(pc, t, arg) \in Frame /\ Call(pc, t, arg).pc = pc
           /\ Call(pc, t, arg).sp = 0 /\ Call(pc, t, arg).entry = mask[t]
<1>1. mask[t] \in Mask /\ {} \in Mask
  BY DEF SigTypes, Mask
<1> QED
  BY <1>1 DEF Call, Frame, Nil

-----------------------------------------------------------------------------
(* The actions.                                                                *)

\* The VM notices the request.
LEMMA SafePointMoves ==
    ASSUME SigInv, NEW t \in Thread, SafePoint(t)
    PROVE  Moves(t)
<1>1. SigTypes
  BY DEF SigInv
<1> DEFINE frame == Call("check", t, {})
<1>2. frame \in Frame /\ frame.pc = "check" /\ frame.sp = 0 /\ frame.entry = mask[t]
  BY <1>1, CallFacts DEF Mask
<1>3. /\ ~ ended /\ stack' = Push(t, frame) /\ (stack[t] = <<>> \/ Top(t).pc = "handler")
      /\ attentionRequest' = [attentionRequest EXCEPT ![t] = FALSE]
      /\ UNCHANGED <<arrived, mask, signalPending, sigcounts, ended, cells, cdr, pending, owed, raised, clobbered>>
  BY DEF SafePoint, InCode, LeafAt, At, kernel, queue, history
<1> HIDE DEF frame
<1>4. stack' = [stack EXCEPT ![t] = Append(stack[t], frame)]
  BY <1>1, <1>3 DEF Push, SigTypes
<1>5. SigTypes'
  BY <1>1, <1>2, <1>3, <1>4, AppendProperties DEF SigTypes
<1>6. Others(t)
  BY <1>1, <1>3, <1>4 DEF Others, SigTypes
<1> QED
  BY <1>2, <1>3, <1>5, <1>6, MovePush

\* Scm_SigCheck finds nothing to do, or blocks every signal and copies the counters.
LEMMA CopyMoves ==
    ASSUME SigInv, NEW t \in Thread, Copy(t)
    PROVE  Moves(t)
<1>1. SigTypes
  BY DEF SigInv
<1>2. /\ ~ ended /\ stack[t] # <<>> /\ Top(t).pc = "check"
      /\ UNCHANGED <<arrived, signalPending, sigcounts, attentionRequest, ended, cells, cdr, pending,
                     owed, raised, clobbered>>
  BY DEF Copy, Runs, At, vm, queue, history
<1>3. /\ stack[t] \in Seq(Frame) /\ Len(stack[t]) \in Nat \ {0}
      /\ Top(t) = stack[t][Len(stack[t])] /\ Top(t) \in Frame
      /\ Len(cells[t]) \in Nat /\ FrameFit(Top(t), Len(cells[t]))
      /\ AllMasked(cells[t]) => Keeping(Top(t)) /\ InForce(Top(t), mask[t])
  BY <1>2, TopFacts
<1>4. CASE ~ signalPending[t]
  <2>1. stack' = [stack EXCEPT ![t] = Cut(stack[t], Len(stack[t]) - 1)] /\ mask' = mask
    BY <1>1, <1>4 DEF Copy, Pop, Cut, SigTypes
  <2> DEFINE n == Len(stack[t]) - 1
  <2>2. n \in Nat /\ n < Len(stack[t]) /\ n + 1 = Len(stack[t])
    BY <1>3
  <2>3. Cut(stack[t], n) \in Seq(Frame)
    BY <1>3, <2>2, CutKeeps DEF SigInv, Good
  <2>4. SigTypes'
    BY <1>1, <1>2, <2>1, <2>3 DEF SigTypes
  <2>5. Others(t)
    BY <1>1, <1>2, <2>1 DEF Others, SigTypes
  <2>6. AllMasked(cells[t]) => mask'[t] = stack[t][n + 1].entry
    BY <1>2, <1>3, <2>1, <2>2 DEF InForce
  <2>7. stack'[t] = Cut(stack[t], n)
    BY <1>1, <2>1 DEF SigTypes
  <2> HIDE DEF n
  <2> QED
    BY <1>2, <2>2, <2>4, <2>5, <2>6, <2>7, MoveCut
<1>5. CASE signalPending[t]
  <2> DEFINE got == {s \in Signal : sigcounts[t][s] > 0}
             frame == [Top(t) EXCEPT !.pc = "clear", !.omask = mask[t], !.got = got]
  <2>1. stack' = SetTop(t, frame) /\ mask' = [mask EXCEPT ![t] = Signal]
    BY <1>5 DEF Copy, BlockAll
  <2>2. got \in Mask /\ got # {} /\ mask[t] \in Mask /\ Signal \in Mask
    <3>1. Flag(signalPending[t], sigcounts[t], ended)
      BY DEF SigInv, Good
    <3>2. \E s \in Signal : sigcounts[t][s] > 0
      BY <1>5, <3>1 DEF Flag
    <3> QED
      BY <1>1, <3>2 DEF Mask, SigTypes
  <2> HIDE DEF got
  <2>3. /\ frame \in Frame /\ frame.pc = "clear" /\ frame.omask = mask[t] /\ frame.got = got
        /\ frame.sp = Top(t).sp /\ frame.entry = Top(t).entry
    BY <1>3, <2>2 DEF Frame
  <2> HIDE DEF frame
  <2>4. FrameFit(frame, Len(cells[t])) /\ frame.pc \in CheckStages
    BY <1>3, <2>2, <2>3 DEF FrameFit, CheckStages
  <2>5. AllMasked(cells[t]) =>
            Keeping(frame) /\ InForce(frame, Signal) /\ frame.entry = Top(t).entry
    BY <1>2, <1>3, <2>3 DEF Keeping, InForce
  <2>6. QuietFrame(frame, Signal, signalPending[t], sigcounts[t])
    BY <2>3 DEF QuietFrame
  <2> QED
    BY <1>2, <2>1, <2>2, <2>3, <2>4, <2>5, <2>6, MoveStage
<1> QED
  BY <1>1, <1>4, <1>5 DEF SigTypes

\* It clears the counters and the flag, and restores the mask.
LEMMA ClearMoves ==
    ASSUME SigInv, NEW t \in Thread, Clear(t)
    PROVE  Moves(t)
<1>1. SigTypes
  BY DEF SigInv
<1> DEFINE frame == [Top(t) EXCEPT !.pc = "queue"]
           zero == [s \in Signal |-> 0]
<1>2. /\ ~ ended /\ stack[t] # <<>> /\ Top(t).pc = "clear"
      /\ stack' = SetTop(t, frame) /\ mask' = [mask EXCEPT ![t] = Top(t).omask]
      /\ sigcounts' = [sigcounts EXCEPT ![t] = zero]
      /\ signalPending' = [signalPending EXCEPT ![t] = FALSE]
      /\ UNCHANGED <<arrived, attentionRequest, ended, cells, cdr, pending, owed, raised, clobbered>>
  BY DEF Clear, Runs, At, queue, history
<1>3. /\ stack[t] \in Seq(Frame) /\ Top(t) \in Frame
      /\ Len(cells[t]) \in Nat /\ FrameFit(Top(t), Len(cells[t]))
      /\ AllMasked(cells[t]) => Keeping(Top(t)) /\ InForce(Top(t), mask[t])
  BY <1>2, TopFacts
<1>4. /\ frame \in Frame /\ frame.pc = "queue" /\ frame.got = Top(t).got
      /\ frame.sp = Top(t).sp /\ frame.entry = Top(t).entry /\ Top(t).omask \in Mask
  BY <1>3 DEF Frame
<1>5. zero \in [Signal -> Nat] /\ \A s \in Signal : zero[s] = 0
  OBVIOUS
<1> HIDE DEF frame, zero
<1>6. stack' = [stack EXCEPT ![t] = Replace(stack[t], frame)] /\ Replace(stack[t], frame) \in Seq(Frame)
  BY <1>1, <1>2, <1>3, <1>4, SetTopFacts, ReplaceFacts
<1>7. SigTypes'
  BY <1>1, <1>2, <1>4, <1>5, <1>6 DEF SigTypes
<1>8. Others(t)
  BY <1>1, <1>2, <1>6 DEF Others, SigTypes
<1>9. sigcounts'[t] = zero /\ ~ signalPending'[t] /\ mask'[t] = Top(t).omask
  BY <1>1, <1>2 DEF SigTypes
<1>10. FrameFit(frame, Len(cells[t])) /\ frame.pc \in CheckStages
  BY <1>2, <1>3, <1>4 DEF FrameFit, CheckStages
<1>11. AllMasked(cells[t]) =>
           Keeping(frame) /\ InForce(frame, mask'[t]) /\ frame.entry = Top(t).entry
  BY <1>2, <1>3, <1>4, <1>9 DEF Keeping, InForce
<1>12. QuietFrame(frame, mask'[t], signalPending'[t], sigcounts'[t])
  BY <1>4 DEF QuietFrame
<1>13. Flag(signalPending'[t], sigcounts'[t], ended')
  BY <1>5, <1>9 DEF Flag
<1>14. Linked(cells'[t], cdr'[t], pending'[t])
  BY <1>2 DEF SigInv, Good
<1>15. cells'[t] = cells[t] /\ Len(cells[t]) <= Len(cells'[t])
  BY <1>2, <1>3
<1>16. ~ ended /\ stack[t] # <<>> /\ stack' = SetTop(t, frame)
  BY <1>2
<1> QED
  BY <1>4, <1>7, <1>8, <1>10, <1>11, <1>12, <1>13, <1>14, <1>15, <1>16, MoveTop

\* A handler returns.
LEMMA HandlerReturnsMoves ==
    ASSUME SigInv, NEW t \in Thread, HandlerReturns(t)
    PROVE  Moves(t)
<1>1. SigTypes
  BY DEF SigInv
<1> DEFINE next == cdr[t][Top(t).sp]
           m == IF MaskOf(t, Top(t)) = NoMask THEN mask[t] ELSE Top(t).omask
           frame == [Top(t) EXCEPT !.pc = "walk", !.sp = next]
<1>2. /\ ~ ended /\ stack[t] # <<>> /\ Top(t).pc = "handler"
      /\ UNCHANGED <<arrived, signalPending, sigcounts, attentionRequest, ended, cells, cdr, pending,
                     owed, raised, clobbered>>
  BY DEF HandlerReturns, InCode, LeafAt, At, vm, queue, history
<1>3. /\ Top(t) \in Frame
      /\ Len(cells[t]) \in Nat /\ FrameFit(Top(t), Len(cells[t]))
      /\ AllMasked(cells[t]) => Keeping(Top(t)) /\ InForce(Top(t), mask[t])
  BY <1>2, TopFacts
<1>4. Top(t).sp \in 1 .. Len(cells[t]) /\ Top(t).omask \in Mask /\ mask[t] \in Mask
  BY <1>1, <1>2, <1>3 DEF Frame, FrameFit, Nil, SigTypes
<1>5. next \in Nat /\ next <= Len(cells[t])
  <2>1. cdr[t] \in Seq(Nat) /\ Linked(cells[t], cdr[t], pending[t])
    BY <1>1 DEF SigTypes, SigInv, Good
  <2>2. Top(t).sp \in 1 .. Len(cdr[t])
    BY <1>4, <2>1 DEF Linked
  <2> QED
    BY <2>1, <2>2, ElementOfSeq DEF Linked
<1>6. stack' = SetTop(t, frame) /\ mask' = [mask EXCEPT ![t] = m]
  BY <1>1, <1>3 DEF HandlerReturns, SigTypes, Frame
<1>7. m \in Mask /\ (AllMasked(cells[t]) => m = Top(t).omask)
  BY <1>4 DEF AllMasked, MaskOf
<1> HIDE DEF next, m
<1>8. /\ frame \in Frame /\ frame.pc = "walk" /\ frame.sp = next /\ frame.entry = Top(t).entry
  BY <1>3, <1>5 DEF Frame
<1> HIDE DEF frame
<1>9. FrameFit(frame, Len(cells[t])) /\ frame.pc \in CheckStages
  BY <1>5, <1>8 DEF FrameFit, CheckStages
<1>10. AllMasked(cells[t]) =>
           Keeping(frame) /\ InForce(frame, m) /\ frame.entry = Top(t).entry
  BY <1>2, <1>3, <1>7, <1>8 DEF Keeping, InForce
<1>11. QuietFrame(frame, m, signalPending[t], sigcounts[t])
  BY <1>8 DEF QuietFrame
<1> QED
  BY <1>2, <1>6, <1>7, <1>8, <1>9, <1>10, <1>11, MoveStage

\* A new cell at the end of the list whose last pair is x.
LEMMA AddCellFacts ==
    ASSUME NEW cs \in Seq(Cell), NEW d \in Seq(Nat), NEW p \in Nat, Linked(cs, d, p),
           NEW cell \in Cell, NEW x, NEW linked, NEW q,
           linked = IF p = Nil THEN d ELSE [d EXCEPT ![x] = Len(cs) + 1],
           q = IF p = Nil THEN Len(cs) + 1 ELSE p
    PROVE  /\ Append(cs, cell) \in Seq(Cell) /\ Append(linked, Nil) \in Seq(Nat) /\ q \in Nat
           /\ Linked(Append(cs, cell), Append(linked, Nil), q)
           /\ Len(cs) <= Len(Append(cs, cell))
           /\ AllMasked(Append(cs, cell)) => AllMasked(cs)
<1>1. /\ Len(cs) \in Nat /\ Len(d) = Len(cs) /\ p <= Len(cs)
      /\ \A i \in 1 .. Len(d) : d[i] <= Len(cs) /\ d[i] \in Nat
  BY LenProperties, ElementOfSeq DEF Linked
<1>2. /\ linked \in Seq(Nat) /\ Len(linked) = Len(cs)
      /\ \A i \in 1 .. Len(cs) : linked[i] <= Len(cs) + 1 /\ linked[i] \in Nat
  <2>1. CASE p = Nil
    BY <1>1, <2>1
  <2>2. CASE p # Nil /\ x \in 1 .. Len(d)
    <3>1. linked = [d EXCEPT ![x] = Len(cs) + 1]
      BY <2>2
    <3>2. /\ linked \in Seq(Nat) /\ Len(linked) = Len(d)
          /\ \A j \in 1 .. Len(d) : linked[j] = IF j = x THEN Len(cs) + 1 ELSE d[j]
      BY <1>1, <2>2, <3>1, ExceptSeq
    <3> QED
      BY <1>1, <3>2
  <2>3. CASE p # Nil /\ x \notin 1 .. Len(d)
    <3>1. linked = [d EXCEPT ![x] = Len(cs) + 1]
      BY <2>3
    <3>2. d \in [1 .. Len(d) -> Nat]
      BY LenProperties
    <3>3. linked = d
      BY <2>3, <3>1, <3>2
    <3>4. \A i \in 1 .. Len(cs) : d[i] <= Len(cs) + 1 /\ d[i] \in Nat
      BY <1>1
    <3> QED
      BY <1>1, <3>3, <3>4, Zenon
  <2> QED
    BY <2>1, <2>2, <2>3
<1> DEFINE new == Append(cs, cell)
           rest == Append(linked, Nil)
<1>3. /\ new \in Seq(Cell) /\ Len(new) = Len(cs) + 1 /\ \A i \in 1 .. Len(cs) : new[i] = cs[i]
  BY AppendProperties
<1>4. /\ rest \in Seq(Nat) /\ Len(rest) = Len(cs) + 1 /\ rest[Len(cs) + 1] = 0
      /\ \A i \in 1 .. Len(cs) : rest[i] = linked[i]
  BY <1>2, AppendProperties DEF Nil
<1> HIDE DEF new, rest
<1>5. q \in Nat /\ q <= Len(new)
  BY <1>1, <1>3
<1>6. \A i \in 1 .. Len(rest) : rest[i] <= Len(new)
  BY <1>1, <1>2, <1>3, <1>4
<1>7. AllMasked(new) => AllMasked(cs)
  BY <1>1, <1>3 DEF AllMasked
<1>8. Linked(new, rest, q) /\ Len(cs) <= Len(new)
  BY <1>1, <1>3, <1>4, <1>5, <1>6 DEF Linked
<1> QED
  BY <1>3, <1>4, <1>5, <1>7, <1>8 DEF new, rest

\* It gives one of the signals its cell.
LEMMA QueueOneMoves ==
    ASSUME SignalsAssumption, LeafTypes, SigInv, NEW t \in Thread, QueueOne(t)
    PROVE  Moves(t)
<1>1. SigTypes
  BY DEF SigInv
<1> DEFINE got == Top(t).got
           s == Min(got)
           rest == got \ {s}
           frame == IF rest # {} THEN [Top(t) EXCEPT !.got = rest]
                    ELSE [Top(t) EXCEPT !.got = {}, !.pc = "walk", !.sp = pending'[t]]
<1>2. /\ ~ ended /\ stack[t] # <<>> /\ Top(t).pc = "queue"
      /\ UNCHANGED <<arrived, mask, signalPending, sigcounts, attentionRequest, ended, raised, clobbered>>
  BY DEF QueueOne, Runs, At, vm, kernel
<1>3. /\ Top(t) \in Frame
      /\ Len(cells[t]) \in Nat /\ FrameFit(Top(t), Len(cells[t]))
      /\ AllMasked(cells[t]) => Keeping(Top(t)) /\ InForce(Top(t), mask[t])
  BY <1>2, TopFacts
<1>4. got \in Mask /\ got # {} /\ Top(t).sp \in Nat /\ Top(t).sp <= Len(cells[t])
  BY <1>2, <1>3 DEF Frame, FrameFit
<1>5. s \in Signal
  BY <1>4, MinElement DEF Mask, Signal, SignalsAssumption
<1>6. /\ \/ /\ handlers[s] = "procedure" /\ owed' = owed
            /\ AddCell(t, [sig |-> s, mask |-> masks[s]])
         \/ UNCHANGED <<cells, cdr, pending>> /\ owed' = [owed EXCEPT ![t] = @ \ {s}]
      /\ stack' = SetTop(t, frame)
  BY DEF QueueOne, queue
<1> HIDE DEF s, got
<1>7. /\ cells' \in [Thread -> Seq(Cell)] /\ cdr' \in [Thread -> Seq(Nat)]
      /\ pending' \in [Thread -> Nat] /\ owed' \in [Thread -> SUBSET Signal]
      /\ Linked(cells'[t], cdr'[t], pending'[t]) /\ Len(cells[t]) <= Len(cells'[t])
      /\ AllMasked(cells'[t]) => AllMasked(cells[t])
      /\ \A u \in Thread \ {t} :
            cells'[u] = cells[u] /\ cdr'[u] = cdr[u] /\ pending'[u] = pending[u]
  <2>0. Linked(cells[t], cdr[t], pending[t])
    BY DEF SigInv, Good
  <2>1. CASE UNCHANGED <<cells, cdr, pending>> /\ owed' = [owed EXCEPT ![t] = @ \ {s}]
    BY <1>1, <1>3, <2>0, <2>1 DEF SigTypes
  <2>2. CASE owed' = owed /\ AddCell(t, [sig |-> s, mask |-> masks[s]])
    <3> DEFINE cell == [sig |-> s, mask |-> masks[s]]
               new == Len(cells[t]) + 1
               x == LastPair(cdr[t], pending[t])
               linked == IF pending[t] = Nil THEN cdr[t] ELSE [cdr[t] EXCEPT ![x] = new]
               q == IF pending[t] = Nil THEN new ELSE pending[t]
    <3>1. cell \in Cell
      BY <1>5 DEF Cell, LeafTypes
    <3>2. /\ cells' = [cells EXCEPT ![t] = Append(cells[t], cell)]
          /\ cdr' = [cdr EXCEPT ![t] = Append(linked, Nil)]
          /\ pending' = [pending EXCEPT ![t] = q]
      BY <1>1, <2>2 DEF AddCell, SigTypes
    <3>3. cells[t] \in Seq(Cell) /\ cdr[t] \in Seq(Nat) /\ pending[t] \in Nat
      BY <1>1 DEF SigTypes
    <3> HIDE DEF cell, x
    <3>4. /\ Append(cells[t], cell) \in Seq(Cell) /\ Append(linked, Nil) \in Seq(Nat) /\ q \in Nat
          /\ Linked(Append(cells[t], cell), Append(linked, Nil), q)
          /\ Len(cells[t]) <= Len(Append(cells[t], cell))
          /\ AllMasked(Append(cells[t], cell)) => AllMasked(cells[t])
      BY <2>0, <3>1, <3>3, AddCellFacts
    <3> HIDE DEF linked, q
    <3>5. cells'[t] = Append(cells[t], cell) /\ cdr'[t] = Append(linked, Nil) /\ pending'[t] = q
      BY <1>1, <3>2 DEF SigTypes
    <3>6. /\ cells' \in [Thread -> Seq(Cell)] /\ cdr' \in [Thread -> Seq(Nat)]
          /\ pending' \in [Thread -> Nat] /\ owed' \in [Thread -> SUBSET Signal]
          /\ \A u \in Thread \ {t} :
                cells'[u] = cells[u] /\ cdr'[u] = cdr[u] /\ pending'[u] = pending[u]
      BY <1>1, <2>2, <3>2, <3>4 DEF SigTypes
    <3> QED
      BY <3>4, <3>5, <3>6
  <2> QED
    BY <1>6, <2>1, <2>2
<1>8. pending'[t] \in Nat /\ pending'[t] <= Len(cells'[t]) /\ Len(cells'[t]) \in Nat
  BY <1>7, LenProperties DEF Linked
<1>9. /\ frame \in Frame /\ frame.pc \in {"queue", "walk"} /\ frame.entry = Top(t).entry
      /\ frame.sp <= Len(cells'[t]) /\ (frame.pc = "queue" => frame.got # {})
  <2>1. CASE rest # {}
    <3>1. frame = [Top(t) EXCEPT !.got = rest] /\ rest \in Mask
      BY <1>4, <2>1 DEF Mask
    <3>2. /\ frame \in Frame /\ frame.pc = "queue" /\ frame.entry = Top(t).entry
          /\ frame.sp = Top(t).sp /\ frame.got = rest
      BY <1>2, <1>3, <3>1 DEF Frame
    <3>3. Top(t).sp <= Len(cells'[t])
      BY <1>3, <1>4, <1>7, <1>8
    <3> HIDE DEF frame, rest
    <3> QED
      BY <2>1, <3>2, <3>3
  <2>2. CASE rest = {}
    <3>1. frame = [Top(t) EXCEPT !.got = {}, !.pc = "walk", !.sp = pending'[t]] /\ {} \in Mask
      BY <2>2 DEF Mask
    <3> QED
      BY <1>3, <1>8, <3>1 DEF Frame
  <2> QED
    BY <2>1, <2>2
<1> HIDE DEF frame
<1>10. stack' = [stack EXCEPT ![t] = Replace(stack[t], frame)] /\ Replace(stack[t], frame) \in Seq(Frame)
  BY <1>1, <1>2, <1>6, <1>9, SetTopFacts, ReplaceFacts, ZenonT(60) DEF SigTypes
<1>11. SigTypes'
  BY <1>1, <1>2, <1>7, <1>10 DEF SigTypes
<1>12. Others(t)
  BY <1>1, <1>2, <1>7, <1>10 DEF Others, SigTypes
<1>13. FrameFit(frame, Len(cells'[t])) /\ frame.pc \in CheckStages
  BY <1>9 DEF FrameFit, CheckStages
<1>14. AllMasked(cells'[t]) =>
           /\ AllMasked(cells[t])
           /\ Keeping(frame) /\ InForce(frame, mask'[t]) /\ frame.entry = Top(t).entry
  BY <1>2, <1>3, <1>7, <1>9 DEF Keeping, InForce
<1>15. QuietFrame(frame, mask'[t], signalPending'[t], sigcounts'[t])
  BY <1>9 DEF QuietFrame
<1>16. Flag(signalPending'[t], sigcounts'[t], ended')
  BY <1>2 DEF SigInv, Good
<1>17. ~ ended /\ stack[t] # <<>> /\ stack' = SetTop(t, frame)
  BY <1>2, <1>6
<1> QED
  BY <1>7, <1>9, <1>11, <1>12, <1>13, <1>14, <1>15, <1>16, <1>17, MoveTop

\* The next cell leaves the queue and its handler is called.
LEMMA CallHandlerMoves ==
    ASSUME SigInv, NEW t \in Thread, CallHandler(t)
    PROVE  Moves(t)
<1>1. SigTypes
  BY DEF SigInv
<1> DEFINE c == Top(t).sp
           m == IF MaskOf(t, Top(t)) = NoMask THEN mask[t] ELSE mask[t] \cup MaskOf(t, Top(t))
           frame == [Top(t) EXCEPT !.pc = "handler", !.omask = mask[t]]
<1>2. /\ ~ ended /\ stack[t] # <<>> /\ Top(t).pc = "walk" /\ c # Nil
      /\ UNCHANGED <<arrived, signalPending, sigcounts, attentionRequest, ended, cells, cdr, raised>>
  BY DEF CallHandler, Runs, At, vm
<1>3. /\ stack[t] \in Seq(Frame) /\ Top(t) \in Frame
      /\ Len(cells[t]) \in Nat /\ FrameFit(Top(t), Len(cells[t]))
      /\ AllMasked(cells[t]) => Keeping(Top(t)) /\ InForce(Top(t), mask[t])
  BY <1>2, TopFacts
<1>4. c \in 1 .. Len(cells[t]) /\ mask[t] \in Mask
  BY <1>1, <1>2, <1>3 DEF Frame, FrameFit, Nil, SigTypes
<1>5. /\ cells[t] \in Seq(Cell) /\ cdr[t] \in Seq(Nat)
      /\ Linked(cells[t], cdr[t], pending[t]) /\ Len(cdr[t]) = Len(cells[t])
  BY <1>1 DEF SigTypes, SigInv, Good, Linked
<1>6. cells[t][c] \in Cell /\ cdr[t][c] \in Nat /\ cdr[t][c] <= Len(cells[t])
  BY <1>4, <1>5, ElementOfSeq DEF Linked
<1>7. m \in Mask
  BY <1>4, <1>6 DEF MaskOf, Cell, Mask
<1>8. /\ stack' = SetTop(t, frame) /\ mask' = [mask EXCEPT ![t] = m]
      /\ pending' = [pending EXCEPT ![t] = cdr[t][c]]
      /\ owed' = [owed EXCEPT ![t] = @ \ {cells[t][c].sig}]
      /\ clobbered' \in {clobbered, clobbered \cup {t}}
  BY <1>1 DEF CallHandler, SigTypes
<1> HIDE DEF m
<1>9. /\ frame \in Frame /\ frame.pc = "handler" /\ frame.omask = mask[t]
      /\ frame.sp = c /\ frame.entry = Top(t).entry
  BY <1>3, <1>4 DEF Frame
<1> HIDE DEF frame, c
<1>10. stack' = [stack EXCEPT ![t] = Replace(stack[t], frame)] /\ Replace(stack[t], frame) \in Seq(Frame)
  BY <1>1, <1>2, <1>3, <1>8, <1>9, SetTopFacts, ReplaceFacts
<1>11. SigTypes'
  BY <1>1, <1>2, <1>6, <1>7, <1>8, <1>10 DEF SigTypes
<1>12. Others(t)
  BY <1>1, <1>2, <1>8, <1>10 DEF Others, SigTypes
<1>13. FrameFit(frame, Len(cells[t])) /\ frame.pc \in CheckStages
  BY <1>4, <1>9 DEF FrameFit, CheckStages, Nil
<1>14. AllMasked(cells[t]) =>
           Keeping(frame) /\ InForce(frame, mask'[t]) /\ frame.entry = Top(t).entry
  BY <1>2, <1>3, <1>9 DEF Keeping, InForce
<1>15. QuietFrame(frame, mask'[t], signalPending'[t], sigcounts'[t])
  BY <1>9 DEF QuietFrame
<1>16. Flag(signalPending'[t], sigcounts'[t], ended')
  BY <1>2 DEF SigInv, Good
<1>17. Linked(cells'[t], cdr'[t], pending'[t]) /\ cells'[t] = cells[t] /\ Len(cells[t]) <= Len(cells'[t])
  BY <1>1, <1>2, <1>3, <1>5, <1>6, <1>8 DEF Linked, SigTypes
<1>18. ~ ended /\ stack[t] # <<>> /\ stack' = SetTop(t, frame)
  BY <1>2, <1>8
<1> QED
  BY <1>9, <1>11, <1>12, <1>13, <1>14, <1>15, <1>16, <1>17, <1>18, MoveTop

\* What garbage collection leaves of the cells.
LEMMA CollectFacts ==
    ASSUME SigTypes, NEW t \in Thread, Collect(t)
    PROVE  /\ cells' \in [Thread -> Seq(Cell)] /\ cdr' \in [Thread -> Seq(Nat)] /\ pending' = pending
           /\ \A u \in Thread \ {t} : cells'[u] = cells[u] /\ cdr'[u] = cdr[u]
           /\ \/ cells'[t] = cells[t] /\ cdr'[t] = cdr[t] /\ pending'[t] = pending[t]
              \/ cells'[t] = <<>> /\ cdr'[t] = <<>> /\ pending'[t] = 0 /\ stack'[t] = <<>>
<1>1. <<>> \in Seq(Cell) /\ <<>> \in Seq(Nat)
  BY EmptySeq
<1>2. CASE stack'[t] = <<>> /\ pending[t] = Nil
  <2>1. cells' = [cells EXCEPT ![t] = <<>>] /\ cdr' = [cdr EXCEPT ![t] = <<>>] /\ pending' = pending
    BY <1>2 DEF Collect
  <2> QED
    BY <1>1, <1>2, <2>1 DEF SigTypes, Nil
<1>3. CASE ~ (stack'[t] = <<>> /\ pending[t] = Nil)
  <2>1. cells' = cells /\ cdr' = cdr /\ pending' = pending
    BY <1>3 DEF Collect, SigTypes
  <2> QED
    BY <2>1 DEF SigTypes
<1> QED
  BY <1>2, <1>3

\* Scm_SigCheck returns.
LEMMA ReturnFromCheckMoves ==
    ASSUME SigInv, NEW t \in Thread, ReturnFromCheck(t)
    PROVE  Moves(t)
<1>1. SigTypes
  BY DEF SigInv
<1>2. /\ ~ ended /\ stack[t] # <<>> /\ Top(t).pc = "walk" /\ Collect(t)
      /\ UNCHANGED <<arrived, mask, signalPending, sigcounts, attentionRequest, ended,
                     owed, raised, clobbered>>
  BY DEF ReturnFromCheck, Runs, At, vm, kernel, history
<1>3. /\ stack[t] \in Seq(Frame) /\ Len(stack[t]) \in Nat \ {0}
      /\ Top(t) = stack[t][Len(stack[t])]
      /\ AllMasked(cells[t]) => InForce(Top(t), mask[t])
  BY <1>2, TopFacts
<1> DEFINE n == Len(stack[t]) - 1
<1>4. n \in Nat /\ n < Len(stack[t]) /\ n + 1 = Len(stack[t])
  BY <1>3
<1>5. stack' = [stack EXCEPT ![t] = Cut(stack[t], n)]
  BY <1>1 DEF ReturnFromCheck, Pop, Cut, SigTypes
<1> HIDE DEF n
<1>6. Cut(stack[t], n) \in Seq(Frame)
  BY <1>3, <1>4, CutKeeps DEF SigInv, Good
<1>7. /\ cells' \in [Thread -> Seq(Cell)] /\ cdr' \in [Thread -> Seq(Nat)] /\ pending' = pending
      /\ \A u \in Thread \ {t} : cells'[u] = cells[u] /\ cdr'[u] = cdr[u]
      /\ \/ cells'[t] = cells[t] /\ cdr'[t] = cdr[t] /\ pending'[t] = pending[t]
         \/ cells'[t] = <<>> /\ cdr'[t] = <<>> /\ pending'[t] = 0 /\ stack'[t] = <<>>
  BY <1>1, <1>2, CollectFacts
<1>8. SigTypes'
  BY <1>1, <1>2, <1>5, <1>6, <1>7 DEF SigTypes
<1>9. Others(t)
  BY <1>1, <1>2, <1>5, <1>7 DEF Others, SigTypes
<1>10. AllMasked(cells[t]) => mask'[t] = stack[t][n + 1].entry
  BY <1>2, <1>3, <1>4 DEF InForce
<1>11. stack'[t] = Cut(stack[t], n)
  BY <1>1, <1>5 DEF SigTypes
<1> QED
  BY <1>2, <1>4, <1>7, <1>8, <1>9, <1>10, <1>11, MoveCut

\* The handlers an error leaves restore the mask of the code that catches it: the
\* outermost one that is left saved it, or the one on top of a sigsuspend that is left.
LEMMA RestoredFacts ==
    ASSUME SignalsAssumption, SigInv, NEW t \in Thread, stack[t] # <<>>, Top(t).pc = "handler",
           NEW n \in 0 .. Len(stack[t]) - 1
    PROVE  /\ RestoredBelow(t, n) \in Mask
           /\ AllMasked(cells[t]) => RestoredBelow(t, n) = stack[t][n + 1].entry
<1> DEFINE st == stack[t]
           L == Len(st)
           M == Masking(t, n)
<1>1. /\ st \in Seq(Frame) /\ L \in Nat \ {0} /\ st[L].pc = "handler"
      /\ mask[t] \in Mask /\ Len(cells[t]) \in Nat
  BY TopFacts DEF SigInv, SigTypes
<1>2. /\ Nested(st) /\ Fit(st, Len(cells[t])) /\ (AllMasked(cells[t]) => Saved(st, mask[t]))
  BY DEF SigInv, Good
<1>3. M = {i \in n + 1 .. L : st[i].pc = "handler" /\ MaskOf(t, st[i]) # NoMask}
  BY DEF Masking
<1>4. n \in Nat /\ n < L /\ n + 1 \in 1 .. L
  BY <1>1
<1>5. M \subseteq Nat /\ M \subseteq 1 .. L
  BY <1>1, <1>3, <1>4
<1>6. RestoredBelow(t, n) = IF M = {} THEN mask[t] ELSE st[Min(M)].omask
  BY DEF RestoredBelow
<1> HIDE DEF st, L, M
<1>7. M # {} => Min(M) \in M /\ \A y \in M : Min(M) <= y
  BY <1>5, MinElement
<1>8. RestoredBelow(t, n) \in Mask
  <2>1. CASE M = {}
    BY <1>1, <1>6, <2>1
  <2>2. CASE M # {}
    <3>1. st[Min(M)] \in Frame
      BY <1>1, <1>5, <1>7, <2>2, ElementOfSeq DEF L
    <3> QED
      BY <1>6, <2>2, <3>1 DEF Frame
  <2> QED
    BY <2>1, <2>2
<1>9. ASSUME AllMasked(cells[t]) PROVE RestoredBelow(t, n) = st[n + 1].entry
  <2>1. Saved(st, mask[t])
    BY <1>2, <1>9
  <2>2. ASSUME NEW i \in n + 1 .. L, st[i].pc = "handler" PROVE i \in M /\ st[i].omask = st[i].entry
    <3>1. i \in 1 .. Len(st)
      BY <1>1, <1>4 DEF L
    <3>2. st[i] \in Frame /\ FrameFit(st[i], Len(cells[t])) /\ Keeping(st[i])
      BY <1>1, <1>2, <2>1, <3>1, ElementOfSeq DEF Fit, Saved
    <3>3. st[i].sp \in 1 .. Len(cells[t])
      BY <1>1, <2>2, <3>2 DEF FrameFit, Frame, Nil
    <3>4. MaskOf(t, st[i]) # NoMask
      BY <1>9, <3>3 DEF AllMasked, MaskOf
    <3> QED
      BY <1>3, <2>2, <3>2, <3>4 DEF Keeping
  <2>3. CASE st[n + 1].pc = "handler"
    <3>1. n + 1 \in M /\ st[n + 1].omask = st[n + 1].entry
      BY <1>4, <2>2, <2>3
    <3>2. M # {} /\ Min(M) \in n + 1 .. L /\ Min(M) <= n + 1
      <4>1. M # {}
        BY <3>1
      <4>2. Min(M) \in M /\ Min(M) <= n + 1
        BY <1>7, <3>1, <4>1
      <4>3. M \subseteq n + 1 .. L
        BY <1>3
      <4> QED
        BY <4>1, <4>2, <4>3
    <3>3. Min(M) = n + 1
      BY <1>4, <3>2
    <3> QED
      BY <1>6, <3>1, <3>2, <3>3
  <2>4. CASE st[n + 1].pc # "handler"
    <3>1. n + 1 \in 1 .. Len(st) - 1 /\ n + 2 \in n + 1 .. L /\ (n + 1) + 1 = n + 2
      <4>1. L \in Nat /\ n + 1 # L
        BY <1>1, <2>4
      <4>2. n + 1 \in 1 .. L - 1 /\ n + 2 \in n + 1 .. L /\ (n + 1) + 1 = n + 2
        BY <1>4, <4>1
      <4> QED
        BY <4>2 DEF L
    <3>2. Below(st, n + 1) /\ Handed(st, n + 1)
      BY <1>2, <2>1, <3>1 DEF Nested, Saved
    <3>3. st[n + 2].pc \in CheckStages /\ st[n + 2].entry = st[n + 1].entry
      BY <2>4, <3>1, <3>2 DEF Below, Handed
    <3>4. st[n + 2].pc = "handler"
      <4>1. CASE n + 2 = L
        BY <1>1, <4>1
      <4>2. CASE n + 2 # L
        <5>1. n + 2 \in 1 .. Len(st) - 1
          BY <1>1, <1>4, <3>1, <4>2 DEF L
        <5>2. Below(st, n + 2)
          BY <1>2, <5>1 DEF Nested
        <5> QED
          BY <3>3, <5>2 DEF Below, CheckStages
      <4> QED
        BY <4>1, <4>2
    <3>5. n + 2 \in M /\ st[n + 2].omask = st[n + 2].entry
      BY <2>2, <3>1, <3>4
    <3>6. n + 1 \notin M
      BY <1>3, <2>4
    <3>7. M # {} /\ Min(M) \in n + 1 .. L /\ Min(M) <= n + 2 /\ Min(M) # n + 1
      BY <1>3, <1>7, <3>5, <3>6
    <3>8. Min(M) = n + 2
      BY <1>4, <3>7
    <3> QED
      BY <1>6, <3>3, <3>5, <3>7, <3>8
  <2> QED
    BY <2>3, <2>4
<1> QED
  BY <1>8, <1>9 DEF st

\* A handler raises an error.
LEMMA HandlerRaisesMoves ==
    ASSUME SignalsAssumption, SigInv, NEW t \in Thread, NEW n, HandlerRaises(t, n)
    PROVE  Moves(t)
<1>1. SigTypes
  BY DEF SigInv
<1> DEFINE m == RestoredBelow(t, n)
<1>2. /\ ~ ended /\ n \in 0 .. Len(stack[t]) - 1 /\ Collect(t)
      /\ mask' = [mask EXCEPT ![t] = m] /\ raised' = raised \cup {t}
      /\ stack[t] = <<>> \/ Top(t).pc = "handler"
      /\ UNCHANGED <<arrived, signalPending, sigcounts, attentionRequest, ended, owed, clobbered>>
  BY DEF HandlerRaises, InCode, LeafAt, At, vm
<1>3. stack[t] \in Seq(Frame) /\ Len(stack[t]) \in Nat
  BY <1>1, LenProperties DEF SigTypes
<1>4. n \in Nat /\ n < Len(stack[t]) /\ stack[t] # <<>> /\ Top(t).pc = "handler"
  BY <1>2, <1>3, EmptySeq
<1>5. m \in Mask /\ (AllMasked(cells[t]) => m = stack[t][n + 1].entry)
  BY <1>2, <1>4, RestoredFacts
<1> HIDE DEF m
<1>6. stack' = [stack EXCEPT ![t] = Cut(stack[t], n)]
  BY <1>1 DEF HandlerRaises, Cut, SigTypes
<1>7. Cut(stack[t], n) \in Seq(Frame)
  BY <1>3, <1>4, CutKeeps DEF SigInv, Good
<1>8. /\ cells' \in [Thread -> Seq(Cell)] /\ cdr' \in [Thread -> Seq(Nat)] /\ pending' = pending
      /\ \A u \in Thread \ {t} : cells'[u] = cells[u] /\ cdr'[u] = cdr[u]
      /\ \/ cells'[t] = cells[t] /\ cdr'[t] = cdr[t] /\ pending'[t] = pending[t]
         \/ cells'[t] = <<>> /\ cdr'[t] = <<>> /\ pending'[t] = 0 /\ stack'[t] = <<>>
  BY <1>1, <1>2, CollectFacts
<1>9. SigTypes'
  BY <1>1, <1>2, <1>5, <1>6, <1>7, <1>8 DEF SigTypes
<1>10. Others(t)
  BY <1>1, <1>2, <1>6, <1>8 DEF Others, SigTypes
<1>11. AllMasked(cells[t]) => mask'[t] = stack[t][n + 1].entry
  BY <1>1, <1>2, <1>5 DEF SigTypes
<1>12. stack'[t] = Cut(stack[t], n)
  BY <1>1, <1>6 DEF SigTypes
<1> QED
  BY <1>2, <1>4, <1>8, <1>9, <1>10, <1>11, <1>12, MoveCut

\* sys-sigmask: no call but a handler, which has saved the mask, depends on it.
LEMMA SysSigmaskMoves ==
    ASSUME SigInv, NEW t \in Thread, NEW m \in {{}, Signal}, SysSigmask(t, m)
    PROVE  Moves(t)
<1>1. SigTypes /\ Good(t)
  BY DEF SigInv
<1>2. /\ ~ ended /\ mask' = [mask EXCEPT ![t] = m]
      /\ stack[t] = <<>> \/ Top(t).pc = "handler"
      /\ UNCHANGED <<arrived, signalPending, sigcounts, attentionRequest, ended, cells, cdr, pending,
                     stack, owed, raised, clobbered>>
  BY DEF SysSigmask, MayCall, InCode, LeafAt, At, vm, queue, history
<1>3. SigTypes'
  BY <1>1, <1>2 DEF SigTypes, Mask
<1>4. Others(t)
  BY <1>1, <1>2 DEF Others, SigTypes
<1>5. stack[t] = <<>> \/ stack[t][Len(stack[t])].pc = "handler"
  BY <1>2 DEF Top
<1>6. AllMasked(cells[t]) => Saved(stack[t], mask'[t])
  BY <1>1, <1>5 DEF Good, Saved, InForce
<1>7. Quiet(stack[t], mask'[t], signalPending'[t], sigcounts'[t])
  BY <1>5 DEF Quiet, QuietFrame
<1>8. Flag(signalPending'[t], sigcounts'[t], ended')
  BY <1>1, <1>2 DEF Good
<1> QED
  BY <1>2, <1>3, <1>4, <1>6, <1>7, <1>8, MoveNone

\* sigsuspend begins,
LEMMA SigSuspendMoves ==
    ASSUME SigInv, NEW t \in Thread, NEW m \in Mask, SigSuspend(t, m)
    PROVE  Moves(t)
<1>1. SigTypes
  BY DEF SigInv
<1> DEFINE frame == Call("suspend", t, m)
<1>2. frame \in Frame /\ frame.pc = "suspend" /\ frame.sp = 0 /\ frame.entry = mask[t]
  BY <1>1, CallFacts
<1>3. /\ ~ ended /\ stack' = Push(t, frame) /\ (stack[t] = <<>> \/ Top(t).pc = "handler")
      /\ UNCHANGED <<arrived, mask, attentionRequest, signalPending, sigcounts, ended, cells, cdr, pending,
                     owed, raised, clobbered>>
  BY DEF SigSuspend, MayCall, InCode, LeafAt, At, kernel, vm, queue, history
<1> HIDE DEF frame
<1>4. stack' = [stack EXCEPT ![t] = Append(stack[t], frame)]
  BY <1>1, <1>3 DEF Push, SigTypes
<1>5. SigTypes'
  BY <1>1, <1>2, <1>3, <1>4, AppendProperties DEF SigTypes
<1>6. Others(t)
  BY <1>1, <1>3, <1>4 DEF Others, SigTypes
<1> QED
  BY <1>2, <1>3, <1>5, <1>6, MovePush

\* blocks every signal,
LEMMA SuspendBlocksMoves ==
    ASSUME SigInv, NEW t \in Thread, SuspendBlocks(t)
    PROVE  Moves(t)
<1>1. SigTypes
  BY DEF SigInv
<1> DEFINE frame == [Top(t) EXCEPT !.pc = "blocked", !.omask = mask[t]]
<1>2. /\ ~ ended /\ stack[t] # <<>> /\ Top(t).pc = "suspend"
      /\ stack' = SetTop(t, frame) /\ mask' = [mask EXCEPT ![t] = Signal]
      /\ UNCHANGED <<arrived, signalPending, sigcounts, attentionRequest, ended, cells, cdr, pending,
                     owed, raised, clobbered>>
  BY DEF SuspendBlocks, Runs, At, BlockAll, vm, queue, history
<1>3. /\ Top(t) \in Frame /\ FrameFit(Top(t), Len(cells[t]))
      /\ AllMasked(cells[t]) => InForce(Top(t), mask[t])
  BY <1>2, TopFacts
<1>4. mask[t] \in Mask /\ Signal \in Mask
  BY <1>1 DEF SigTypes, Mask
<1>5. /\ frame \in Frame /\ frame.pc = "blocked" /\ frame.omask = mask[t]
      /\ frame.sp = Top(t).sp /\ frame.entry = Top(t).entry
  BY <1>3, <1>4 DEF Frame
<1> HIDE DEF frame
<1>6. FrameFit(frame, Len(cells[t])) /\ Top(t).pc \notin CheckStages
  BY <1>2, <1>3, <1>5 DEF FrameFit, CheckStages
<1>7. AllMasked(cells[t]) =>
          Keeping(frame) /\ InForce(frame, Signal) /\ frame.entry = Top(t).entry
  BY <1>2, <1>3, <1>5 DEF Keeping, InForce
<1>8. QuietFrame(frame, Signal, signalPending[t], sigcounts[t])
  BY <1>5 DEF QuietFrame
<1> QED
  BY <1>2, <1>4, <1>5, <1>6, <1>7, <1>8, MoveStage

\* and looks for a pending one: it processes what it finds, or finds nothing,
LEMMA SuspendLooksMoves ==
    ASSUME SigInv, NEW t \in Thread, SuspendLooks(t)
    PROVE  Moves(t)
<1>1. SigTypes /\ Good(t)
  BY DEF SigInv
<1>2. /\ ~ ended /\ stack[t] # <<>> /\ Top(t).pc = "blocked"
      /\ UNCHANGED <<arrived, signalPending, sigcounts, attentionRequest, ended, cells, cdr, pending,
                     owed, raised, clobbered>>
  BY DEF SuspendLooks, Runs, At, vm, queue, history
<1>3. /\ stack[t] \in Seq(Frame) /\ Len(stack[t]) \in Nat \ {0}
      /\ Top(t) = stack[t][Len(stack[t])] /\ Top(t) \in Frame
      /\ Len(cells[t]) \in Nat /\ FrameFit(Top(t), Len(cells[t]))
      /\ AllMasked(cells[t]) => Keeping(Top(t))
      /\ QuietFrame(Top(t), mask[t], signalPending[t], sigcounts[t])
  BY <1>2, TopFacts
<1>4. Top(t).omask \in Mask /\ Top(t).pc \notin CheckStages /\ mask[t] \in Mask
  BY <1>1, <1>2, <1>3 DEF Frame, CheckStages, SigTypes
<1>5. CASE ~ signalPending[t]
  <2> DEFINE frame == [Top(t) EXCEPT !.pc = "ready"]
  <2>1. stack' = SetTop(t, frame) /\ mask' = [mask EXCEPT ![t] = mask[t]]
    BY <1>1, <1>5 DEF SuspendLooks, SigTypes
  <2>2. /\ frame \in Frame /\ frame.pc = "ready" /\ frame.omask = Top(t).omask
        /\ frame.sp = Top(t).sp /\ frame.entry = Top(t).entry
    BY <1>3 DEF Frame
  <2> HIDE DEF frame
  <2>3. FrameFit(frame, Len(cells[t]))
    BY <1>3, <2>2 DEF FrameFit
  <2>4. AllMasked(cells[t]) =>
            Keeping(frame) /\ InForce(frame, mask[t]) /\ frame.entry = Top(t).entry
    BY <1>2, <1>3, <2>2 DEF Keeping, InForce
  <2>5. QuietFrame(frame, mask[t], signalPending[t], sigcounts[t])
    <3>1. mask[t] = Signal /\ \A s \in Signal : sigcounts[t][s] = 0
      BY <1>1, <1>2, <1>3, <1>5 DEF QuietFrame, Good, Flag
    <3> QED
      BY <1>5, <3>1 DEF QuietFrame
  <2> QED
    BY <1>2, <1>4, <2>1, <2>2, <2>3, <2>4, <2>5, MoveStage
<1>6. CASE signalPending[t]
  <2> DEFINE st == stack[t]
             m == Top(t).omask
             frame == [Top(t) EXCEPT !.pc = "suspend"]
             mid == Replace(st, frame)
             call == Call("check", t, {})
             check == [call EXCEPT !.entry = m]
             new == Append(mid, check)
             k == Len(cells[t])
  <2>1. stack' = [stack EXCEPT ![t] = new] /\ mask' = [mask EXCEPT ![t] = m]
    BY <1>1, <1>3, <1>6 DEF SuspendLooks, Replace, SigTypes, Top
  <2>2. /\ frame \in Frame /\ frame.pc = "suspend"
        /\ frame.sp = Top(t).sp /\ frame.entry = Top(t).entry
    BY <1>3 DEF Frame
  <2>3. call \in Frame /\ call.pc = "check" /\ call.sp = 0
    BY <1>1, CallFacts DEF Mask
  <2> HIDE DEF frame, call
  <2>4. check \in Frame /\ check.pc = "check" /\ check.sp = 0 /\ check.entry = m
    BY <1>4, <2>3 DEF Frame
  <2> HIDE DEF check
  <2>5. FrameFit(frame, k) /\ FrameFit(check, k)
    BY <1>3, <2>2, <2>4 DEF FrameFit
  <2>6. Nested(st) /\ Fit(st, k) /\ (AllMasked(cells[t]) => Saved(st, mask[t]))
    BY <1>1 DEF Good
  <2>7. /\ Nested(mid) /\ Fit(mid, k)
        /\ \A m0 : /\ Saved(st, m0) /\ Keeping(frame) /\ InForce(frame, m)
                   /\ frame.entry = st[Len(st)].entry
                   => Saved(mid, m)
    <3>1. st[Len(st)].pc \notin CheckStages
      BY <1>3, <1>4
    <3> QED
      BY <1>2, <1>3, <2>2, <2>5, <2>6, <3>1, ReplaceKeeps, Zenon
  <2>8. /\ mid \in Seq(Frame) /\ mid # <<>> /\ Len(mid) = Len(st) /\ mid[Len(mid)] = frame
        /\ Len(mid) \in 1 .. Len(mid)
    <3>1. /\ mid \in Seq(Frame) /\ mid # <<>> /\ Len(mid) = Len(st) /\ mid[Len(st)] = frame
      BY <1>2, <1>3, <2>2, ReplaceFacts
    <3> HIDE DEF mid
    <3> QED
      BY <1>3, <3>1
  <2> HIDE DEF mid
  <2>9. /\ new \in Seq(Frame) /\ new # <<>> /\ new[Len(new)] = check
        /\ Nested(new) /\ Fit(new, k)
        /\ \A m0 : /\ Saved(mid, m0) /\ Keeping(check) /\ InForce(check, m)
                   /\ mid # <<>> => Handed(new, Len(mid))
                   => Saved(new, m)
    <3>1. mid[Len(mid)].pc = "suspend" /\ check.pc \in CheckStages
      BY <2>2, <2>4, <2>8 DEF CheckStages
    <3> QED
      BY <2>4, <2>5, <2>7, <2>8, <3>1, AppendKeeps, Zenon
  <2>10. /\ Len(new) = Len(mid) + 1 /\ new[Len(mid) + 1] = check
         /\ \A i \in 1 .. Len(mid) : new[i] = mid[i]
    BY <2>4, <2>8, AppendProperties
  <2> HIDE DEF new
  <2>11. ASSUME AllMasked(cells[t]) PROVE Saved(new, m)
    <3>1. m = Top(t).entry /\ Saved(st, mask[t])
      BY <1>2, <1>3, <2>6, <2>11 DEF Keeping
    <3>2. Keeping(frame) /\ InForce(frame, m) /\ frame.entry = st[Len(st)].entry
      BY <1>3, <2>2, <3>1 DEF Keeping, InForce
    <3>3. Saved(mid, m)
      BY <2>7, <3>1, <3>2
    <3>4. Keeping(check) /\ InForce(check, m)
      BY <2>4 DEF Keeping, InForce
    <3>5. Handed(new, Len(mid))
      BY <2>2, <2>4, <2>8, <2>10, <3>1 DEF Handed
    <3> QED
      BY <2>9, <3>3, <3>4, <3>5
  <2> HIDE DEF m
  <2>12. m \in Mask
    BY <1>4 DEF m
  <2>13. SigTypes'
    BY <1>1, <1>2, <2>1, <2>9, <2>12 DEF SigTypes
  <2>14. Others(t)
    BY <1>1, <1>2, <2>1 DEF Others, SigTypes
  <2>15. stack'[t] = new /\ mask'[t] = m
    BY <1>1, <2>1 DEF SigTypes
  <2>16. Quiet(new, m, signalPending[t], sigcounts[t])
    BY <2>4, <2>9 DEF Quiet, QuietFrame
  <2>17. Good(t)'
    BY <1>1, <1>2, <2>9, <2>11, <2>15, <2>16 DEF Good
  <2>18. Restores(t)
    BY <1>3, <2>8, <2>10, <2>15 DEF Restores
  <2> QED
    BY <1>2, <2>13, <2>14, <2>17, <2>18 DEF Moves
<1> QED
  BY <1>1, <1>5, <1>6 DEF SigTypes

\* falls asleep,
LEMMA SuspendSleepsMoves ==
    ASSUME SigInv, NEW t \in Thread, SuspendSleeps(t)
    PROVE  Moves(t)
<1>1. SigTypes
  BY DEF SigInv
<1> DEFINE frame == [Top(t) EXCEPT !.pc = "asleep"]
<1>2. /\ ~ ended /\ stack[t] # <<>> /\ Top(t).pc = "ready"
      /\ stack' = SetTop(t, frame) /\ mask' = [mask EXCEPT ![t] = Top(t).arg]
      /\ UNCHANGED <<arrived, signalPending, sigcounts, attentionRequest, ended, cells, cdr, pending,
                     owed, raised, clobbered>>
  BY DEF SuspendSleeps, Runs, At, vm, queue, history
<1>3. /\ Top(t) \in Frame /\ FrameFit(Top(t), Len(cells[t]))
      /\ AllMasked(cells[t]) => Keeping(Top(t))
      /\ QuietFrame(Top(t), mask[t], signalPending[t], sigcounts[t])
  BY <1>2, TopFacts
<1> DEFINE m == Top(t).arg
<1>4. m \in Mask
  BY <1>3 DEF Frame
<1>5. /\ frame \in Frame /\ frame.pc = "asleep" /\ frame.omask = Top(t).omask
      /\ frame.sp = Top(t).sp /\ frame.entry = Top(t).entry
  BY <1>3 DEF Frame
<1> HIDE DEF frame, m
<1>6. FrameFit(frame, Len(cells[t])) /\ Top(t).pc \notin CheckStages
  BY <1>2, <1>3, <1>5 DEF FrameFit, CheckStages
<1>7. AllMasked(cells[t]) =>
          Keeping(frame) /\ InForce(frame, m) /\ frame.entry = Top(t).entry
  BY <1>2, <1>3, <1>5 DEF Keeping, InForce
<1>8. QuietFrame(frame, m, signalPending[t], sigcounts[t])
  BY <1>2, <1>3, <1>5 DEF QuietFrame
<1>9. mask' = [mask EXCEPT ![t] = m]
  BY <1>2 DEF m
<1> QED
  BY <1>2, <1>4, <1>5, <1>6, <1>7, <1>8, <1>9, MoveStage

\* and, awake, processes what has come.
LEMMA SuspendReturnsMoves ==
    ASSUME SigInv, NEW t \in Thread, SuspendReturns(t)
    PROVE  Moves(t)
<1>1. SigTypes
  BY DEF SigInv
<1> DEFINE call == Call("check", t, {})
           frame == [call EXCEPT !.entry = Top(t).entry]
<1>2. /\ ~ ended /\ stack[t] # <<>> /\ Top(t).pc = "woken"
      /\ stack' = SetTop(t, frame) /\ mask' = [mask EXCEPT ![t] = Top(t).omask]
      /\ UNCHANGED <<arrived, signalPending, sigcounts, attentionRequest, ended, cells, cdr, pending,
                     owed, raised, clobbered>>
  BY DEF SuspendReturns, Runs, At, vm, queue, history
<1>3. /\ Top(t) \in Frame /\ FrameFit(Top(t), Len(cells[t])) /\ Len(cells[t]) \in Nat
      /\ AllMasked(cells[t]) => Keeping(Top(t))
  BY <1>2, TopFacts
<1>4. Top(t).omask \in Mask /\ Top(t).entry \in Mask
  BY <1>3 DEF Frame
<1>5. call \in Frame /\ call.pc = "check" /\ call.sp = 0
  BY <1>1, CallFacts DEF Mask
<1> HIDE DEF call
<1>6. frame \in Frame /\ frame.pc = "check" /\ frame.sp = 0 /\ frame.entry = Top(t).entry
  BY <1>4, <1>5 DEF Frame
<1> HIDE DEF frame
<1>7. FrameFit(frame, Len(cells[t])) /\ frame.pc \in CheckStages
  BY <1>3, <1>6 DEF FrameFit, CheckStages
<1>8. AllMasked(cells[t]) =>
          Keeping(frame) /\ InForce(frame, Top(t).omask) /\ frame.entry = Top(t).entry
  BY <1>2, <1>3, <1>6 DEF Keeping, InForce
<1>9. QuietFrame(frame, Top(t).omask, signalPending[t], sigcounts[t])
  BY <1>6 DEF QuietFrame
<1> QED
  BY <1>2, <1>4, <1>6, <1>7, <1>8, <1>9, MoveStage

\* What sig_handle records.
LEMMA RecordFacts ==
    ASSUME SignalsAssumption, SigInv, NEW t \in Thread, NEW s \in Signal, ~ ended, Record(t, s)
    PROVE  /\ sigcounts' \in [Thread -> [Signal -> Nat]] /\ ended' \in BOOLEAN
           /\ signalPending' \in [Thread -> BOOLEAN] /\ attentionRequest' \in [Thread -> BOOLEAN]
           /\ \A u \in Thread \ {t} :
                 signalPending'[u] = signalPending[u] /\ sigcounts'[u] = sigcounts[u]
           /\ Flag(signalPending'[t], sigcounts'[t], ended')
<1>1. SigTypes /\ Good(t)
  BY DEF SigInv
<1> DEFINE c == Counted(t, s)
<1>2. c \in Nat /\ c > 0
  BY <1>1 DEF Counted, SigTypes
<1>3. TooMany(t, s) \in BOOLEAN
  BY DEF TooMany
<1>4. sigcounts' = [sigcounts EXCEPT ![t][s] = c] /\ ended' = TooMany(t, s)
  BY DEF Record
<1> HIDE DEF c
<1>5. sigcounts' = [sigcounts EXCEPT ![t] = [sigcounts[t] EXCEPT ![s] = c]]
  BY <1>1, <1>4 DEF SigTypes
<1>6. /\ sigcounts' \in [Thread -> [Signal -> Nat]]
      /\ \A u \in Thread \ {t} : sigcounts'[u] = sigcounts[u]
      /\ sigcounts'[t][s] = c
  BY <1>1, <1>2, <1>5 DEF SigTypes
<1>7. CASE TooMany(t, s)
  <2>1. UNCHANGED <<signalPending, attentionRequest>> /\ ended'
    BY <1>4, <1>7 DEF Record
  <2>2. Flag(signalPending'[t], sigcounts'[t], ended')
    BY <1>2, <1>6, <2>1 DEF Flag
  <2> QED
    BY <1>1, <1>3, <1>4, <1>6, <2>1, <2>2 DEF SigTypes
<1>8. CASE ~ TooMany(t, s)
  <2>1. /\ signalPending' = [signalPending EXCEPT ![t] = TRUE]
        /\ attentionRequest' = [attentionRequest EXCEPT ![t] = TRUE]
    BY <1>8 DEF Record
  <2>2. signalPending'[t]
    BY <1>1, <2>1 DEF SigTypes
  <2>3. Flag(signalPending'[t], sigcounts'[t], ended')
    BY <1>2, <1>6, <2>2 DEF Flag
  <2> QED
    BY <1>1, <1>3, <1>4, <1>6, <2>1, <2>3 DEF SigTypes
<1> QED
  BY <1>7, <1>8

\* The kernel delivers a signal: to a thread that has it unblocked, hence never between
\* the look of sigsuspend and its sleep.
LEMMA DeliverMoves ==
    ASSUME SignalsAssumption, LeafTypes, SigInv, NEW t \in Thread, NEW s \in Signal, Deliver(t, s)
    PROVE  Moves(t)
<1>1. SigTypes /\ Good(t)
  BY DEF SigInv
<1>2. /\ ~ ended /\ s \notin mask[t] /\ arrived' = arrived \ {s}
      /\ UNCHANGED <<cells, cdr, pending, raised, clobbered>>
  BY DEF Deliver, queue
<1>3. action[s] \in Actions
  BY DEF LeafTypes
<1>4. CASE action[s] = "handle"
  <2>1. Record(t, s) /\ WakeUp(t) /\ owed' = [owed EXCEPT ![t] = @ \cup {s}]
    BY <1>4, Zenon DEF Deliver
  <2>2. /\ sigcounts' \in [Thread -> [Signal -> Nat]] /\ ended' \in BOOLEAN
        /\ signalPending' \in [Thread -> BOOLEAN] /\ attentionRequest' \in [Thread -> BOOLEAN]
        /\ \A u \in Thread \ {t} :
              signalPending'[u] = signalPending[u] /\ sigcounts'[u] = sigcounts[u]
        /\ Flag(signalPending'[t], sigcounts'[t], ended')
    BY <1>2, <2>1, RecordFacts
  <2>3. owed' \in [Thread -> SUBSET Signal]
    BY <1>1, <2>1 DEF SigTypes
  <2>4. CASE At(t, "asleep")
    <3> DEFINE frame == [Top(t) EXCEPT !.pc = "woken"]
    <3>1. stack' = SetTop(t, frame) /\ mask' = [mask EXCEPT ![t] = Signal]
      BY <2>1, <2>4 DEF WakeUp
    <3>2. stack[t] # <<>> /\ Top(t).pc = "asleep"
      BY <2>4 DEF At
    <3>3. /\ stack[t] \in Seq(Frame) /\ Top(t) \in Frame
          /\ FrameFit(Top(t), Len(cells[t])) /\ Len(cells[t]) \in Nat
          /\ AllMasked(cells[t]) => Keeping(Top(t))
      BY <3>2, TopFacts
    <3>4. /\ frame \in Frame /\ frame.pc = "woken" /\ frame.omask = Top(t).omask
          /\ frame.sp = Top(t).sp /\ frame.entry = Top(t).entry
      BY <3>3 DEF Frame
    <3> HIDE DEF frame
    <3>5. /\ stack' = [stack EXCEPT ![t] = Replace(stack[t], frame)]
          /\ Replace(stack[t], frame) \in Seq(Frame)
      BY <1>1, <3>1, <3>2, <3>3, <3>4, SetTopFacts, ReplaceFacts
    <3>6. SigTypes'
      BY <1>1, <1>2, <2>2, <2>3, <3>1, <3>5 DEF SigTypes, Mask
    <3>7. Others(t)
      BY <1>1, <1>2, <2>2, <3>1, <3>5 DEF Others, SigTypes
    <3>8. FrameFit(frame, Len(cells[t])) /\ Top(t).pc \notin CheckStages
      BY <3>2, <3>3, <3>4 DEF FrameFit, CheckStages
    <3>9. AllMasked(cells[t]) =>
              Keeping(frame) /\ InForce(frame, mask'[t]) /\ frame.entry = Top(t).entry
      BY <3>2, <3>3, <3>4 DEF Keeping, InForce
    <3>10. QuietFrame(frame, mask'[t], signalPending'[t], sigcounts'[t])
      BY <3>4 DEF QuietFrame
    <3>11. /\ Linked(cells'[t], cdr'[t], pending'[t]) /\ cells'[t] = cells[t]
           /\ Len(cells[t]) <= Len(cells'[t])
      BY <1>1, <1>2, <3>3 DEF Good
    <3>12. ~ ended /\ Flag(signalPending'[t], sigcounts'[t], ended')
      BY <1>2, <2>2
    <3> QED
      BY <3>1, <3>2, <3>4, <3>6, <3>7, <3>8, <3>9, <3>10, <3>11, <3>12, MoveTop
  <2>5. CASE ~ At(t, "asleep")
    <3>1. UNCHANGED <<stack, mask>>
      BY <2>1, <2>5 DEF WakeUp
    <3>2. SigTypes'
      BY <1>1, <1>2, <2>2, <2>3, <3>1 DEF SigTypes
    <3>3. Others(t)
      BY <1>1, <1>2, <2>2, <3>1 DEF Others, SigTypes
    <3>4. AllMasked(cells[t]) => Saved(stack[t], mask'[t])
      BY <1>1, <3>1 DEF Good
    <3>5. Quiet(stack[t], mask'[t], signalPending'[t], sigcounts'[t])
      <4> SUFFICES ASSUME stack[t] # <<>>
                   PROVE  QuietFrame(Top(t), mask'[t], signalPending'[t], sigcounts'[t])
        BY DEF Quiet, Top
      <4>1. QuietFrame(Top(t), mask[t], signalPending[t], sigcounts[t])
        BY TopFacts
      <4>2. Top(t).pc \notin {"blocked", "ready", "asleep"}
        BY <1>2, <2>5, <4>1 DEF QuietFrame, At
      <4> QED
        BY <4>2 DEF QuietFrame
    <3>6. Flag(signalPending'[t], sigcounts'[t], ended') /\ UNCHANGED <<stack, cells, cdr, pending>>
      BY <1>2, <2>2, <3>1
    <3> QED
      BY <1>2, <3>2, <3>3, <3>4, <3>5, <3>6, MoveNone
  <2> QED
    BY <2>4, <2>5
<1>5. CASE action[s] \in {"ignore", "default"}
  <2>1. UNCHANGED <<vm, stack, mask, owed>> /\ (ended' = ended \/ ended' = TRUE)
    <3>1. CASE action[s] = "ignore"
      BY <3>1, Zenon DEF Deliver
    <3>2. CASE action[s] = "default"
      BY <3>2, Zenon DEF Deliver
    <3> QED
      BY <1>5, <3>1, <3>2
  <2>2. SigTypes'
    BY <1>1, <1>2, <2>1 DEF SigTypes, vm
  <2>3. Others(t)
    BY <1>1, <1>2, <2>1 DEF Others, SigTypes, vm
  <2>4. AllMasked(cells[t]) => Saved(stack[t], mask'[t])
    BY <1>1, <2>1 DEF Good
  <2>5. Quiet(stack[t], mask'[t], signalPending'[t], sigcounts'[t])
    BY <1>1, <2>1 DEF Good, vm
  <2>6. Flag(signalPending'[t], sigcounts'[t], ended')
    BY <1>1, <2>1 DEF Good, Flag, vm
  <2>7. UNCHANGED <<stack, cells, cdr, pending>>
    BY <1>2, <2>1
  <2> QED
    BY <1>2, <2>2, <2>3, <2>4, <2>5, <2>6, <2>7, MoveNone
<1> QED
  BY <1>3, <1>4, <1>5 DEF Actions

\* The actions that have to do with the table, and kill(2), touch none of it.
LEMMA OtherActions ==
    ASSUME SigInv,
           UNCHANGED <<mask, ended, vm, queue, stack, owed, raised, clobbered>>, arrived' \subseteq Signal
    PROVE  SigInv' /\ \A u \in Thread : Restores(u)
<1>1. UNCHANGED <<stack, mask, signalPending, sigcounts, attentionRequest, cells, cdr, pending, ended>>
  BY DEF vm, queue
<1>2. SigTypes'
  BY <1>1 DEF SigInv, SigTypes
<1> QED
  BY <1>1, <1>2, SigFrame

SigKept == SigInv' /\ \A u \in Thread : Restores(u)

LEMMA SigStep ==
    ASSUME SignalsAssumption, LeafTypes, SigInv, Next
    PROVE  SigKept
<1>1. ASSUME NEW t \in Thread, Moves(t) PROVE SigKept
  BY <1>1, MovesKeeps DEF SigKept
<1>2. ASSUME UNCHANGED <<mask, ended, vm, queue, stack, owed, raised, clobbered>>,
             arrived' \subseteq Signal
      PROVE  SigKept
  BY <1>2, OtherActions DEF SigKept
<1>3. arrived \subseteq Signal
  BY DEF SigInv, SigTypes
<1>4. ASSUME NEW s \in Signal, Kill(s) PROVE SigKept
  BY <1>2, <1>3, <1>4 DEF Kill, history
<1>5. ASSUME NEW t \in Thread, NEW s \in Signal, Deliver(t, s) PROVE SigKept
  BY <1>1, <1>5, DeliverMoves
<1>6. ASSUME NEW t \in Thread, NEW s \in Signal, SigWaitTakes(t, s) PROVE SigKept
  BY <1>2, <1>3, <1>6 DEF SigWaitTakes, history
<1>7. ASSUME NEW t \in Thread, Step(t) PROVE SigKept
  <2>1. CASE SafePoint(t)
    BY <1>1, <2>1, SafePointMoves
  <2>2. CASE Copy(t)
    BY <1>1, <2>2, CopyMoves
  <2>3. CASE Clear(t)
    BY <1>1, <2>3, ClearMoves
  <2>4. CASE QueueOne(t)
    BY <1>1, <2>4, QueueOneMoves
  <2>5. CASE CallHandler(t)
    BY <1>1, <2>5, CallHandlerMoves
  <2>6. CASE ReturnFromCheck(t)
    BY <1>1, <2>6, ReturnFromCheckMoves
  <2>7. CASE SuspendBlocks(t)
    BY <1>1, <2>7, SuspendBlocksMoves
  <2>8. CASE SuspendLooks(t)
    BY <1>1, <2>8, SuspendLooksMoves
  <2>9. CASE SuspendSleeps(t)
    BY <1>1, <2>9, SuspendSleepsMoves
  <2>10. CASE SuspendReturns(t)
    BY <1>1, <2>10, SuspendReturnsMoves
  <2>11. CASE SetAction(t) \/ SetHandler(t) \/ SetMask(t) \/ SigWaitReturns(t)
    BY <1>2, <1>3, <2>11 DEF SetAction, SetHandler, SetMask, SigWaitReturns, kernel, history
  <2> QED
    BY <1>7, <2>1, <2>2, <2>3, <2>4, <2>5, <2>6, <2>7, <2>8, <2>9, <2>10, <2>11, Zenon DEF Step
<1>8. ASSUME NEW t \in Thread, HandlerEnds(t) PROVE SigKept
  <2>1. CASE HandlerReturns(t)
    BY <1>1, <2>1, HandlerReturnsMoves
  <2>2. ASSUME NEW n, HandlerRaises(t, n) PROVE SigKept
    BY <1>1, <2>2, HandlerRaisesMoves
  <2> QED
    BY <1>8, <2>1, <2>2, Zenon DEF HandlerEnds
<1>9. ASSUME NEW t \in Thread, Request(t) PROVE SigKept
  <2>1. ASSUME NEW m \in {{}, Signal}, SysSigmask(t, m) PROVE SigKept
    BY <1>1, <2>1, SysSigmaskMoves
  <2>2. ASSUME NEW m \in {{}, mask[t]}, SigSuspend(t, m) PROVE SigKept
    <3>1. m \in Mask
      BY DEF SigInv, SigTypes, Mask
    <3> QED
      BY <1>1, <2>2, <3>1, SigSuspendMoves
  <2>3. ASSUME NEW set \in Settings, SetSignalHandler(t, set[1], set[2], set[3]) PROVE SigKept
    BY <1>2, <1>3, <2>3 DEF SetSignalHandler, kernel
  <2>4. ASSUME NEW sigs \in Awaited, SigWait(t, sigs) PROVE SigKept
    BY <1>2, <1>3, <2>4 DEF SigWait
  <2> QED
    BY <1>9, <2>1, <2>2, <2>3, <2>4, Zenon DEF Request
<1> QED
  BY <1>4, <1>5, <1>6, <1>7, <1>8, <1>9, Zenon DEF Next

LEMMA SigStutters ==
    ASSUME SigInv, UNCHANGED vars
    PROVE  SigKept
<1>1. UNCHANGED <<mask, ended, vm, queue, stack, owed, raised, clobbered>> /\ arrived' = arrived
  BY DEF vars, kernel, history
<1>2. arrived \subseteq Signal
  BY DEF SigInv, SigTypes
<1> QED
  BY <1>1, <1>2, OtherActions DEF SigKept

\* The invariant of the threads holds throughout, with the types from the table.
THEOREM SigInvariance == Spec => [](SigInv /\ LeafTypes)
<1>1. Init => SigInv
  <2> SUFFICES ASSUME Init PROVE SigInv
    OBVIOUS
  <2>1. <<>> \in Seq(Cell) /\ <<>> \in Seq(Nat) /\ <<>> \in Seq(Frame) /\ Len(<<>>) = 0
    BY EmptySeq
  <2>2. InitialMask \in [Thread -> Mask]
    BY SignalsAssumption DEF SignalsAssumption, Mask, Signal
  <2>3. SigTypes
    BY <2>1, <2>2 DEF Init, SigTypes, Nil
  <2>4. ASSUME NEW t \in Thread PROVE Good(t)
    <3>1. /\ cells[t] = <<>> /\ cdr[t] = <<>> /\ pending[t] = 0 /\ stack[t] = <<>>
          /\ ~ signalPending[t] /\ \A s \in Signal : sigcounts[t][s] = 0
      BY DEF Init, Nil
    <3>2. Linked(cells[t], cdr[t], pending[t])
      BY <2>1, <3>1 DEF Linked
    <3>3. Nested(stack[t]) /\ Fit(stack[t], Len(cells[t])) /\ Saved(stack[t], mask[t])
      BY <2>1, <3>1 DEF Nested, Fit, Saved
    <3>4. Quiet(stack[t], mask[t], signalPending[t], sigcounts[t])
      BY <3>1 DEF Quiet
    <3>5. Flag(signalPending[t], sigcounts[t], ended)
      BY <3>1 DEF Flag
    <3> QED
      BY <3>2, <3>3, <3>4, <3>5 DEF Good
  <2> QED
    BY <2>3, <2>4 DEF SigInv
<1>2. LeafTypes /\ SigInv /\ [Next]_vars => SigInv'
  BY SigStep, SigStutters, SignalsAssumption DEF SigKept
<1>3. LeafInv => LeafTypes
  BY DEF LeafInv
<1> QED
  BY <1>1, <1>2, <1>3, LeafInvariance, PTL DEF Spec

\* The type invariant: every index of the queue and of the walks along it is that of a
\* cell, whatever handlers are interrupted, return or raise.
THEOREM TypeCorrect == Spec => []TypeOK
<1>1. SigInv /\ LeafTypes => TypeOK
  <2> SUFFICES ASSUME SigInv, LeafTypes PROVE TypeOK
    OBVIOUS
  <2>1. SigTypes
    BY DEF SigInv
  <2>2. ASSUME NEW t \in Thread
        PROVE  /\ pending[t] \in 0 .. Len(cells[t])
               /\ cdr[t] \in [1 .. Len(cells[t]) -> 0 .. Len(cells[t])]
               /\ \A i \in 1 .. Len(cells[t]) : cells[t][i].sig \in Signal
               /\ \A i \in 1 .. Len(stack[t]) : stack[t][i] \in Frame
               /\ leaf[t].pc \in {"none", "action", "handler", "mask", "sigwait", "restore"}
    <3>1. /\ cells[t] \in Seq(Cell) /\ cdr[t] \in Seq(Nat) /\ pending[t] \in Nat
          /\ stack[t] \in Seq(Frame) /\ Len(cells[t]) \in Nat
          /\ Len(cdr[t]) = Len(cells[t]) /\ pending[t] <= Len(cells[t])
          /\ \A i \in 1 .. Len(cdr[t]) : cdr[t][i] <= Len(cells[t])
      BY <2>1, LenProperties DEF SigTypes, SigInv, Good, Linked
    <3>2. pending[t] \in 0 .. Len(cells[t])
      BY <3>1
    <3>3. cdr[t] \in [1 .. Len(cells[t]) -> 0 .. Len(cells[t])]
      <4>1. cdr[t] \in [1 .. Len(cells[t]) -> Nat]
        BY <3>1, LenProperties
      <4> QED
        BY <3>1, <4>1
    <3>4. \A i \in 1 .. Len(cells[t]) : cells[t][i].sig \in Signal
      <4>1. \A i \in 1 .. Len(cells[t]) : cells[t][i] \in Cell
        BY <3>1, ElementOfSeq
      <4> QED
        BY <4>1 DEF Cell
    <3>5. \A i \in 1 .. Len(stack[t]) : stack[t][i] \in Frame
      BY <3>1, ElementOfSeq
    <3>6. leaf[t].pc \in {"none", "action", "handler", "mask", "sigwait", "restore"}
      BY DEF LeafTypes, Leaf
    <3> QED
      BY <3>2, <3>3, <3>4, <3>5, <3>6
  <2>3. /\ action \in [Signal -> {"handle", "ignore", "default"}]
        /\ handlers \in [Signal -> {"procedure", "#f", "#t"}]
        /\ masks \in [Signal -> Mask \cup {NoMask}] /\ crossed \subseteq Signal
    BY DEF LeafTypes, Actions, Handlers
  <2> QED
    BY <2>1, <2>2, <2>3 DEF TypeOK, SigTypes
<1> QED
  BY <1>1, SigInvariance, PTL

\* sigsuspend never sleeps over a recorded signal: it looks for pending ones with all
\* signals blocked, and unblocks them only as it falls asleep.
THEOREM SleepersMissNothing == Spec => []SleepMissesNothing
<1>1. SigInv => SleepMissesNothing
  <2> SUFFICES ASSUME SigInv, NEW t \in Thread, At(t, "asleep")
               PROVE  ~ signalPending[t] /\ \A s \in Signal : sigcounts[t][s] = 0
    BY DEF SleepMissesNothing
  <2>1. stack[t] # <<>> /\ Top(t).pc = "asleep"
    BY DEF At
  <2>2. QuietFrame(Top(t), mask[t], signalPending[t], sigcounts[t])
    BY <2>1, TopFacts
  <2> QED
    BY <2>1, <2>2 DEF QuietFrame
<1> QED
  BY <1>1, SigInvariance, PTL

\* Scm_SigCheck and sigsuspend give the code they interrupt its signal mask back, at any
\* depth of handlers in handlers, and when an error leaves several of them at once.
THEOREM MaskGivenBack == Spec => MaskRestored
<1>1. SigInv /\ LeafTypes /\ [Next]_vars =>
        [\A t \in Thread :
           Len(stack'[t]) < Len(stack[t]) /\ (\A i \in 1 .. Len(cells[t]) : cells[t][i].mask # NoMask)
             => mask'[t] = stack[t][Len(stack'[t]) + 1].entry]_vars
  <2> SUFFICES ASSUME SigInv, LeafTypes, [Next]_vars
               PROVE  \A t \in Thread :
                        Len(stack'[t]) < Len(stack[t]) /\ (\A i \in 1 .. Len(cells[t]) : cells[t][i].mask # NoMask)
                          => mask'[t] = stack[t][Len(stack'[t]) + 1].entry
    OBVIOUS
  <2>1. SigKept
    BY SigStep, SigStutters, SignalsAssumption
  <2> QED
    BY <2>1 DEF SigKept, Restores, AllMasked
<1> QED
  BY <1>1, SigInvariance, PTL DEF Spec, MaskRestored
-----------------------------------------------------------------------------
(* The lists of pending handler calls.                                         *)

\* A cell is linked only to one that was consed later.
Growing(d) == \A i \in 1 .. Len(d) : d[i] = Nil \/ d[i] > i

\* Nothing is in the empty list,
LEMMA FromNil == \A d : CellsFrom(d, Nil) = {}
<1>1. ASSUME NEW d, NEW i \in CellsFrom(d, Nil) PROVE FALSE
  <2>1. {} \in SUBSET DOMAIN d /\ Nil \in {} \cup {Nil}
    OBVIOUS
  <2> QED
    BY <2>1 DEF CellsFrom
<1> QED
  BY <1>1

\* a list has its first cell, and with a cell the one it is linked to,
LEMMA FromHead ==
    ASSUME NEW d, NEW c \in DOMAIN d
    PROVE  /\ c # Nil => c \in CellsFrom(d, c)
           /\ \A p : c \in CellsFrom(d, p) /\ d[c] \in DOMAIN d /\ d[c] # Nil
                       => d[c] \in CellsFrom(d, p)
<1>1. c # Nil => c \in CellsFrom(d, c)
  BY DEF CellsFrom
<1>2. ASSUME NEW p, c \in CellsFrom(d, p), d[c] \in DOMAIN d, d[c] # Nil
      PROVE  d[c] \in CellsFrom(d, p)
  <2>1. ASSUME NEW L \in SUBSET DOMAIN d, p \in L \cup {Nil},
               \A k \in L : d[k] \in L \cup {Nil}
        PROVE  d[c] \in L
    <3>1. c \in L
      BY <1>2, <2>1 DEF CellsFrom
    <3> QED
      BY <1>2, <2>1, <3>1
  <2> QED
    BY <1>2, <2>1 DEF CellsFrom
<1> QED
  BY <1>1, <1>2

\* and what follows a cell of a list is in that list.
LEMMA FromCell ==
    ASSUME NEW d, NEW p, NEW c \in CellsFrom(d, p), NEW k \in CellsFrom(d, c)
    PROVE  k \in CellsFrom(d, p)
<1>1. ASSUME NEW L \in SUBSET DOMAIN d, p \in L \cup {Nil},
             \A j \in L : d[j] \in L \cup {Nil}
      PROVE  k \in L
  <2>1. c \in L
    BY <1>1 DEF CellsFrom
  <2> QED
    BY <1>1, <2>1 DEF CellsFrom
<1>2. k \in DOMAIN d
  BY DEF CellsFrom
<1> QED
  BY <1>1, <1>2 DEF CellsFrom

\* A list is its first cell and the rest.
LEMMA FromSplit ==
    ASSUME NEW d, NEW c \in DOMAIN d, NEW k \in CellsFrom(d, c), k # c
    PROVE  k \in CellsFrom(d, d[c])
<1>1. ASSUME NEW L \in SUBSET DOMAIN d, d[c] \in L \cup {Nil},
             \A j \in L : d[j] \in L \cup {Nil}
      PROVE  k \in L
  <2> DEFINE M == L \cup {c}
  <2>1. M \in SUBSET DOMAIN d /\ c \in M \cup {Nil} /\ \A j \in M : d[j] \in M \cup {Nil}
    BY <1>1
  <2>2. k \in M
    BY <2>1 DEF CellsFrom
  <2> QED
    BY <2>2
<1>2. k \in DOMAIN d
  BY DEF CellsFrom
<1> QED
  BY <1>1, <1>2 DEF CellsFrom

\* A list has an end.
LEMMA LastExists ==
    ASSUME NEW d \in Seq(Nat), Growing(d), \A i \in 1 .. Len(d) : d[i] <= Len(d),
           NEW p \in 1 .. Len(d)
    PROVE  /\ LastPair(d, p) \in CellsFrom(d, p) /\ LastPair(d, p) \in 1 .. Len(d)
           /\ d[LastPair(d, p)] = Nil
<1>1. Len(d) \in Nat /\ DOMAIN d = 1 .. Len(d) /\ \A i \in 1 .. Len(d) : d[i] \in Nat
  BY LenProperties, ElementOfSeq
<1>2. p \in CellsFrom(d, p) /\ CellsFrom(d, p) \subseteq 1 .. Len(d)
  BY <1>1, FromHead DEF CellsFrom, Nil
<1> DEFINE T == {Len(d) - i : i \in CellsFrom(d, p)}
<1>3. T \subseteq Nat /\ T # {}
  BY <1>1, <1>2
<1>4. PICK x \in T : \A y \in T : x <= y
  BY <1>3, LeastNumber
<1>5. PICK last \in CellsFrom(d, p) : x = Len(d) - last
  BY <1>4
<1>6. ASSUME NEW i \in CellsFrom(d, p) PROVE i <= last
  <2>1. Len(d) - last <= Len(d) - i
    BY <1>4, <1>5
  <2>2. i \in 1 .. Len(d) /\ last \in 1 .. Len(d)
    BY <1>2
  <2> QED
    BY <1>1, <2>1, <2>2
<1> HIDE DEF T
<1>7. d[last] = Nil
  <2>1. SUFFICES ASSUME d[last] # Nil PROVE FALSE
    OBVIOUS
  <2>2. last \in 1 .. Len(d) /\ d[last] \in 1 .. Len(d) /\ d[last] > last
    BY <1>1, <1>2, <2>1 DEF Growing, Nil
  <2>3. d[last] \in CellsFrom(d, p)
    BY <1>1, <2>1, <2>2, FromHead
  <2> QED
    BY <1>6, <2>2, <2>3
<1>8. \E i \in CellsFrom(d, p) : d[i] = Nil
  BY <1>7
<1>9. LastPair(d, p) \in CellsFrom(d, p) /\ d[LastPair(d, p)] = Nil
  BY <1>8 DEF LastPair
<1> QED
  BY <1>2, <1>9

\* The cdrs and the head of the list once AddCell has added a cell to it.
Longer(d, p) == Append(IF p = Nil THEN d ELSE [d EXCEPT ![LastPair(d, p)] = Len(d) + 1], Nil)
Headed(d, p) == IF p = Nil THEN Len(d) + 1 ELSE p

\* A list to which a cell is added keeps all it has.
LEMMA AddCellList ==
    ASSUME NEW d \in Seq(Nat), Growing(d), \A i \in 1 .. Len(d) : d[i] <= Len(d),
           NEW p \in 0 .. Len(d), NEW e, NEW q, e = Longer(d, p), q = Headed(d, p)
    PROVE  /\ Growing(e) /\ Len(d) + 1 \in CellsFrom(e, q)
           /\ CellsFrom(d, p) \subseteq CellsFrom(e, q)
<1> DEFINE n == Len(d) + 1
           x == LastPair(d, p)
<1>1. /\ Len(d) \in Nat /\ DOMAIN d = 1 .. Len(d) /\ \A i \in 1 .. Len(d) : d[i] \in Nat
      /\ n \in Nat /\ n \notin 1 .. Len(d) /\ n # Nil
  BY LenProperties, ElementOfSeq DEF Nil
<1>2. p # Nil => x \in CellsFrom(d, p) /\ x \in 1 .. Len(d) /\ d[x] = Nil
  BY <1>1, LastExists DEF Nil
<1> HIDE DEF x
<1>3. /\ e \in Seq(Nat) /\ Len(e) = n /\ e[n] = Nil
      /\ \A i \in 1 .. Len(d) : e[i] = IF p # Nil /\ i = x THEN n ELSE d[i]
  <2>1. CASE p = Nil
    <3>1. e = Append(d, Nil) /\ Nil \in Nat
      BY <2>1 DEF Nil, Longer
    <3>2. /\ Append(d, Nil) \in Seq(Nat) /\ Len(Append(d, Nil)) = n
          /\ Append(d, Nil)[n] = Nil /\ \A i \in 1 .. Len(d) : Append(d, Nil)[i] = d[i]
      BY <3>1, AppendProperties
    <3> QED
      BY <2>1, <3>1, <3>2, Zenon
  <2>2. CASE p # Nil
    <3> DEFINE f == [d EXCEPT ![x] = n]
    <3>1. f \in Seq(Nat) /\ Len(f) = Len(d) /\ \A j \in 1 .. Len(d) : f[j] = IF j = x THEN n ELSE d[j]
      BY <1>1, <1>2, <2>2, ExceptSeq
    <3>2. e = Append(f, Nil) /\ Nil \in Nat
      BY <2>2 DEF x, Nil, Longer
    <3> HIDE DEF f
    <3>3. /\ e \in Seq(Nat) /\ Len(e) = Len(f) + 1 /\ e[Len(f) + 1] = Nil
          /\ \A i \in 1 .. Len(f) : e[i] = f[i]
      <4>1. f \in Seq(Nat) /\ Nil \in Nat
        BY <3>1, <3>2
      <4>2. /\ Append(f, Nil) \in Seq(Nat) /\ Len(Append(f, Nil)) = Len(f) + 1
            /\ Append(f, Nil)[Len(f) + 1] = Nil
            /\ \A i \in 1 .. Len(f) : Append(f, Nil)[i] = f[i]
        BY <4>1, AppendProperties
      <4> QED
        BY <3>2, <4>2, Zenon
    <3> HIDE DEF n
    <3>4. n = Len(d) + 1
      BY DEF n
    <3> QED
      BY <2>2, <3>1, <3>3, <3>4
  <2> QED
    BY <2>1, <2>2
<1>4. DOMAIN e = 1 .. n /\ n \in DOMAIN e /\ DOMAIN d \subseteq DOMAIN e
  BY <1>1, <1>3, LenProperties
<1>5. Growing(e)
  <2>1. ASSUME NEW i \in 1 .. Len(e) PROVE e[i] = Nil \/ e[i] > i
    <3>1. i = n \/ i \in 1 .. Len(d)
      BY <1>1, <1>3
    <3>2. CASE i = n
      BY <1>3, <3>2
    <3>3. CASE i \in 1 .. Len(d)
      <4>1. d[i] = Nil \/ d[i] > i
        BY <3>3 DEF Growing
      <4>2. n > i
        BY <1>1, <3>3
      <4> QED
        BY <1>3, <3>3, <4>1, <4>2
    <3> QED
      BY <3>1, <3>2, <3>3
  <2> QED
    BY <2>1 DEF Growing
<1>6. CASE p = Nil
  <2>1. q = n /\ CellsFrom(d, p) = {}
    BY <1>6, FromNil DEF Headed
  <2> QED
    BY <1>1, <1>4, <1>5, <2>1, FromHead
<1>7. CASE p # Nil
  <2>1. q = p
    BY <1>7 DEF Headed
  <2>2. ASSUME NEW L \in SUBSET DOMAIN e, p \in L \cup {Nil},
               \A k \in L : e[k] \in L \cup {Nil}
        PROVE  n \in L /\ CellsFrom(d, p) \subseteq L
    <3> DEFINE K == L \cap DOMAIN d
    <3>1. p \in K
      BY <1>1, <1>7, <2>2 DEF Nil
    <3>2. ASSUME NEW k \in K PROVE d[k] \in K \cup {Nil}
      <4>1. CASE k = x
        BY <1>2, <1>7, <4>1
      <4>2. CASE k # x
        <5>1. e[k] = d[k] /\ e[k] \in L \cup {Nil}
          BY <1>1, <1>3, <2>2, <3>2, <4>2
        <5>2. d[k] \in Nat /\ d[k] <= Len(d)
          BY <1>1
        <5> QED
          BY <1>1, <5>1, <5>2 DEF Nil
      <4> QED
        BY <4>1, <4>2
    <3>3. CellsFrom(d, p) \subseteq K
      BY <3>1, <3>2 DEF CellsFrom
    <3>4. x \in L /\ e[x] = n
      BY <1>2, <1>3, <1>7, <3>3
    <3> QED
      BY <1>1, <2>2, <3>3, <3>4
  <2>3. n \in CellsFrom(e, p)
    BY <1>4, <2>2 DEF CellsFrom
  <2>4. ASSUME NEW k \in CellsFrom(d, p) PROVE k \in CellsFrom(e, p)
    <3>1. k \in DOMAIN e
      BY <1>4 DEF CellsFrom
    <3> QED
      BY <2>2, <3>1 DEF CellsFrom
  <2> QED
    BY <1>5, <2>1, <2>3, <2>4
<1> QED
  BY <1>6, <1>7

-----------------------------------------------------------------------------
(* Where recorded signals are.                                                 *)

\* While a thread has copied the counters and not yet cleared them, nothing is counted.
Clearing(t) ==
    At(t, "clear") =>
        /\ mask[t] = Signal
        /\ \A s \in Signal : sigcounts[t][s] > 0 => s \in Top(t).got

\* As in NoSignalLost, where only the innermost call can be one that has copied s.
Found(t, s) == Counting(t, s) \/ (At(t, "queue") /\ s \in Top(t).got) \/ Listed(t, s)

OwedKept(t) ==
    /\ Growing(cdr[t]) /\ Clearing(t)
    /\ ended \/ t \in clobbered \/ \A s \in owed[t] : Found(t, s)
OwedInv == \A t \in Thread : OwedKept(t)

\* What the step does, it does to thread t.
Alone(t) ==
    /\ ~ ended /\ Others(t)
    /\ \A u \in Thread \ {t} :
          /\ owed'[u] = owed[u] /\ attentionRequest'[u] = attentionRequest[u]
          /\ u \in clobbered' <=> u \in clobbered

\* A thread to which nothing happens keeps all that.
LEMMA OwedFrame ==
    ASSUME NEW u, OwedKept(u), ended => ended',
           stack'[u] = stack[u], mask'[u] = mask[u], cells'[u] = cells[u], cdr'[u] = cdr[u],
           signalPending'[u] = signalPending[u], sigcounts'[u] = sigcounts[u],
           pending'[u] = pending[u], owed'[u] = owed[u],
           attentionRequest'[u] = attentionRequest[u], u \in clobbered' <=> u \in clobbered
    PROVE  OwedKept(u)'
<1>1. /\ Growing(cdr'[u]) /\ (Clearing(u)' <=> Clearing(u))
      /\ \A pc : At(u, pc)' <=> At(u, pc)
  BY DEF OwedKept, Clearing, At, Top
<1>2. \A s : Found(u, s)' <=> Found(u, s)
  BY <1>1 DEF Found, Counting, Listed, Top
<1> QED
  BY <1>1, <1>2 DEF OwedKept

\* What a step does to one thread does not concern the others.
LEMMA OwedOthers ==
    ASSUME OwedInv, NEW t \in Thread, Alone(t), OwedKept(t)'
    PROVE  OwedInv'
<1>1. ASSUME NEW u \in Thread, u # t PROVE OwedKept(u)'
  <2>1. /\ stack'[u] = stack[u] /\ mask'[u] = mask[u] /\ cells'[u] = cells[u] /\ cdr'[u] = cdr[u]
        /\ signalPending'[u] = signalPending[u] /\ sigcounts'[u] = sigcounts[u]
        /\ pending'[u] = pending[u] /\ owed'[u] = owed[u]
        /\ attentionRequest'[u] = attentionRequest[u] /\ (u \in clobbered' <=> u \in clobbered)
        /\ (ended => ended') /\ OwedKept(u)
    BY <1>1 DEF Alone, Others, OwedInv
  <2> QED
    BY <2>1, OwedFrame
<1> QED
  BY <1>1 DEF OwedInv

\* Nothing is counted, copied or cleared: only the stage of t changes.
LEMMA OwedStays ==
    ASSUME OwedInv, NEW t \in Thread, ~ ended, ~ At(t, "queue"),
           sigcounts'[t] = sigcounts[t], signalPending'[t] = signalPending[t],
           t \in clobbered => t \in clobbered',
           attentionRequest[t] => attentionRequest'[t] \/ At(t, "check")',
           (At(t, "check") \/ At(t, "clear")) /\ signalPending[t] =>
               attentionRequest'[t] \/ At(t, "check")' \/ At(t, "clear")',
           Growing(cdr'[t]), owed'[t] \subseteq owed[t],
           \A s \in owed'[t] : Listed(t, s) => t \in clobbered' \/ Listed(t, s)',
           Clearing(t)'
    PROVE  OwedKept(t)'
<1>1. t \in clobbered \/ \A s \in owed[t] : Found(t, s)
  BY DEF OwedInv, OwedKept
<1>2. ASSUME NEW s \in owed'[t], t \notin clobbered' PROVE Found(t, s)'
  <2>1. Counting(t, s) \/ Listed(t, s)
    BY <1>1, <1>2 DEF Found
  <2>2. CASE Counting(t, s)
    <3>1. sigcounts'[t][s] > 0 /\ signalPending'[t]
      BY <2>2 DEF Counting
    <3>2. attentionRequest'[t] \/ At(t, "check")' \/ At(t, "clear")'
      BY <2>2 DEF Counting
    <3> QED
      BY <3>1, <3>2 DEF Found, Counting
  <2>3. CASE Listed(t, s)
    BY <1>2, <2>3 DEF Found
  <2> QED
    BY <2>1, <2>2, <2>3
<1> QED
  BY <1>2 DEF OwedKept

\* The queue stays as it is, or was empty and its cells are collected.
LEMMA SameList ==
    ASSUME OwedInv, NEW t \in Thread,
           \/ cells'[t] = cells[t] /\ cdr'[t] = cdr[t] /\ pending'[t] = pending[t]
           \/ cdr'[t] = <<>> /\ pending'[t] = pending[t] /\ pending'[t] = 0
    PROVE  Growing(cdr'[t]) /\ \A s : Listed(t, s) => Listed(t, s)'
<1>1. CASE cells'[t] = cells[t] /\ cdr'[t] = cdr[t] /\ pending'[t] = pending[t]
  BY <1>1 DEF OwedInv, OwedKept, Listed
<1>2. CASE cdr'[t] = <<>> /\ pending'[t] = pending[t] /\ pending'[t] = 0
  <2>1. Growing(<<>>)
    BY EmptySeq DEF Growing
  <2>2. \A s : ~ Listed(t, s)
    BY <1>2, FromNil DEF Listed, Nil
  <2> QED
    BY <1>2, <2>1, <2>2
<1> QED
  BY <1>1, <1>2

\* The innermost call after a step.
LEMMA TopAfter ==
    ASSUME SigTypes, NEW t \in Thread, NEW frame
    PROVE  /\ stack[t] # <<>> /\ stack' = SetTop(t, frame) =>
                 /\ stack'[t] # <<>> /\ Top(t)' = frame
                 /\ \A pc : At(t, pc)' <=> frame.pc = pc
           /\ stack' = Push(t, frame) =>
                 /\ stack'[t] # <<>> /\ Top(t)' = frame
                 /\ \A pc : At(t, pc)' <=> frame.pc = pc
<1>1. stack \in [Thread -> Seq(Frame)] /\ stack[t] \in Seq(Frame \cup {frame})
  <2>1. stack \in [Thread -> Seq(Frame)] /\ stack[t] \in Seq(Frame)
    BY DEF SigTypes
  <2>2. \A i \in 1 .. Len(stack[t]) : stack[t][i] \in Frame \cup {frame}
    BY <2>1, ElementOfSeq
  <2>3. stack[t] \in Seq(Frame \cup {frame})
    BY <2>1, <2>2, LenProperties
  <2> QED
    BY <2>1, <2>3
<1>2. ASSUME stack[t] # <<>>, stack' = SetTop(t, frame)
      PROVE  stack'[t] # <<>> /\ Top(t)' = frame
  <2> DEFINE new == [stack[t] EXCEPT ![Len(stack[t])] = frame]
  <2>1. Len(stack[t]) \in Nat \ {0} /\ Len(stack[t]) \in 1 .. Len(stack[t])
    BY <1>1, <1>2, EmptySeq, LenProperties
  <2>2. stack'[t] = new
    BY <1>1, <1>2 DEF SetTop
  <2>3. /\ new \in Seq(Frame \cup {frame}) /\ Len(new) = Len(stack[t])
        /\ new[Len(stack[t])] = frame
    BY <1>1, <2>1, ExceptSeq
  <2> HIDE DEF new
  <2>4. new # <<>>
    BY <2>1, <2>3, EmptySeq
  <2> QED
    BY <2>2, <2>3, <2>4 DEF Top
<1>3. ASSUME stack' = Push(t, frame) PROVE stack'[t] # <<>> /\ Top(t)' = frame
  <2>1. stack'[t] = Append(stack[t], frame)
    BY <1>1, <1>3 DEF Push
  <2>2. /\ Append(stack[t], frame) # <<>>
        /\ Append(stack[t], frame)[Len(Append(stack[t], frame))] = frame
    BY <1>1, AppendProperties
  <2> QED
    BY <2>1, <2>2 DEF Top
<1>4. ASSUME stack'[t] # <<>>, Top(t)' = frame PROVE \A pc : At(t, pc)' <=> frame.pc = pc
  BY <1>4 DEF At
<1> QED
  BY <1>2, <1>3, <1>4

\* Below the innermost call there is code that runs, and nothing that is cleared.
LEMMA CutAfter ==
    ASSUME SigInv, NEW t \in Thread, NEW n \in Nat, n < Len(stack[t]),
           stack'[t] = SubSeq(stack[t], 1, n)
    PROVE  ~ At(t, "clear")' /\ Clearing(t)'
<1>1. stack[t] \in Seq(Frame) /\ Nested(stack[t]) /\ Fit(stack[t], Len(cells[t]))
  BY DEF SigInv, SigTypes, Good
<1>2. stack'[t] = Cut(stack[t], n)
  BY DEF Cut
<1>3. /\ Len(Cut(stack[t], n)) = n
      /\ Cut(stack[t], n) # <<>> => /\ n > 0 /\ Cut(stack[t], n)[n] = stack[t][n]
                                    /\ stack[t][n].pc \in {"handler", "suspend"}
  BY <1>1, CutKeeps
<1>4. stack'[t] # <<>> => Top(t)'.pc \in {"handler", "suspend"}
  BY <1>2, <1>3 DEF Top
<1> QED
  BY <1>4 DEF At, Clearing

\* A step of t that neither records nor takes a signal: flags that lead to the counters
\* stay up until the next Scm_SigCheck, and the list stays.
LEMMA StageKept ==
    ASSUME SigInv, OwedInv, NEW t \in Thread, Moves(t), ~ At(t, "queue"),
           UNCHANGED <<sigcounts, signalPending, owed, clobbered>>,
           \/ attentionRequest' = attentionRequest
           \/ attentionRequest' = [attentionRequest EXCEPT ![t] = FALSE] /\ At(t, "check")',
           (At(t, "check") \/ At(t, "clear")) /\ signalPending[t] => At(t, "clear")',
           \/ cells'[t] = cells[t] /\ cdr'[t] = cdr[t] /\ pending'[t] = pending[t]
           \/ cdr'[t] = <<>> /\ pending'[t] = pending[t] /\ pending'[t] = 0,
           Clearing(t)'
    PROVE  OwedInv'
<1>1. attentionRequest \in [Thread -> BOOLEAN] /\ ~ ended /\ Others(t)
  BY DEF SigInv, SigTypes, Moves
<1>2. Growing(cdr'[t]) /\ \A s : Listed(t, s) => Listed(t, s)'
  BY SameList
<1>3. attentionRequest[t] => attentionRequest'[t] \/ At(t, "check")'
  OBVIOUS
<1>4. OwedKept(t)'
  BY <1>1, <1>2, <1>3, OwedStays
<1>5. \A u \in Thread \ {t} : attentionRequest'[u] = attentionRequest[u]
  BY <1>1
<1>6. Alone(t)
  BY <1>1, <1>5 DEF Alone
<1> QED
  BY <1>4, <1>6, OwedOthers

\* The same where the innermost call is replaced, or one is added to it.
LEMMA FrameKept ==
    ASSUME SigInv, OwedInv, NEW t \in Thread, Moves(t), NEW frame,
           \/ stack[t] # <<>> /\ stack' = SetTop(t, frame)
           \/ stack' = Push(t, frame),
           frame.pc # "clear",
           stack[t] = <<>> \/ Top(t).pc \notin {"check", "clear", "queue"},
           UNCHANGED <<sigcounts, signalPending, owed, clobbered, cells, cdr, pending>>,
           \/ attentionRequest' = attentionRequest
           \/ attentionRequest' = [attentionRequest EXCEPT ![t] = FALSE] /\ frame.pc = "check"
    PROVE  OwedInv'
<1>1. \A pc : At(t, pc)' <=> frame.pc = pc
  BY TopAfter DEF SigInv
<1>2. ~ At(t, "queue") /\ ~ At(t, "check") /\ ~ At(t, "clear")
  BY DEF At
<1>3. Clearing(t)'
  BY <1>1 DEF Clearing
<1> QED
  BY <1>1, <1>2, <1>3, StageKept

\* A safe point leads to the check that the request is for.
LEMMA SafePointOwed ==
    ASSUME SigInv, OwedInv, NEW t \in Thread, SafePoint(t)
    PROVE  OwedInv'
<1> DEFINE frame == Call("check", t, {})
<1>1. frame.pc = "check"
  BY DEF Call
<1>2. /\ stack' = Push(t, frame) /\ (stack[t] = <<>> \/ Top(t).pc = "handler")
      /\ attentionRequest' = [attentionRequest EXCEPT ![t] = FALSE]
      /\ UNCHANGED <<signalPending, sigcounts, cells, cdr, pending, owed, clobbered>>
  BY DEF SafePoint, InCode, LeafAt, At, queue, history
<1> HIDE DEF frame
<1> QED
  BY <1>1, <1>2, SafePointMoves, FrameKept

\* Scm_SigCheck copies all that is counted, with every signal blocked.
LEMMA CopyOwed ==
    ASSUME SigInv, OwedInv, NEW t \in Thread, Copy(t)
    PROVE  OwedInv'
<1>1. /\ stack[t] # <<>> /\ Top(t).pc = "check"
      /\ UNCHANGED <<signalPending, sigcounts, attentionRequest, cells, cdr, pending, owed, clobbered>>
  BY DEF Copy, Runs, At, vm, queue, history
<1>2. SigTypes /\ Top(t) \in Frame /\ Len(stack[t]) \in Nat \ {0}
  BY <1>1, TopFacts DEF SigInv
<1>3. Moves(t) /\ ~ At(t, "queue")
  BY <1>1, CopyMoves DEF At
<1>4. CASE ~ signalPending[t]
  <2> DEFINE n == Len(stack[t]) - 1
  <2>1. n \in Nat /\ n < Len(stack[t]) /\ stack'[t] = SubSeq(stack[t], 1, n)
    BY <1>2, <1>4 DEF Copy, Pop, SigTypes
  <2> HIDE DEF n
  <2>2. Clearing(t)'
    BY <2>1, CutAfter
  <2> QED
    BY <1>1, <1>3, <1>4, <2>2, StageKept
<1>5. CASE signalPending[t]
  <2> DEFINE got == {s \in Signal : sigcounts[t][s] > 0}
             frame == [Top(t) EXCEPT !.pc = "clear", !.omask = mask[t], !.got = got]
  <2>1. stack' = SetTop(t, frame) /\ mask'[t] = Signal
    BY <1>2, <1>5 DEF Copy, BlockAll, SigTypes
  <2>2. frame.pc = "clear" /\ frame.got = got
    BY <1>2 DEF Frame
  <2>3. \A s \in Signal : sigcounts'[t][s] > 0 => s \in got
    BY <1>1
  <2> HIDE DEF frame, got
  <2>4. Top(t)' = frame /\ At(t, "clear")'
    BY <1>1, <1>2, <2>1, <2>2, TopAfter
  <2>5. Clearing(t)'
    BY <2>1, <2>2, <2>3, <2>4 DEF Clearing
  <2> QED
    BY <1>1, <1>3, <2>4, <2>5, StageKept
<1> QED
  BY <1>4, <1>5

\* sigsuspend blocks every signal, and loses none of them;
LEMMA SuspendBlocksOwed ==
    ASSUME SigInv, OwedInv, NEW t \in Thread, SuspendBlocks(t)
    PROVE  OwedInv'
<1> DEFINE frame == [Top(t) EXCEPT !.pc = "blocked", !.omask = mask[t]]
<1>1. /\ stack[t] # <<>> /\ Top(t).pc = "suspend" /\ stack' = SetTop(t, frame)
      /\ UNCHANGED <<signalPending, sigcounts, attentionRequest, cells, cdr, pending, owed, clobbered>>
  BY DEF SuspendBlocks, Runs, At, vm, queue, history
<1>2. frame.pc = "blocked"
  BY <1>1, TopFacts DEF Frame
<1> HIDE DEF frame
<1> QED
  BY <1>1, <1>2, SuspendBlocksMoves, FrameKept

\* it goes on to a Scm_SigCheck of its own when it finds one,
LEMMA SuspendLooksOwed ==
    ASSUME SigInv, OwedInv, NEW t \in Thread, SuspendLooks(t)
    PROVE  OwedInv'
<1>1. /\ stack[t] # <<>> /\ Top(t).pc = "blocked"
      /\ UNCHANGED <<signalPending, sigcounts, attentionRequest, cells, cdr, pending, owed, clobbered>>
  BY DEF SuspendLooks, Runs, At, vm, queue, history
<1>2. /\ SigTypes /\ stack[t] \in Seq(Frame) /\ Top(t) \in Frame
      /\ Top(t) = stack[t][Len(stack[t])]
  BY <1>1, TopFacts DEF SigInv
<1>3. Moves(t)
  BY SuspendLooksMoves
<1>4. CASE ~ signalPending[t]
  <2> DEFINE frame == [Top(t) EXCEPT !.pc = "ready"]
  <2>1. stack' = SetTop(t, frame) /\ frame.pc = "ready"
    BY <1>2, <1>4 DEF SuspendLooks, Frame
  <2> HIDE DEF frame
  <2> QED
    BY <1>1, <1>3, <2>1, FrameKept
<1>5. CASE signalPending[t]
  <2> DEFINE frame == [Top(t) EXCEPT !.pc = "suspend"]
             mid == Replace(stack[t], frame)
             call == Call("check", t, {})
             check == [call EXCEPT !.entry = Top(t).omask]
  <2>1. stack'[t] = Append(mid, check)
    BY <1>2, <1>5 DEF SuspendLooks, Replace, SigTypes
  <2>2. frame \in Frame /\ call \in Frame /\ call.pc = "check"
    BY <1>2, CallFacts DEF Frame, Mask
  <2> HIDE DEF call, frame
  <2>3. check \in Frame /\ check.pc = "check"
    BY <1>2, <2>2 DEF Frame
  <2> HIDE DEF check
  <2>4. mid \in Seq(Frame)
    BY <1>1, <1>2, <2>2, ReplaceFacts
  <2> HIDE DEF mid
  <2>5. Append(mid, check) # <<>> /\ Append(mid, check)[Len(Append(mid, check))] = check
    BY <2>3, <2>4, AppendProperties
  <2>6. Top(t)' = check
    BY <2>1, <2>5 DEF Top
  <2>7. ~ At(t, "clear")' /\ ~ At(t, "queue") /\ ~ At(t, "check") /\ ~ At(t, "clear")
    BY <1>1, <2>3, <2>6 DEF At
  <2>8. Clearing(t)'
    BY <2>7 DEF Clearing
  <2> QED
    BY <1>1, <1>3, <2>7, <2>8, StageKept
<1> QED
  BY <1>4, <1>5

\* and otherwise falls asleep,
LEMMA SuspendSleepsOwed ==
    ASSUME SigInv, OwedInv, NEW t \in Thread, SuspendSleeps(t)
    PROVE  OwedInv'
<1> DEFINE frame == [Top(t) EXCEPT !.pc = "asleep"]
<1>1. /\ stack[t] # <<>> /\ Top(t).pc = "ready" /\ stack' = SetTop(t, frame)
      /\ UNCHANGED <<signalPending, sigcounts, attentionRequest, cells, cdr, pending, owed, clobbered>>
  BY DEF SuspendSleeps, Runs, At, vm, queue, history
<1>2. frame.pc = "asleep"
  BY <1>1, TopFacts DEF Frame
<1> HIDE DEF frame
<1> QED
  BY <1>1, <1>2, SuspendSleepsMoves, FrameKept

\* to be followed by a check when it wakes up.
LEMMA SuspendReturnsOwed ==
    ASSUME SigInv, OwedInv, NEW t \in Thread, SuspendReturns(t)
    PROVE  OwedInv'
<1> DEFINE call == Call("check", t, {})
           frame == [call EXCEPT !.entry = Top(t).entry]
<1>1. /\ stack[t] # <<>> /\ Top(t).pc = "woken" /\ stack' = SetTop(t, frame)
      /\ UNCHANGED <<signalPending, sigcounts, attentionRequest, cells, cdr, pending, owed, clobbered>>
  BY DEF SuspendReturns, Runs, At, vm, queue, history
<1>2. call \in Frame /\ call.pc = "check"
  BY CallFacts DEF SigInv, Mask
<1> HIDE DEF call
<1>3. frame.pc = "check"
  BY <1>2 DEF Frame
<1> HIDE DEF frame
<1> QED
  BY <1>1, <1>3, SuspendReturnsMoves, FrameKept

\* A call of sigsuspend in code that runs,
LEMMA SigSuspendOwed ==
    ASSUME SigInv, OwedInv, NEW t \in Thread, NEW m \in Mask, SigSuspend(t, m)
    PROVE  OwedInv'
<1> DEFINE frame == Call("suspend", t, m)
<1>1. frame.pc = "suspend"
  BY DEF Call
<1>2. /\ stack' = Push(t, frame) /\ (stack[t] = <<>> \/ Top(t).pc = "handler")
      /\ UNCHANGED <<signalPending, sigcounts, attentionRequest, cells, cdr, pending, owed, clobbered>>
  BY DEF SigSuspend, MayCall, InCode, LeafAt, At, vm, queue, history
<1> HIDE DEF frame
<1> QED
  BY <1>1, <1>2, SigSuspendMoves, FrameKept

\* and of sys-sigmask, change nothing of what is recorded.
LEMMA SysSigmaskOwed ==
    ASSUME SigInv, OwedInv, NEW t \in Thread, NEW m \in {{}, Signal}, SysSigmask(t, m)
    PROVE  OwedInv'
<1>1. /\ stack[t] = <<>> \/ Top(t).pc = "handler"
      /\ UNCHANGED <<stack, signalPending, sigcounts, attentionRequest, cells, cdr, pending,
                     owed, clobbered>>
  BY DEF SysSigmask, MayCall, InCode, LeafAt, At, vm, queue, history
<1>2. ~ At(t, "queue") /\ ~ At(t, "check") /\ ~ At(t, "clear") /\ ~ At(t, "clear")'
  BY <1>1 DEF At, Top
<1>3. Clearing(t)'
  BY <1>2 DEF Clearing
<1> QED
  BY <1>1, <1>2, <1>3, SysSigmaskMoves, StageKept

\* A handler that returns goes on along the list,
LEMMA HandlerReturnsOwed ==
    ASSUME SigInv, OwedInv, NEW t \in Thread, HandlerReturns(t)
    PROVE  OwedInv'
<1> DEFINE frame == [Top(t) EXCEPT !.pc = "walk", !.sp = cdr[t][@]]
<1>1. /\ stack[t] # <<>> /\ Top(t).pc = "handler" /\ stack' = SetTop(t, frame)
      /\ UNCHANGED <<signalPending, sigcounts, attentionRequest, cells, cdr, pending, owed, clobbered>>
  BY DEF HandlerReturns, InCode, LeafAt, At, vm, queue, history
<1>2. frame.pc = "walk"
  BY <1>1, TopFacts DEF Frame
<1> HIDE DEF frame
<1> QED
  BY <1>1, <1>2, HandlerReturnsMoves, FrameKept

\* which is garbage when Scm_SigCheck returns only if it is empty,
LEMMA ReturnFromCheckOwed ==
    ASSUME SigInv, OwedInv, NEW t \in Thread, ReturnFromCheck(t)
    PROVE  OwedInv'
<1>1. /\ stack[t] # <<>> /\ Top(t).pc = "walk" /\ Collect(t) /\ stack' = Pop(t)
      /\ UNCHANGED <<signalPending, sigcounts, attentionRequest, owed, clobbered>>
  BY DEF ReturnFromCheck, Runs, At, vm, history
<1>2. SigTypes /\ Len(stack[t]) \in Nat \ {0}
  BY <1>1, TopFacts DEF SigInv
<1> DEFINE n == Len(stack[t]) - 1
<1>3. n \in Nat /\ n < Len(stack[t]) /\ stack'[t] = SubSeq(stack[t], 1, n)
  BY <1>1, <1>2 DEF Pop, SigTypes
<1> HIDE DEF n
<1>4. Clearing(t)'
  BY <1>3, CutAfter
<1>5. /\ pending' = pending
      /\ \/ cells'[t] = cells[t] /\ cdr'[t] = cdr[t] /\ pending'[t] = pending[t]
         \/ cells'[t] = <<>> /\ cdr'[t] = <<>> /\ pending'[t] = 0 /\ stack'[t] = <<>>
  BY <1>1, <1>2, CollectFacts
<1>6. ~ At(t, "queue") /\ ~ At(t, "check") /\ ~ At(t, "clear")
  BY <1>1 DEF At
<1> QED
  BY <1>1, <1>4, <1>5, <1>6, ReturnFromCheckMoves, StageKept

\* as when an error leaves one or more of them: the rest of the list stays.
LEMMA HandlerRaisesOwed ==
    ASSUME SignalsAssumption, SigInv, OwedInv, NEW t \in Thread, NEW n, HandlerRaises(t, n)
    PROVE  OwedInv'
<1>1. /\ stack[t] = <<>> \/ Top(t).pc = "handler"
      /\ Collect(t) /\ n \in 0 .. Len(stack[t]) - 1
      /\ stack' = [stack EXCEPT ![t] = SubSeq(@, 1, n)]
      /\ UNCHANGED <<signalPending, sigcounts, attentionRequest, owed, clobbered>>
  BY DEF HandlerRaises, InCode, LeafAt, At, vm
<1>2. SigTypes /\ Len(stack[t]) \in Nat
  BY LenProperties DEF SigInv, SigTypes
<1>3. n \in Nat /\ n < Len(stack[t]) /\ stack'[t] = SubSeq(stack[t], 1, n)
  BY <1>1, <1>2 DEF SigTypes
<1>4. Clearing(t)'
  BY <1>3, CutAfter
<1>5. /\ pending' = pending
      /\ \/ cells'[t] = cells[t] /\ cdr'[t] = cdr[t] /\ pending'[t] = pending[t]
         \/ cells'[t] = <<>> /\ cdr'[t] = <<>> /\ pending'[t] = 0 /\ stack'[t] = <<>>
  BY <1>1, <1>2, CollectFacts
<1>6. ~ At(t, "queue") /\ ~ At(t, "check") /\ ~ At(t, "clear")
  BY <1>1 DEF At
<1> QED
  BY <1>1, <1>4, <1>5, <1>6, HandlerRaisesMoves, StageKept

\* What is counted when the counters are cleared has been copied.
LEMMA ClearOwed ==
    ASSUME SigInv, OwedInv, NEW t \in Thread, Clear(t)
    PROVE  OwedInv'
<1> DEFINE frame == [Top(t) EXCEPT !.pc = "queue"]
<1>1. /\ ~ ended /\ stack[t] # <<>> /\ Top(t).pc = "clear" /\ stack' = SetTop(t, frame)
      /\ UNCHANGED <<attentionRequest, cells, cdr, pending, owed, clobbered>>
  BY DEF Clear, Runs, At, queue, history
<1>2. SigTypes /\ Top(t) \in Frame
  BY <1>1, TopFacts DEF SigInv
<1>3. frame.pc = "queue" /\ frame.got = Top(t).got
  BY <1>2 DEF Frame
<1> HIDE DEF frame
<1>4. Top(t)' = frame /\ \A pc : At(t, pc)' <=> frame.pc = pc
  BY <1>1, <1>2, TopAfter
<1>5. Growing(cdr'[t]) /\ Clearing(t)'
  BY <1>1, <1>3, <1>4 DEF OwedInv, OwedKept, Clearing
<1>6. ASSUME t \notin clobbered, NEW s \in owed[t] PROVE Found(t, s)'
  <2>1. Found(t, s) /\ s \in Signal /\ ~ At(t, "queue") /\ At(t, "clear") /\ Clearing(t)
    BY <1>1, <1>2, <1>6 DEF OwedInv, OwedKept, SigTypes, At
  <2>2. CASE Counting(t, s)
    <3>1. s \in Top(t).got
      BY <2>1, <2>2 DEF Counting, Clearing
    <3> QED
      BY <1>3, <1>4, <3>1 DEF Found
  <2>3. CASE Listed(t, s)
    BY <1>1, <2>3 DEF Found, Listed
  <2> QED
    BY <2>1, <2>2, <2>3 DEF Found
<1>7. OwedKept(t)'
  BY <1>1, <1>5, <1>6 DEF OwedKept
<1>8. Alone(t)
  BY <1>1, ClearMoves DEF Alone, Moves
<1> QED
  BY <1>7, <1>8, OwedOthers

\* The signal that gets a cell is in the list then, with all that was there.
LEMMA QueueOneOwed ==
    ASSUME SignalsAssumption, LeafTypes, SigInv, OwedInv, NEW t \in Thread, QueueOne(t)
    PROVE  OwedInv'
<1>1. SigTypes
  BY DEF SigInv
<1>0. PICK s : s = Min(Top(t).got)
  OBVIOUS
<1> DEFINE got == Top(t).got
           rest == got \ {s}
           frame == IF rest # {} THEN [Top(t) EXCEPT !.got = rest]
                    ELSE [Top(t) EXCEPT !.got = {}, !.pc = "walk", !.sp = pending'[t]]
<1>2. /\ ~ ended /\ stack[t] # <<>> /\ Top(t).pc = "queue" /\ stack' = SetTop(t, frame)
      /\ UNCHANGED <<signalPending, sigcounts, attentionRequest, clobbered>>
      /\ \/ owed' = owed /\ AddCell(t, [sig |-> s, mask |-> masks[s]])
         \/ UNCHANGED <<cells, cdr, pending>> /\ owed' = [owed EXCEPT ![t] = @ \ {s}]
  BY <1>0 DEF QueueOne, Runs, At, vm, queue
<1>3. Top(t) \in Frame /\ At(t, "queue")
  BY <1>2, TopFacts DEF At
<1>4. frame.pc \in {"queue", "walk"} /\ (rest # {} => frame.pc = "queue" /\ frame.got = rest)
  BY <1>2, <1>3 DEF Frame
<1> HIDE DEF frame
<1>5. Top(t)' = frame /\ \A pc : At(t, pc)' <=> frame.pc = pc
  BY <1>1, <1>2, TopAfter
<1>6. Clearing(t)'
  BY <1>4, <1>5 DEF Clearing
<1>7. \A r \in got : r # s => At(t, "queue")' /\ r \in Top(t)'.got
  <2>1. ASSUME NEW r \in got, r # s PROVE r \in rest /\ rest # {}
    BY <2>1
  <2> QED
    BY <1>4, <1>5, <2>1
<1>8. /\ Growing(cdr'[t]) /\ (\A r : Listed(t, r) => Listed(t, r)')
      /\ s \in owed'[t] => Listed(t, s)'
      /\ owed'[t] \subseteq owed[t] /\ \A u \in Thread \ {t} : owed'[u] = owed[u]
  <2>1. CASE UNCHANGED <<cells, cdr, pending>> /\ owed' = [owed EXCEPT ![t] = @ \ {s}]
    BY <1>1, <2>1 DEF OwedInv, OwedKept, Listed, SigTypes
  <2>2. CASE owed' = owed /\ AddCell(t, [sig |-> s, mask |-> masks[s]])
    <3> DEFINE cell == [sig |-> s, mask |-> masks[s]]
               d == cdr[t]
               p == pending[t]
               new == Len(d) + 1
               e == Append(IF p = Nil THEN d ELSE [d EXCEPT ![LastPair(d, p)] = Len(d) + 1], Nil)
               q == IF p = Nil THEN Len(d) + 1 ELSE p
    <3>1. /\ cells[t] \in Seq(Cell) /\ d \in Seq(Nat) /\ p \in Nat /\ Len(d) = Len(cells[t])
          /\ p <= Len(d) /\ \A i \in 1 .. Len(d) : d[i] <= Len(d)
      BY <1>1 DEF SigTypes, SigInv, Good, Linked
    <3>2. /\ cells' = [cells EXCEPT ![t] = Append(cells[t], cell)]
          /\ cdr' = [cdr EXCEPT ![t] = e] /\ pending' = [pending EXCEPT ![t] = q]
      <4> HIDE DEF cell
      <4>1. Len(cells[t]) = Len(cdr[t])
        BY <3>1
      <4> QED
        BY <1>1, <2>2, <4>1 DEF AddCell, SigTypes, cell
    <3>3. cells'[t] = Append(cells[t], cell) /\ cdr'[t] = e /\ pending'[t] = q
      BY <1>1, <3>2 DEF SigTypes
    <3>4. cell.sig = s /\ Growing(d)
      BY DEF OwedInv, OwedKept
    <3> HIDE DEF cell, d, p, e, q
    <3>5. p \in 0 .. Len(d) /\ Len(d) \in Nat /\ DOMAIN d = 1 .. Len(d)
      BY <3>1, LenProperties
    <3>6. e = Longer(d, p) /\ q = Headed(d, p)
      BY DEF e, q, Longer, Headed
    <3>7. /\ Growing(e) /\ Len(d) + 1 \in CellsFrom(e, q)
          /\ CellsFrom(d, p) \subseteq CellsFrom(e, q)
      BY <3>1, <3>4, <3>5, <3>6, AddCellList
    <3>8. cells[t] \in Seq(Cell \cup {cell})
      <4>1. \A i \in 1 .. Len(cells[t]) : cells[t][i] \in Cell \cup {cell}
        BY <3>1, ElementOfSeq
      <4> QED
        BY <3>1, <4>1, LenProperties
    <3>9. /\ \A i \in 1 .. Len(d) : Append(cells[t], cell)[i] = cells[t][i]
          /\ Append(cells[t], cell)[Len(d) + 1] = cell
      BY <3>1, <3>8, AppendProperties
    <3>10. ASSUME NEW r, Listed(t, r) PROVE Listed(t, r)'
      <4>1. PICK c \in CellsFrom(d, p) : cells[t][c].sig = r
        BY <3>10 DEF Listed, d, p
      <4>2. c \in 1 .. Len(d)
        BY <3>5 DEF CellsFrom
      <4>3. c \in CellsFrom(cdr'[t], pending'[t]) /\ cells'[t][c].sig = r
        BY <3>3, <3>7, <3>9, <4>1, <4>2
      <4> QED
        BY <4>3 DEF Listed
    <3>11. Listed(t, s)'
      <4>1. Len(d) + 1 \in CellsFrom(cdr'[t], pending'[t]) /\ cells'[t][Len(d) + 1].sig = s
        BY <3>3, <3>4, <3>7, <3>9
      <4> QED
        BY <4>1 DEF Listed
    <3> QED
      BY <2>2, <3>3, <3>7, <3>10, <3>11
  <2> QED
    BY <1>2, <2>1, <2>2
<1>9. ASSUME t \notin clobbered', NEW r \in owed'[t] PROVE Found(t, r)'
  <2>1. Found(t, r)
    BY <1>2, <1>8, <1>9 DEF OwedInv, OwedKept
  <2>2. CASE Counting(t, r)
    <3>1. attentionRequest[t]
      BY <1>2, <2>2 DEF Counting, At
    <3> QED
      BY <1>2, <2>2, <3>1 DEF Found, Counting
  <2>3. CASE r \in got
    BY <1>7, <1>8, <2>3 DEF Found
  <2>4. CASE Listed(t, r)
    BY <1>8, <2>4 DEF Found
  <2> QED
    BY <2>1, <2>2, <2>3, <2>4 DEF Found
<1>10. OwedKept(t)'
  BY <1>6, <1>8, <1>9 DEF OwedKept
<1>11. Alone(t)
  BY <1>2, <1>8, QueueOneMoves DEF Alone, Moves
<1> QED
  BY <1>10, <1>11, OwedOthers

\* A walk that has not lost its place takes one cell off the list.
LEMMA CallHandlerOwed ==
    ASSUME SigInv, OwedInv, NEW t \in Thread, CallHandler(t)
    PROVE  OwedInv'
<1>1. SigTypes
  BY DEF SigInv
<1> DEFINE c == Top(t).sp
           d == cdr[t]
           frame == [Top(t) EXCEPT !.pc = "handler", !.omask = mask[t]]
<1>2. /\ ~ ended /\ stack[t] # <<>> /\ Top(t).pc = "walk" /\ c # Nil /\ stack' = SetTop(t, frame)
      /\ UNCHANGED <<signalPending, sigcounts, attentionRequest, cells, cdr>>
      /\ pending' = [pending EXCEPT ![t] = d[c]]
      /\ owed' = [owed EXCEPT ![t] = @ \ {cells[t][c].sig}]
      /\ clobbered' = IF pending[t] \in {c, Nil} \cup CellsFrom(d, c)
                        THEN clobbered ELSE clobbered \cup {t}
  BY DEF CallHandler, Runs, At, vm
<1>3. Top(t) \in Frame /\ FrameFit(Top(t), Len(cells[t])) /\ Len(cells[t]) \in Nat
  BY <1>2, TopFacts
<1>4. frame.pc = "handler"
  BY <1>3 DEF Frame
<1>5. c \in 1 .. Len(cells[t])
  BY <1>2, <1>3 DEF Frame, FrameFit, Nil
<1>6. d \in Seq(Nat) /\ Len(d) = Len(cells[t]) /\ DOMAIN d = 1 .. Len(d) /\ c \in DOMAIN d
  BY <1>1, <1>5, LenProperties DEF SigTypes, SigInv, Good, Linked
<1>7. /\ pending'[t] = d[c] /\ owed'[t] = owed[t] \ {cells[t][c].sig}
      /\ \A u \in Thread \ {t} : owed'[u] = owed[u]
  BY <1>1, <1>2 DEF SigTypes
<1> HIDE DEF frame, c, d
<1>8. \A pc : At(t, pc)' <=> frame.pc = pc
  BY <1>1, <1>2, TopAfter
<1>9. Clearing(t)'
  BY <1>4, <1>8 DEF Clearing
<1>10. ASSUME NEW s \in owed'[t], Listed(t, s), t \notin clobbered' PROVE Listed(t, s)'
  <2>1. PICK k \in CellsFrom(d, pending[t]) : cells[t][k].sig = s
    BY <1>10 DEF Listed, d
  <2>2. k # c
    BY <1>7, <1>10, <2>1
  <2>3. pending[t] \in {c, Nil} \cup CellsFrom(d, c)
    BY <1>2, <1>10
  <2>4. k \in CellsFrom(d, c)
    <3>1. CASE pending[t] = c
      BY <2>1, <3>1
    <3>2. CASE pending[t] = Nil
      BY <2>1, <3>2, FromNil
    <3>3. CASE pending[t] \in CellsFrom(d, c)
      BY <2>1, <3>3, FromCell
    <3> QED
      BY <2>3, <3>1, <3>2, <3>3
  <2>5. k \in CellsFrom(d, d[c])
    BY <1>6, <2>2, <2>4, FromSplit
  <2>6. k \in CellsFrom(cdr'[t], pending'[t]) /\ cells'[t][k].sig = s
    BY <1>2, <1>7, <2>1, <2>5 DEF d
  <2> QED
    BY <2>6 DEF Listed
<1>11. /\ ~ At(t, "queue") /\ ~ At(t, "check") /\ ~ At(t, "clear") /\ Growing(cdr'[t])
       /\ owed'[t] \subseteq owed[t] /\ (t \in clobbered => t \in clobbered')
  BY <1>2, <1>7 DEF At, OwedInv, OwedKept
<1>12. /\ sigcounts'[t] = sigcounts[t] /\ signalPending'[t] = signalPending[t]
       /\ attentionRequest'[t] = attentionRequest[t]
  BY <1>2
<1>13. \A s \in owed'[t] : Listed(t, s) => t \in clobbered' \/ Listed(t, s)'
  BY <1>10
<1>14. OwedKept(t)'
  BY <1>2, <1>9, <1>11, <1>12, <1>13, OwedStays
<1>15. Alone(t)
  BY <1>2, <1>7, CallHandlerMoves DEF Alone, Moves
<1> QED
  BY <1>14, <1>15, OwedOthers

\* A signal that is delivered is counted, with both flags up: never while the counters
\* that have been copied are not cleared yet.
LEMMA DeliverOwed ==
    ASSUME SignalsAssumption, LeafTypes, SigInv, OwedInv,
           NEW t \in Thread, NEW s \in Signal, Deliver(t, s)
    PROVE  OwedInv'
<1>1. SigTypes /\ Moves(t)
  BY DeliverMoves DEF SigInv
<1>2. ~ ended /\ s \notin mask[t] /\ UNCHANGED <<cells, cdr, pending, clobbered>>
  BY DEF Deliver, queue
<1>3. ~ At(t, "clear")
  BY <1>2 DEF OwedInv, OwedKept, Clearing
<1>4. CASE action[s] = "handle"
  <2>1. Record(t, s) /\ WakeUp(t) /\ owed' = [owed EXCEPT ![t] = @ \cup {s}]
    BY <1>4, Zenon DEF Deliver
  <2>2. /\ \A u \in Thread \ {t} : owed'[u] = owed[u] /\ attentionRequest'[u] = attentionRequest[u]
        /\ owed'[t] = owed[t] \cup {s}
    BY <1>1, <2>1 DEF Record, SigTypes
  <2>3. /\ ~ At(t, "clear")' /\ (At(t, "queue") => At(t, "queue")' /\ Top(t)'.got = Top(t).got)
    <3>1. CASE At(t, "asleep")
      <4> DEFINE frame == [Top(t) EXCEPT !.pc = "woken"]
      <4>1. stack' = SetTop(t, frame) /\ stack[t] # <<>> /\ Top(t).pc = "asleep"
        BY <2>1, <3>1 DEF WakeUp, At
      <4>2. frame.pc = "woken"
        BY <4>1, TopFacts DEF Frame
      <4> HIDE DEF frame
      <4>3. \A pc : At(t, pc)' <=> frame.pc = pc
        BY <1>1, <4>1, TopAfter
      <4> QED
        BY <4>1, <4>2, <4>3 DEF At
    <3>2. CASE ~ At(t, "asleep")
      <4>1. stack' = stack
        BY <2>1, <3>2 DEF WakeUp
      <4> QED
        BY <1>3, <4>1 DEF At, Top
    <3> QED
      BY <3>1, <3>2
  <2>4. Growing(cdr'[t]) /\ Clearing(t)'
    BY <1>2, <2>3 DEF OwedInv, OwedKept, Clearing
  <2>5. CASE TooMany(t, s)
    <3>1. ended'
      BY <2>1, <2>5 DEF Record
    <3>2. OwedKept(t)'
      BY <2>4, <3>1 DEF OwedKept
    <3>3. Alone(t)
      BY <1>1, <1>2, <2>2 DEF Alone, Moves
    <3> QED
      BY <3>2, <3>3, OwedOthers
  <2>6. CASE ~ TooMany(t, s)
    <3>1. /\ signalPending'[t] /\ attentionRequest'[t]
          /\ sigcounts'[t] = [sigcounts[t] EXCEPT ![s] = Counted(t, s)]
      BY <1>1, <2>1, <2>6 DEF Record, SigTypes
    <3>2. Counted(t, s) \in Nat /\ Counted(t, s) > 0 /\ sigcounts[t] \in [Signal -> Nat]
      BY <1>1 DEF Counted, SigTypes
    <3>3. sigcounts'[t][s] > 0 /\ \A r \in Signal : sigcounts[t][r] > 0 => sigcounts'[t][r] > 0
      BY <3>1, <3>2
    <3>4. ASSUME t \notin clobbered, NEW r \in owed'[t] PROVE Found(t, r)'
      <4>1. CASE r = s
        BY <3>1, <3>3, <4>1 DEF Found, Counting
      <4>2. CASE r # s
        <5>1. Found(t, r) /\ r \in Signal
          BY <1>1, <1>2, <2>2, <3>4, <4>2 DEF OwedInv, OwedKept, SigTypes
        <5>2. CASE Counting(t, r)
          BY <3>1, <3>3, <5>1, <5>2 DEF Found, Counting
        <5>3. CASE At(t, "queue") /\ r \in Top(t).got
          BY <2>3, <5>3 DEF Found
        <5>4. CASE Listed(t, r)
          BY <1>2, <5>4 DEF Found, Listed
        <5> QED
          BY <5>1, <5>2, <5>3, <5>4 DEF Found
      <4> QED
        BY <4>1, <4>2
    <3>5. OwedKept(t)'
      BY <1>2, <2>4, <3>4 DEF OwedKept
    <3>6. Alone(t)
      BY <1>1, <1>2, <2>2 DEF Alone, Moves
    <3> QED
      BY <3>5, <3>6, OwedOthers
  <2> QED
    BY <2>5, <2>6
<1>5. CASE action[s] \in {"ignore", "default"}
  <2>1. UNCHANGED <<vm, stack, mask, owed>>
    <3>1. CASE action[s] = "ignore"
      BY <3>1, Zenon DEF Deliver
    <3>2. CASE action[s] = "default"
      BY <3>2, Zenon DEF Deliver
    <3> QED
      BY <1>5, <3>1, <3>2
  <2>2. \A u \in Thread : OwedKept(u)
    BY DEF OwedInv
  <2>3. ASSUME NEW u \in Thread PROVE OwedKept(u)'
    BY <1>2, <2>1, <2>2, OwedFrame DEF vm
  <2> QED
    BY <2>3 DEF OwedInv
<1>6. action[s] \in Actions
  BY DEF LeafTypes
<1> QED
  BY <1>4, <1>5, <1>6 DEF Actions

\* The other actions have nothing to do with it.
LEMMA OtherOwed ==
    ASSUME OwedInv, UNCHANGED <<mask, ended, vm, queue, stack, owed, clobbered>>
    PROVE  OwedInv'
<1>1. \A u \in Thread : OwedKept(u)
  BY DEF OwedInv
<1>2. ASSUME NEW u \in Thread PROVE OwedKept(u)'
  BY <1>1, OwedFrame DEF vm, queue
<1> QED
  BY <1>2 DEF OwedInv

\* Every step keeps what is owed.
LEMMA OwedStep ==
    ASSUME SignalsAssumption, LeafTypes, SigInv, OwedInv, Next
    PROVE  OwedInv'
<1>1. ASSUME UNCHANGED <<mask, ended, vm, queue, stack, owed, clobbered>> PROVE OwedInv'
  BY <1>1, OtherOwed
<1>2. ASSUME NEW s \in Signal, Kill(s) PROVE OwedInv'
  BY <1>1, <1>2 DEF Kill, history
<1>3. ASSUME NEW t \in Thread, NEW s \in Signal, Deliver(t, s) PROVE OwedInv'
  BY <1>3, DeliverOwed
<1>4. ASSUME NEW t \in Thread, NEW s \in Signal, SigWaitTakes(t, s) PROVE OwedInv'
  BY <1>1, <1>4 DEF SigWaitTakes, history
<1>5. ASSUME NEW t \in Thread, Step(t) PROVE OwedInv'
  <2>1. CASE SafePoint(t)
    BY <2>1, SafePointOwed
  <2>2. CASE Copy(t)
    BY <2>2, CopyOwed
  <2>3. CASE Clear(t)
    BY <2>3, ClearOwed
  <2>4. CASE QueueOne(t)
    BY <2>4, QueueOneOwed
  <2>5. CASE CallHandler(t)
    BY <2>5, CallHandlerOwed
  <2>6. CASE ReturnFromCheck(t)
    BY <2>6, ReturnFromCheckOwed
  <2>7. CASE SuspendBlocks(t)
    BY <2>7, SuspendBlocksOwed
  <2>8. CASE SuspendLooks(t)
    BY <2>8, SuspendLooksOwed
  <2>9. CASE SuspendSleeps(t)
    BY <2>9, SuspendSleepsOwed
  <2>10. CASE SuspendReturns(t)
    BY <2>10, SuspendReturnsOwed
  <2>11. CASE SetAction(t) \/ SetHandler(t) \/ SetMask(t) \/ SigWaitReturns(t)
    BY <1>1, <2>11 DEF SetAction, SetHandler, SetMask, SigWaitReturns, kernel, history
  <2> QED
    BY <1>5, <2>1, <2>2, <2>3, <2>4, <2>5, <2>6, <2>7, <2>8, <2>9, <2>10, <2>11, Zenon DEF Step
<1>6. ASSUME NEW t \in Thread, HandlerEnds(t) PROVE OwedInv'
  <2>1. CASE HandlerReturns(t)
    BY <2>1, HandlerReturnsOwed
  <2>2. ASSUME NEW n, HandlerRaises(t, n) PROVE OwedInv'
    BY <2>2, HandlerRaisesOwed
  <2> QED
    BY <1>6, <2>1, <2>2, Zenon DEF HandlerEnds
<1>7. ASSUME NEW t \in Thread, Request(t) PROVE OwedInv'
  <2>1. ASSUME NEW m \in {{}, Signal}, SysSigmask(t, m) PROVE OwedInv'
    BY <2>1, SysSigmaskOwed
  <2>2. ASSUME NEW m \in {{}, mask[t]}, SigSuspend(t, m) PROVE OwedInv'
    <3>1. m \in Mask
      BY DEF SigInv, SigTypes, Mask
    <3> QED
      BY <2>2, <3>1, SigSuspendOwed
  <2>3. ASSUME NEW set \in Settings, SetSignalHandler(t, set[1], set[2], set[3]) PROVE OwedInv'
    BY <1>1, <2>3 DEF SetSignalHandler, kernel
  <2>4. ASSUME NEW sigs \in Awaited, SigWait(t, sigs) PROVE OwedInv'
    BY <1>1, <2>4 DEF SigWait
  <2> QED
    BY <1>7, <2>1, <2>2, <2>3, <2>4, Zenon DEF Request
<1> QED
  BY <1>2, <1>3, <1>4, <1>5, <1>6, <1>7, Zenon DEF Next

\* What a thread owes is counted, copied by its innermost call, or in its list.
THEOREM OwedInvariance == Spec => []OwedInv
<1>1. Init => OwedInv
  <2> SUFFICES ASSUME Init, NEW t \in Thread PROVE OwedKept(t)
    BY DEF OwedInv
  <2>1. cdr[t] = <<>> /\ stack[t] = <<>> /\ owed[t] = {}
    BY DEF Init
  <2>2. Growing(cdr[t]) /\ Clearing(t)
    BY <2>1, EmptySeq DEF Growing, Clearing, At
  <2> QED
    BY <2>1, <2>2 DEF OwedKept
<1>2. SigInv /\ LeafTypes /\ OwedInv /\ [Next]_vars => OwedInv'
  <2> SUFFICES ASSUME SigInv, LeafTypes, OwedInv, [Next]_vars PROVE OwedInv'
    OBVIOUS
  <2>1. CASE Next
    BY <2>1, OwedStep, SignalsAssumption
  <2>2. CASE UNCHANGED vars
    BY <2>2, OtherOwed DEF vars, kernel, history
  <2> QED
    BY <2>1, <2>2
<1> QED
  BY <1>1, <1>2, SigInvariance, PTL DEF Spec

\* No recorded signal is lost before its handler is called, whatever signals come while
\* Scm_SigCheck runs, whatever handlers raise and however deep they are interrupted, as
\* long as no walk overwrites a q->pending that it is not walking along.
THEOREM NothingRecordedIsLost == Spec => []NoSignalLost
<1>1. SigInv /\ LeafTypes /\ OwedInv => NoSignalLost
  <2> SUFFICES ASSUME SigInv, OwedInv, ~ ended, NEW t \in Thread \ clobbered, NEW s \in owed[t]
               PROVE  Counting(t, s) \/ Copied(t, s) \/ Listed(t, s)
    BY DEF NoSignalLost
  <2>1. Found(t, s)
    BY DEF OwedInv, OwedKept
  <2>2. ASSUME At(t, "queue"), s \in Top(t).got PROVE Copied(t, s)
    <3>1. stack[t] # <<>> /\ Top(t).pc = "queue"
      BY <2>2 DEF At
    <3>2. Len(stack[t]) \in Nat \ {0} /\ Top(t) = stack[t][Len(stack[t])]
      BY <3>1, TopFacts
    <3>3. Len(stack[t]) \in 1 .. Len(stack[t])
      BY <3>2
    <3> QED
      BY <2>2, <3>1, <3>2, <3>3 DEF Copied
  <2> QED
    BY <2>1, <2>2 DEF Found
<1> QED
  BY <1>1, SigInvariance, OwedInvariance, PTL
=============================================================================
