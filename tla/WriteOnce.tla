----------------------------- MODULE WriteOnce -----------------------------
(* What src/src/lazy.c 115-120 says of a promise: it is settled at most once,  *)
(* and from then on everybody who forces it is given the same object.          *)
EXTENDS Naturals

CONSTANTS
    Promises,
    Objects     \* the values and conditions, without 0, which stands for none

VARIABLES
    result,     \* per promise, <<state, object>>
    answers     \* <<promise, state, object>>: what callers of force were given

Unforced == <<"UNFORCED", 0>>
Lost == <<"LOST", 0>>

\* The promises of S, which have come to share their content, become FORCED or
\* EXCEPTION together (a promise may also be made that way).
Settle(S, s, v) ==
    /\ \A p \in S : result[p] = Unforced
    /\ result' = [p \in Promises |-> IF p \in S THEN <<s, v>> ELSE result[p]]
    /\ UNCHANGED answers

\* The promises of S lose their result, and anything may be answered for them.
Lose(S) ==
    /\ result' = [p \in Promises |-> IF p \in S THEN Lost ELSE result[p]]
    /\ UNCHANGED answers

\* A force of p delivers v: as a value, if p is FORCED.  The call that ran the
\* thunk and failed raises the object of the promise, even if another call has
\* settled the promise as FORCED before.
Answer(p, s, v) ==
    /\ result[p] # Unforced
    /\ result[p] # Lost => /\ v = result[p][2]
                           /\ s = "FORCED" => result[p][1] = "FORCED"
    /\ answers' = answers \cup {<<p, s, v>>}
    /\ UNCHANGED result

Init == result = [p \in Promises |-> Unforced] /\ answers = {}

Next ==
    \E s \in {"FORCED", "EXCEPTION"} :
        \/ \E S \in SUBSET Promises, v \in Objects : Settle(S, s, v)
        \/ \E p \in Promises, v \in Objects \cup {0} : Answer(p, s, v)
    \/ \E S \in SUBSET Promises : Lose(S)

Spec == Init /\ [][Next]_<<result, answers>>
=============================================================================
