----------------------------- MODULE MCSignals -----------------------------
(* A small instance of Signals for TLC.                                        *)
EXTENDS Signals, TLC

CONSTANTS t1, t2

\* t1 takes the signals, with a check nested in a handler, and sleeps in
\* sigsuspend or sets handlers; t2 blocks them, and sets handlers or waits in
\* sigwait, perhaps while t1 sets those of the other signal.
Depth == t1 :> 2 @@ t2 :> 1
Budget == t1 :> 1 @@ t2 :> 1
Blocked == t1 :> {} @@ t2 :> {1, 2}

\* The handler of signal 1 has no mask of its own; that of signal 2 blocks 2.
HandlerMasks == <<{0}, {2}>>
HandlerSettings == {<<{1}, "#f", {1}>>, <<{1, 2}, "procedure", {1, 2}>>}
=============================================================================
