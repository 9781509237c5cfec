-------------------------- MODULE MCSynchronizers --------------------------
(* A small instance of Synchronizers for TLC.                                  *)
EXTENDS Synchronizers, TLC

CONSTANTS t1, t2, t3

\* One thread goes on to a second call.
Calls == t1 :> 1 @@ t2 :> 1 @@ t3 :> 2
=============================================================================
