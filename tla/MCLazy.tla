------------------------------- MODULE MCLazy -------------------------------
(* A small instance of Lazy for TLC.                                           *)
EXTENDS Lazy, TLC

CONSTANTS t1, t2

\* One thread forces two things, one after the other or nested.
Forces == t1 :> 2 @@ t2 :> 1
=============================================================================
