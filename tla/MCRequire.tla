----------------------------- MODULE MCRequire -----------------------------
(* Small instances of Require for TLC.                                         *)
EXTENDS Require

CONSTANTS fa, fb, fc   \* three features

\* Files that require each other: fa and fb, by way of fc or directly.
CyclicRequires == {<<fa, fb>>, <<fb, fa>>, <<fb, fc>>, <<fc, fa>>}

\* fa and fb require each other, and fb requires itself.
MutualRequires == {<<fa, fb>>, <<fb, fa>>, <<fb, fb>>}
=============================================================================
