----------------------------- MODULE MCTreeMap -----------------------------
(* Trees of up to NKeys entries, for TLC.                                      *)
EXTENDS TreeMap
=============================================================================
