----------------------------- MODULE MCPresence -----------------------------
(* Instances of Presence for TLC.                                          *)
EXTENDS Presence, TLC

\* Requests are interchangeable.
RequestSymmetry == Permutations(Requests)

=============================================================================
