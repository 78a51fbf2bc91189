----------------------------- MODULE MCSetupApp -----------------------------
(* One host with two roots, one recipe path and two domains.               *)
EXTENDS SetupApp, TLC

CONSTANTS j1, j2, j3, h1, r1, r2, a1, p1, d1, d2

MCRootHost == (r1 :> h1) @@ (r2 :> h1)
MCRootOf == (a1 :> r1)

JobSymmetry == Permutations({j1, j2, j3})

=============================================================================
