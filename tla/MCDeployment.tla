---------------------------- MODULE MCDeployment ----------------------------
EXTENDS Deployment, TLC

CONSTANTS j1, j2, j3, h1, r1, a1, a2

\* One host with one root.
OneRootHost == (r1 :> h1)
OneRoot == (a1 :> r1)

\* Two apps share the root.
SharedRoot == (a1 :> r1) @@ (a2 :> r1)

\* Jobs are created in any order, for apps that nothing tells apart.
Symmetry == Permutations({j1, j2}) \cup Permutations({a1, a2})

=============================================================================
