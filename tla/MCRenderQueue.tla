---------------------------- MODULE MCRenderQueue ----------------------------
(* Instances of RenderQueue for TLC. *)
EXTENDS RenderQueue, TLC

CONSTANTS c1, c2, j1, j2, r1, r2

OneClaim == {c1}
TwoClaims == {c1, c2}
OneJob == {j1}
TwoJobs == {j1, j2}
OneResult == {r1}
TwoResults == {r1, r2}
FleetSymmetry == Permutations(Claims) \cup Permutations(Jobs) \cup Permutations(Results)
==============================================================================
