----------------------------- MODULE MCIdentityGC -----------------------------
(* Two names, three Exports and two restarts: the first leaves a name that is    *)
(* known, unreferenced and absent from the cache, which a pass then sweeps; the  *)
(* second reseeds the IDs after that sweep.                                      *)
EXTENDS IdentityGC, TLC

CONSTANTS x1, x2, x3, v1, v2
MCExports == {x1, x2, x3}
MCValues == {v1, v2}
IdentitySymmetry == Permutations(MCExports) \cup Permutations(MCValues)
===============================================================================
