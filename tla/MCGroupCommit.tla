----------------------------- MODULE MCGroupCommit -----------------------------
(* Three Exports of different sizes against bounds each of which can bind.   *)
EXTENDS GroupCommit, TLC

CONSTANTS a, b, c

MCExports == {a, b, c}
MCBytes == (a :> 2) @@ (b :> 1) @@ (c :> 1)
MCDeltas == (a :> 1) @@ (b :> 2) @@ (c :> 1)
===============================================================================
