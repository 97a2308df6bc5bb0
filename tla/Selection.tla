------------------------------ MODULE Selection ------------------------------
(***************************************************************************)
(* The loop that keeps the entries a client may see, as the hubs write it. *)
(* It is a recursive function rather than SelectSeq, which the prover does *)
(* not expand.                                                             *)
(***************************************************************************)
EXTENDS Naturals, Sequences

\* The elements of s that are in T, in their order.
Selected(s, T) ==
    LET kept[n \in 0 .. Len(s)] ==
            IF n = 0 THEN <<>>
            ELSE IF s[n] \in T THEN Append(kept[n - 1], s[n]) ELSE kept[n - 1]
    IN  kept[Len(s)]
===============================================================================
