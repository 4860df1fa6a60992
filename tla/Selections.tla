----------------------------- MODULE Selections -----------------------------
(***************************************************************************)
(* The elements of a sequence that a loop keeps, in their order: what      *)
(* std::copy_if and loops with a condition leave of a container.           *)
(***************************************************************************)
EXTENDS Naturals, Sequences

Only(s, S) ==
    LET kept[i \in 0 .. Len(s)] ==
            IF i = 0 THEN <<>>
            ELSE IF s[i] \in S THEN Append(kept[i - 1], s[i]) ELSE kept[i - 1]
    IN  kept[Len(s)]
=============================================================================
