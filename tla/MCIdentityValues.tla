--------------------------- MODULE MCIdentityValues ---------------------------
(***************************************************************************)
(* Digests of two bytes, at the boundaries of a digit and of the letters;  *)
(* texts one character too short and too long, and texts of the right      *)
(* length with one character beside the canonical ranges, or upper-case.   *)
(***************************************************************************)
EXTENDS IdentityValues

MCDigests == [1..2 -> {0, 9, 10, 15, 16, 159, 160, 255}]
MCTexts ==
    UNION {[1..n -> {48, 57, 102}] : n \in {0, 3, 4, 5}}
    \cup {t \in [1..4 -> {47, 58, 65, 70, 96, 97, 103}] :
            Cardinality({i \in 1..4 : t[i] # 97}) <= 1}

=============================================================================
