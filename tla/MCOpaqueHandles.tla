--------------------------- MODULE MCOpaqueHandles ---------------------------
(***************************************************************************)
(* Two requests and an object of three other classes, two architectures,   *)
(* and memory for one chain of representations and part of another:        *)
(* addresses run out and are used again.                                   *)
(***************************************************************************)
EXTENDS OpaqueHandles, TLC

CONSTANTS q1, q2, res, ins, arch, i1, a1, a2, e1

MCKindOf ==
    q1 :> "request" @@ q2 :> "request" @@ res :> "result" @@ ins :> "input_set"
    @@ arch :> "architectures"

Symmetric == Permutations({q1, q2})

=============================================================================
