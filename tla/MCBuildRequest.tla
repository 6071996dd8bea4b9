--------------------------- MODULE MCBuildRequest ---------------------------
(***************************************************************************)
(* The world of MCInputAdmission with sources that declare architectures:  *)
(* none, the selected one, another one, or both, for build and for target. *)
(***************************************************************************)
EXTENDS BuildRequest, MCInputAdmission

Declares(call, build, target) ==
    <<[call[1] EXCEPT !.selections[1].candidate.source.architectures =
            [build |-> build, target |-> target]], call[2]>>

\* Calls that admit accepts, and calls it refuses.
BaseCalls ==
    {call \in SuitableCalls :
        LET recipe == call[1].selections[1].candidate.source IN
        /\ recipe.build_requirements = <<NeedsH("build"), NeedsK("build")>>
        /\ recipe.check_requirements = <<NeedsK("check")>>}
    \cup {<<Resolved(<<Plain>> \o Helpers, e, Dormant), id>> :
            e \in {<<>>, <<E1>>, <<E3, E1>>}, id \in {"a", "t"}}

MCRequestCalls ==
    {Declares(call, build, target) :
        call \in BaseCalls, build \in SUBSET Architecture, target \in SUBSET Architecture}

=============================================================================
