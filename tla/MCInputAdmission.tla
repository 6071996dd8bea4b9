-------------------------- MODULE MCInputAdmission --------------------------
(***************************************************************************)
(* A small world for build_input_set::admit: a subject "a" whose recipe    *)
(* asks for up to two packages in each scope, two helpers "h" and "k" in   *)
(* the build environment, a target-environment selection "t" of the same   *)
(* package as "h", and an identity "x" that no selection has.              *)
(***************************************************************************)
EXTENDS AdmissionRefinement, TLC

MCSelectionId == {"a", "h", "k", "t", "x"}
MCEdgeId == {"e1", "e2", "e3", "e4", "e5", "e6", "e7", "e8", "e9", "e10", "e11", "e12"}
MCPackage == {"pa", "ph", "pk"}
MCOrigins == {"oh", "ok"}

\* An order of digests that follows neither the edges nor the requirements.
EdgeRank ==
    "e1" :> 5 @@ "e2" :> 3 @@ "e3" :> 7 @@ "e4" :> 1 @@ "e5" :> 9 @@ "e6" :> 2
    @@ "e7" :> 4 @@ "e8" :> 8 @@ "e9" :> 6 @@ "e10" :> 10 @@ "e11" :> 11 @@ "e12" :> 0
SelectionRank == "a" :> 0 @@ "h" :> 1 @@ "k" :> 2 @@ "t" :> 3 @@ "x" :> 4
DigestRank(id) ==
    EdgeRank[id.edge] * 10 + SelectionRank[id.selection] * 2
        + (IF id.scope = "build" THEN 0 ELSE 1)
MCIdentityLess(a, b) == DigestRank(a) < DigestRank(b)

-----------------------------------------------------------------------------
(* Requirements, sources and selections *)

Asks(scope, package, origins) ==
    [scope |-> scope, package |-> package, origins |-> origins]
NeedsH(scope) == Asks(scope, "ph", "oh")
NeedsK(scope) == Asks(scope, "pk", "ok")

SourceOf(id, build, check) ==
    [identity |-> id, build_requirements |-> build, check_requirements |-> check,
     architectures |-> [build |-> {}, target |-> {}]]

A(build, check) ==
    [identity |-> "a", environment |-> "target",
     architectures |-> [build |-> "x86", target |-> "arm"],
     candidate |-> [source |-> SourceOf("sa", build, check),
                    release |-> "r1", package |-> "pa"],
     release |-> "r1", source_snapshot |-> "sa", package |-> "pa"]

Helper(id, environment, package) ==
    [identity |-> id, environment |-> environment,
     architectures |-> [build |-> "x86", target |-> "x86"],
     candidate |-> NoCandidate,
     release |-> "r1", source_snapshot |-> "sh", package |-> package]

Helpers == <<Helper("h", "build", "ph"), Helper("k", "build", "pk"),
             Helper("t", "target", "ph")>>

-----------------------------------------------------------------------------
(* Edges *)

Catalog(origins) ==
    [kind |-> "catalog_source", catalog_source |-> "sa", catalog_origins |-> origins]

Draws(id, required, scope, origins) ==
    [identity |-> id, issuer |-> "a", required |-> required, scope |-> scope,
     environment |-> "build", witness |-> Catalog(origins)]

E1 == Draws("e1", "h", "build", "oh")
E2 == Draws("e2", "k", "build", "ok")
E3 == Draws("e3", "k", "check", "ok")
E7 == Draws("e7", "h", "check", "oh")

\* Edges an exact resolution does not have: a second edge to h, edges to the
\* target-environment package, to an absent selection, with the origins of
\* another requirement, for another issuer, for the run scope, in the target
\* environment, and on the authority of the installed state.
Extra ==
    {Draws("e4", "h", "build", "oh"), Draws("e5", "t", "build", "oh"),
     Draws("e6", "x", "build", "oh"), Draws("e8", "h", "build", "ok"),
     [Draws("e9", "k", "build", "ok") EXCEPT !.issuer = "h"],
     Draws("e10", "h", "run", "oh"),
     [Draws("e11", "h", "build", "oh") EXCEPT !.environment = "target"],
     [Draws("e12", "h", "build", "oh") EXCEPT
        !.witness = [kind |-> "installed_state", catalog_source |-> NoSource,
                     catalog_origins |-> "oh"]]}

Pool == {E1, E2, E3, E7} \cup Extra

Listings(edges, n) == UNION {[1..m -> edges] : m \in 0..n}

-----------------------------------------------------------------------------
(* Calls *)

Resolved(selections, edges, goals) ==
    [identity |-> "R",
     request |-> [build |-> "x86", target |-> [build |-> "x86", target |-> "arm"]],
     selections |-> selections, edges |-> edges, goals |-> goals]

Dormant == {[scope |-> "check", members |-> {"h"}],
            [scope |-> "build", members |-> {"a"}]}
Active == {[scope |-> "check", members |-> {"a", "h"}]}

BuildLists ==
    {<<>>, <<NeedsH("build")>>, <<NeedsH("build"), NeedsK("build")>>,
     <<NeedsH("build"), NeedsH("build")>>, <<NeedsH("run")>>}
CheckLists == {<<>>, <<NeedsK("check")>>, <<NeedsH("check")>>}

CallsWith(edges, n) ==
    {<<Resolved(<<A(b, c)>> \o Helpers, e, g), "a">> :
        b \in BuildLists, c \in CheckLists, e \in Listings(edges, n),
        g \in {Dormant, Active}}

\* Three edges that each suit a requirement, in every order: the exact ones.
SuitableCalls ==
    {call \in CallsWith({E1, E2, E3, E7}, 3) : Len(call[1].edges) = 3}

\* The subject's own defects, and selections listed twice or not at all.
Plain == A(<<NeedsH("build")>>, <<>>)
SubjectLists ==
    {Helpers, <<Plain, Plain>> \o Helpers, <<Plain>> \o Helpers \o Helpers,
     <<[Plain EXCEPT !.candidate = NoCandidate]>> \o Helpers,
     <<[Plain EXCEPT !.source_snapshot = "sh"]>> \o Helpers,
     <<[Plain EXCEPT !.release = "r2"]>> \o Helpers,
     <<[Plain EXCEPT !.package = "ph"]>> \o Helpers,
     <<[Plain EXCEPT !.architectures.build = "arm"]>> \o Helpers,
     <<[Plain EXCEPT !.architectures.target = "x86"]>> \o Helpers,
     <<[Plain EXCEPT !.environment = "build"]>> \o Helpers}
SubjectCalls ==
    {<<Resolved(s, e, Dormant), id>> :
        s \in SubjectLists, e \in {<<>>, <<E1>>}, id \in {"a", "t", "x"}}

\* Three exact edges and one extra one, in every order.
CrowdedCalls ==
    {<<Resolved(<<A(<<NeedsH("build"), NeedsK("build")>>, <<NeedsK("check")>>)>>
                    \o Helpers, e, Active), "a">> :
        e \in UNION {Bijection(1..4, {E1, E2, E3, x}) : x \in Extra \cup {E7}}}

MCCalls ==
    CallsWith(Pool, 2) \cup SuitableCalls \cup CrowdedCalls \cup SubjectCalls

\* Edges whose identities collide: what a caller can build with the public
\* constructor of requirement_edge, which takes the identity as an argument.
Colliding ==
    {E1, E2, E3, [E2 EXCEPT !.identity = "e1"], [E3 EXCEPT !.identity = "e1"],
     [E7 EXCEPT !.identity = "e3"]}
CollidingCalls == CallsWith(Colliding, 3)

=============================================================================
