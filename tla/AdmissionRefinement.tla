------------------------- MODULE AdmissionRefinement -------------------------
(***************************************************************************)
(* build_input_set::admit against its contract, and the properties of the  *)
(* loop that hold even if identities collide.                              *)
(***************************************************************************)
EXTENDS InputAdmission

\* The contract sees the arguments and the outcome; the stage and the locals of
\* the loops are the code's own.
Contract == INSTANCE AdmissionContract WITH
    resolution <- resolution, subject_identity <- subject_identity, outcome <- outcome

\* libpkgresolve derives an edge's identity from the edge: equal identities
\* mean equal edges.
FaithfulEdges ==
    \A call \in Calls : \A i, j \in DOMAIN call[1].edges :
        call[1].edges[i].identity = call[1].edges[j].identity
            => call[1].edges[i] = call[1].edges[j]

\* admit decides what the contract says: the loops with their early exits, the
\* set of consumed edges and the sweep accept exactly the resolutions in which
\* the active requirements and the direct edges correspond one to one, refuse
\* the others for a defect they have, and seal the inputs in identity order,
\* whatever the order of edges and requirements.
ImplementsContract == Contract!Spec

\* While the loop runs, the inputs are the first requirements, each bound to an
\* edge and a selection of the resolution, and no two share an edge identity:
\* "consumed" is exactly what the inputs hold.
LoopIsOneToOne ==
    pc = "match" =>
        /\ Len(inputs) <= Len(requirements)
        /\ \A k \in DOMAIN inputs :
              /\ inputs[k].scope = requirements[k].scope
              /\ inputs[k].requirement.scope = requirements[k].scope
              /\ inputs[k].selection.package = requirements[k].package
              /\ inputs[k].requirement.required = inputs[k].selection.identity
              /\ inputs[k].requirement \in Range(resolution.edges)
              /\ inputs[k].selection \in Range(resolution.selections)
        /\ \A j, k \in DOMAIN inputs : j # k =>
              inputs[j].requirement.identity # inputs[k].requirement.identity
        /\ consumed = {inputs[k].requirement.identity : k \in DOMAIN inputs}

\* An input retains the authority for requirement r of the subject's source.
Retains(input, s, r) ==
    /\ input.scope = r.scope
    /\ input.requirement \in Range(resolution.edges)
    /\ input.requirement.issuer = subject_identity
    /\ input.requirement.environment = "build"
    /\ input.requirement.scope = r.scope
    /\ input.requirement.required = input.selection.identity
    /\ input.requirement.witness.catalog_source = s.source_snapshot
    /\ input.requirement.witness.catalog_origins = r.origins
    /\ input.selection \in Range(resolution.selections)
    /\ input.selection.environment = "build"
    /\ input.selection.package = r.package

\* The set lists every active requirement of its subject once, with the edge
\* and the selection that are its authority, and every direct edge by identity.
OneToOne(set) ==
    \E f \in Bijection(DOMAIN set.inputs, Contract!Slots(set.subject)) :
        /\ \A k \in DOMAIN set.inputs :
              Retains(set.inputs[k], set.subject, Contract!Required(set.subject, f[k]))
        /\ \A j, k \in DOMAIN set.inputs : j # k =>
              set.inputs[j].requirement.identity # set.inputs[k].requirement.identity
        /\ \A i \in Contract!DirectEdges : \E k \in DOMAIN set.inputs :
              set.inputs[k].requirement.identity = resolution.edges[i].identity

\* What is admitted is one to one, even if identities of edges collide; checks
\* are in it if and only if the subject is a member of a check goal.
AdmittedIsOneToOne == outcome.verdict = "admitted" => OneToOne(outcome)

\* man/pkgbuild_request.3.scdoc says that extra edges are rejected: with an
\* admitted set, every build or check edge of the subject is one of its inputs.
ExtraEdgesRejected ==
    outcome.verdict = "admitted" =>
        \A i \in DOMAIN resolution.edges :
            /\ resolution.edges[i].issuer = subject_identity
            /\ resolution.edges[i].scope \in {"build", "check"}
            => \E k \in DOMAIN outcome.inputs :
                  outcome.inputs[k].requirement = resolution.edges[i]

=============================================================================
