---------------------------- MODULE BuildRequest ----------------------------
(***************************************************************************)
(* build_request::seal of src/request.cpp: the call of admit (module       *)
(* InputAdmission, step by step), the check of the selected architectures  *)
(* against the source, the identity of the request and the construction of *)
(* its immutable representation.                                           *)
(*                                                                         *)
(* The last expression of seal passes a reference to the subject, which    *)
(* lives inside the representation of the input set, and moves the input   *)
(* set, in one argument list: C++ leaves the order open, so the two are    *)
(* steps in any order.  A moved-from handle is Null.                       *)
(*                                                                         *)
(* ThroughHandle, NeedsDeclaration and BuildTwice are not used here: each  *)
(* is the definition after it with one mistake, which the properties are   *)
(* known to notice (PROJECT.json, "mutants").                              *)
(***************************************************************************)
EXTENDS AdmissionRefinement

CONSTANTS
    Policy,     \* build_policy values, told apart by their identities
    Null        \* no object: not yet constructed, or moved from

RequestIdentity ==
    [source : SourceId, inputs : InputSetIdentity,
     build : Architecture, target : Architecture, policy : Policy]

RequestReason ==
    Reason \cup {"build architecture not declared", "target architecture not declared"}

RefusedRequest == [verdict : {"refused"}, reason : RequestReason]
Request ==
    [verdict : {"sealed"}, subject : Selection, source : Snapshot,
     inputs : InputSet, architectures : ArchitectureContext, policy : Policy,
     identity : RequestIdentity]

ASSUME NullAssumption ==
    Null \notin Selection \cup Snapshot \cup InputSet \cup ArchitectureContext
                \cup RequestIdentity

VARIABLES
    policy,         \* argument of the call
    stage,          \* "admit", "select", "name", "construct", "done"
    handle,         \* the local input set, Null before and after
    source,         \* the local copy of the subject's source
    architectures,  \* the local architecture binding
    parameters,     \* the constructor's subject, inputs and identity
    unset,          \* which of subject and inputs are not initialized yet
    request         \* Pending, a refusal (exception) or the sealed request

locals_of_seal == <<handle, source, architectures>>
constructing == <<parameters, unset>>
sealing == <<policy, stage, locals_of_seal, constructing, request>>
sealVars == <<vars, sealing>>

SealInit ==
    /\ Init
    /\ policy \in Policy
    /\ stage = "admit"
    /\ handle = Null
    /\ source = Null
    /\ architectures = Null
    /\ parameters = [subject |-> Null, inputs |-> Null, identity |-> Null]
    /\ unset = {"subject", "inputs"}
    /\ request = Pending

RefuseRequest(reason) ==
    /\ request' = [verdict |-> "refused", reason |-> reason]
    /\ stage' = "done"
    /\ UNCHANGED <<vars, policy, locals_of_seal, constructing>>

-----------------------------------------------------------------------------
(* The call of admit *)

Admitting == stage = "admit" /\ pc # "done" /\ Next /\ UNCHANGED sealing

AdmissionThrows ==
    /\ stage = "admit"
    /\ outcome.verdict = "refused"
    /\ RefuseRequest(outcome.reason)

\* An admitted subject has a candidate: the throw "lost catalog source
\* authority" cannot happen.
TakeInputs ==
    /\ stage = "admit"
    /\ outcome.verdict = "admitted"
    /\ handle' = outcome
    /\ source' = outcome.subject.candidate.source
    /\ stage' = "select"
    /\ UNCHANGED <<vars, policy, architectures, constructing, request>>

-----------------------------------------------------------------------------
(* architecture_binding::select *)

NeedsDeclaration(declared, selected) == selected \in declared
allows_architecture(declared, selected) == declared = {} \/ selected \in declared

RefuseArchitectures ==
    /\ stage = "select"
    /\ \/ /\ ~allows_architecture(source.architectures.build,
                                  handle.subject.architectures.build)
          /\ RefuseRequest("build architecture not declared")
       \/ /\ allows_architecture(source.architectures.build,
                                 handle.subject.architectures.build)
          /\ ~allows_architecture(source.architectures.target,
                                  handle.subject.architectures.target)
          /\ RefuseRequest("target architecture not declared")

\* The binding retains the pair, which is that of the subject.
SelectArchitectures ==
    /\ stage = "select"
    /\ allows_architecture(source.architectures.build,
                           handle.subject.architectures.build)
    /\ allows_architecture(source.architectures.target,
                           handle.subject.architectures.target)
    /\ architectures' = handle.subject.architectures
    /\ stage' = "name"
    /\ UNCHANGED <<vars, policy, handle, source, constructing, request>>

-----------------------------------------------------------------------------
(* request_id, and the representation *)

BuildTwice(s, set, a, p) ==
    [source |-> s.identity, inputs |-> set.identity,
     build |-> a.build, target |-> a.build, policy |-> p]
request_id(s, set, a, p) ==
    [source |-> s.identity, inputs |-> set.identity,
     build |-> a.build, target |-> a.target, policy |-> p]

DigestFails == stage = "name" /\ RefuseRequest("digest failure")

NameRequest ==
    /\ stage = "name"
    /\ parameters' = [parameters EXCEPT !.identity =
                        request_id(source, handle, architectures, policy)]
    /\ stage' = "construct"
    /\ UNCHANGED <<vars, policy, locals_of_seal, unset, request>>

ThroughHandle == IF handle = Null THEN Null ELSE handle.subject
\* What the reference "subject" refers to: the representation that admit built,
\* which lives on in whatever handle it was moved to.
Referent == outcome.subject

ConstructSubject ==
    /\ stage = "construct"
    /\ "subject" \in unset
    /\ unset' = unset \ {"subject"}
    /\ parameters' = [parameters EXCEPT !.subject = Referent]
    /\ UNCHANGED <<vars, policy, stage, locals_of_seal, request>>

ConstructInputs ==
    /\ stage = "construct"
    /\ "inputs" \in unset
    /\ unset' = unset \ {"inputs"}
    /\ parameters' = [parameters EXCEPT !.inputs = handle]
    /\ handle' = Null
    /\ UNCHANGED <<vars, policy, stage, source, architectures, request>>

SealRequest ==
    /\ stage = "construct"
    /\ unset = {}
    /\ request' = [verdict |-> "sealed", subject |-> parameters.subject,
                   source |-> source, inputs |-> parameters.inputs,
                   architectures |-> architectures,
                   policy |-> policy, identity |-> parameters.identity]
    /\ stage' = "done"
    /\ UNCHANGED <<vars, policy, locals_of_seal, constructing>>

\* The call has returned or thrown.
Returned == stage = "done" /\ UNCHANGED sealVars

SealNext ==
    \/ Admitting
    \/ AdmissionThrows
    \/ TakeInputs
    \/ RefuseArchitectures
    \/ SelectArchitectures
    \/ DigestFails
    \/ NameRequest
    \/ ConstructSubject
    \/ ConstructInputs
    \/ SealRequest
    \/ Returned

SealSpec == SealInit /\ [][SealNext]_sealVars

-----------------------------------------------------------------------------
(* Properties *)

\* The variables of seal hold the values their C++ types allow.
RequestTypeOK ==
    /\ policy \in Policy
    /\ stage \in {"admit", "select", "name", "construct", "done"}
    /\ handle \in InputSet \cup {Null}
    /\ source \in Snapshot \cup {Null}
    /\ architectures \in ArchitectureContext \cup {Null}
    /\ parameters \in [subject : Selection \cup {Null}, inputs : InputSet \cup {Null},
                       identity : RequestIdentity \cup {Null}]
    /\ unset \subseteq {"subject", "inputs"}
    /\ request \in {Pending} \cup RefusedRequest \cup Request

\* What is retained of the pair of architectures was asked for by the resolution
\* and allowed by the source.
SelectedBy(binding, subject_of_request, s) ==
    /\ binding.build = resolution.request.build
    /\ binding.target = resolution.request.target[subject_of_request.environment]
    /\ s.architectures.build # {} => binding.build \in s.architectures.build
    /\ s.architectures.target # {} => binding.target \in s.architectures.target

\* A sealed request is what the call asked for, in whatever order its parts were
\* copied and moved: the one selection named, its source, its inputs one to one,
\* the architectures the resolution selected and the source allows, and an
\* identity over exactly these.
RequestIsExact ==
    request.verdict = "sealed" =>
        /\ request.subject \in Range(resolution.selections)
        /\ request.subject.identity = subject_identity
        /\ request.source = request.subject.candidate.source
        /\ request.source.identity = request.subject.source_snapshot
        /\ request.inputs.subject = request.subject
        /\ OneToOne(request.inputs)
        /\ SelectedBy(request.architectures, request.subject, request.source)
        /\ request.policy = policy
        /\ request.identity =
                [source |-> request.subject.source_snapshot,
                 inputs |-> request.inputs.identity,
                 build |-> resolution.request.build,
                 target |-> resolution.request.target[request.subject.environment],
                 policy |-> policy]

\* A refusal comes from admission, or the source of an admitted subject declares
\* architectures without the selected one; an empty declaration refuses nothing.
RefusalIsJust ==
    request.verdict = "refused" /\ request.reason # "digest failure" =>
        \/ outcome = request
        \/ /\ outcome.verdict = "admitted"
           /\ LET declared == outcome.subject.candidate.source.architectures
                  context == outcome.subject.architectures
              IN \/ /\ request.reason = "build architecture not declared"
                    /\ declared.build # {} /\ context.build \notin declared.build
                 \/ /\ request.reason = "target architecture not declared"
                    /\ declared.target # {} /\ context.target \notin declared.target

=============================================================================
