--------------------------- MODULE InputAdmission ---------------------------
(***************************************************************************)
(* build_input_set::admit of src/request.cpp: the check that the direct    *)
(* build and check requirements of one selected package and the direct     *)
(* edges the resolver drew for it correspond one to one, and the derivation*)
(* of the canonical input set.                                             *)
(*                                                                         *)
(* One behaviour is one call.  The steps are the three stages of the       *)
(* function: the subject is checked, every requirement is bound to an edge *)
(* (one step per iteration of the loop), the edges are swept for leftovers *)
(* and the set is sealed.  Every throw is a disjunct of its stage, in the  *)
(* order of the code: a disjunct repeats that the earlier checks passed.   *)
(*                                                                         *)
(* Identities are symbolic: the digest of a record of fields is the record *)
(* itself, which is injective as SHA-256 is taken to be.  The order of two *)
(* digests has nothing to do with their contents, so it is a constant.     *)
(*                                                                         *)
(* MemberOfAnyGoal, FreshIgnored, AnyScope and UndeclaredBuild are not used*)
(* here: each is the definition after it with one mistake, which the       *)
(* properties are known to notice (PROJECT.json, "mutants").               *)
(***************************************************************************)
EXTENDS ResolverAuthority, Functions

CONSTANTS
    Calls,                  \* pairs of a resolution_result and a subject identity
    IdentityLess(_, _)      \* operator< of build_input_identity

InputScope == {"build", "check"}

\* input_id: the digest of the scope, the edge and the required selection.
InputIdentity == [scope : InputScope, edge : EdgeId, selection : SelectionId]

BuildInput ==
    [scope : InputScope, requirement : Edge, selection : Selection,
     identity : InputIdentity]

\* The messages of the throws, shortened.
Reason ==
    {"absent selection", "duplicate selection", "no catalog authority",
     "catalog contradiction", "architecture contradiction", "ambiguous",
     "lacks authority", "not a build package", "witness differs",
     "edge consumed twice", "not a build scope", "undeclared input",
     "digest failure"}

\* input_set_id: the digest of the resolution, the subject and the inputs.
InputSetIdentity ==
    [resolution : ResolutionId, subject : SelectionId,
     inputs : Seq(InputIdentity)]

Pending == [verdict |-> "pending"]
Refusal == [verdict : {"refused"}, reason : Reason]
InputSet ==
    [verdict : {"admitted"}, subject : Selection, resolution : ResolutionId,
     inputs : Seq(BuildInput), identity : InputSetIdentity]

ASSUME CallsAssumption == Calls \subseteq Resolution \X SelectionId

\* std::sort needs a strict weak order; digests compare by their hex text,
\* so equal means identical.
ASSUME IdentityLessAssumption ==
    /\ \A a \in InputIdentity : ~IdentityLess(a, a)
    /\ \A a, b \in InputIdentity :
            a # b => IdentityLess(a, b) \/ IdentityLess(b, a)
    /\ \A a, b, c \in InputIdentity :
            IdentityLess(a, b) /\ IdentityLess(b, c) => IdentityLess(a, c)

VARIABLES
    resolution,         \* argument of the call
    subject_identity,   \* argument of the call
    pc,                 \* stage: "subject", "match", "done"
    subject,            \* position of the subject in selections, 0 before
    requirements,       \* the active direct requirements, sorted
    inputs,             \* the inputs bound so far, one per requirement done
    consumed,           \* identities of the edges bound so far
    outcome             \* Pending, a refusal (exception) or the sealed set

arguments == <<resolution, subject_identity>>
locals == <<subject, requirements, inputs, consumed>>
vars == <<arguments, pc, locals, outcome>>

-----------------------------------------------------------------------------
(* Reading the resolution *)

\* The positions at which a selection identity is listed; require_selection
\* throws unless there is exactly one.
Named(id) ==
    {i \in DOMAIN resolution.selections :
        resolution.selections[i].identity = id}

MemberOfAnyGoal(id) == \E goal \in resolution.goals : id \in goal.members

is_check_goal_member(id) ==
    \E goal \in resolution.goals : goal.scope = "check" /\ id \in goal.members

\* Every order in which the elements of a sequence can be listed.
Arrangements(s) ==
    {[i \in DOMAIN s |-> s[p[i]]] : p \in Bijection(DOMAIN s, DOMAIN s)}

\* direct_requirements before the sort.
Declared(source, include_check) ==
    source.build_requirements \o
        (IF include_check THEN source.check_requirements ELSE <<>>)

CatalogAgrees(s) ==
    /\ s.candidate.source.identity = s.source_snapshot
    /\ s.candidate.release = s.release
    /\ s.candidate.package = s.package

ArchitecturesAgree(s) ==
    s.architectures = [build |-> resolution.request.build,
                       target |-> resolution.request.target[s.environment]]

Source == resolution.selections[subject].candidate.source

-----------------------------------------------------------------------------
(* Leaving the function *)

Refuse(reason) ==
    /\ outcome' = [verdict |-> "refused", reason |-> reason]
    /\ pc' = "done"
    /\ UNCHANGED locals

\* require_selection(id) throws.
RefuseName(id) ==
    \/ Named(id) = {} /\ Refuse("absent selection")
    \/ Cardinality(Named(id)) > 1 /\ Refuse("duplicate selection")

Init ==
    /\ \E call \in Calls : resolution = call[1] /\ subject_identity = call[2]
    /\ pc = "subject"
    /\ subject = 0
    /\ requirements = <<>>
    /\ inputs = <<>>
    /\ consumed = {}
    /\ outcome = Pending

-----------------------------------------------------------------------------
(* Stage 1: the subject *)

RefuseSubject ==
    /\ pc = "subject"
    /\ \/ RefuseName(subject_identity)
       \/ \E i \in Named(subject_identity) :
            LET s == resolution.selections[i] IN
            /\ Named(subject_identity) = {i}
            /\ \/ /\ s.candidate = NoCandidate
                  /\ Refuse("no catalog authority")
               \/ /\ s.candidate # NoCandidate
                  /\ ~CatalogAgrees(s)
                  /\ Refuse("catalog contradiction")
               \/ /\ s.candidate # NoCandidate
                  /\ CatalogAgrees(s)
                  /\ ~ArchitecturesAgree(s)
                  /\ Refuse("architecture contradiction")
    /\ UNCHANGED arguments

\* The order of the sorted requirements is that of libpkgsource: any order.
AcceptSubject ==
    /\ pc = "subject"
    /\ \E i \in Named(subject_identity) :
            LET s == resolution.selections[i] IN
            /\ Named(subject_identity) = {i}
            /\ s.candidate # NoCandidate
            /\ CatalogAgrees(s)
            /\ ArchitecturesAgree(s)
            /\ subject' = i
            /\ requirements' \in Arrangements(
                    Declared(s.candidate.source,
                             is_check_goal_member(subject_identity)))
    /\ pc' = "match"
    /\ UNCHANGED <<arguments, inputs, consumed, outcome>>

-----------------------------------------------------------------------------
(* Stage 2: one requirement, one edge *)

Unbound == Len(inputs) < Len(requirements)
current == requirements[Len(inputs) + 1]

\* The positions of the edges whose required selection the loop looks up.
Scanned(r) ==
    {i \in DOMAIN resolution.edges :
        /\ resolution.edges[i].issuer = subject_identity
        /\ resolution.edges[i].environment = "build"
        /\ resolution.edges[i].scope = r.scope}

\* The scanned edges whose required selection has the package of r.
Matching(r) ==
    {i \in Scanned(r) :
        \E k \in Named(resolution.edges[i].required) :
            resolution.selections[k].package = r.package}

Dangling(i) == Cardinality(Named(resolution.edges[i].required)) # 1

\* The scan of the edges throws at the first position of this set.
Stops(r) ==
    {i \in Scanned(r) :
        Dangling(i) \/ (i \in Matching(r) /\ \E j \in Matching(r) : j < i)}

RefuseScan ==
    /\ pc = "match" /\ Unbound
    /\ \E i \in Stops(current) :
            /\ \A j \in Stops(current) : i <= j
            /\ \/ RefuseName(resolution.edges[i].required)
               \/ ~Dangling(i) /\ Refuse("ambiguous")
    /\ UNCHANGED arguments

RefuseUnmatched ==
    /\ pc = "match" /\ Unbound
    /\ Stops(current) = {}
    /\ Matching(current) = {}
    /\ Refuse("lacks authority")
    /\ UNCHANGED arguments

WitnessAgrees(edge, r) ==
    /\ edge.witness.kind = "catalog_source"
    /\ edge.witness.catalog_source # NoSource
    /\ edge.witness.catalog_source = Source.identity
    /\ edge.witness.catalog_origins = r.origins

\* consumed.insert succeeds.
FreshIgnored(edge) == TRUE
Fresh(edge) == edge.identity \notin consumed

\* input_scope_from does not throw.
AnyScope(r) == TRUE
HasInputScope(r) == r.scope \in InputScope

\* The one edge and the one selection the scan found for the requirement.
Found(i, k) ==
    /\ Stops(current) = {}
    /\ Matching(current) = {i}
    /\ Named(resolution.edges[i].required) = {k}

RefuseMatch ==
    /\ pc = "match" /\ Unbound
    /\ \E i \in DOMAIN resolution.edges, k \in DOMAIN resolution.selections :
            LET edge == resolution.edges[i]
                required == resolution.selections[k]
            IN
            /\ Found(i, k)
            /\ \/ /\ required.environment # "build"
                  /\ Refuse("not a build package")
               \/ /\ required.environment = "build"
                  /\ ~WitnessAgrees(edge, current)
                  /\ Refuse("witness differs")
               \/ /\ required.environment = "build"
                  /\ WitnessAgrees(edge, current)
                  /\ ~Fresh(edge)
                  /\ Refuse("edge consumed twice")
               \/ /\ required.environment = "build"
                  /\ WitnessAgrees(edge, current)
                  /\ Fresh(edge)
                  /\ ~HasInputScope(current)
                  /\ Refuse("not a build scope")
               \/ /\ required.environment = "build"
                  /\ WitnessAgrees(edge, current)
                  /\ Fresh(edge)
                  /\ HasInputScope(current)
                  /\ Refuse("digest failure")
    /\ UNCHANGED arguments

input_id(scope, edge, selection) ==
    [scope |-> scope, edge |-> edge.identity, selection |-> selection.identity]

Bind ==
    /\ pc = "match" /\ Unbound
    /\ \E i \in DOMAIN resolution.edges, k \in DOMAIN resolution.selections :
            LET edge == resolution.edges[i]
                required == resolution.selections[k]
            IN
            /\ Found(i, k)
            /\ required.environment = "build"
            /\ WitnessAgrees(edge, current)
            /\ Fresh(edge)
            /\ HasInputScope(current)
            /\ consumed' = consumed \cup {edge.identity}
            /\ inputs' = Append(inputs,
                    [scope |-> current.scope, requirement |-> edge,
                     selection |-> required,
                     identity |-> input_id(current.scope, edge, required)])
    /\ UNCHANGED <<arguments, pc, subject, requirements, outcome>>

-----------------------------------------------------------------------------
(* Stage 3: the sweep and the seal *)

UndeclaredBuild ==
    {i \in DOMAIN resolution.edges :
        /\ resolution.edges[i].issuer = subject_identity
        /\ resolution.edges[i].environment = "build"
        /\ resolution.edges[i].scope = "build"
        /\ resolution.edges[i].identity \notin consumed}

\* The direct build and check edges that no input holds.
Undeclared ==
    {i \in DOMAIN resolution.edges :
        /\ resolution.edges[i].issuer = subject_identity
        /\ resolution.edges[i].environment = "build"
        /\ resolution.edges[i].scope \in {"build", "check"}
        /\ resolution.edges[i].identity \notin consumed}

RefuseLeftover ==
    /\ pc = "match" /\ ~Unbound
    /\ \/ Undeclared # {} /\ Refuse("undeclared input")
       \/ Undeclared = {} /\ Refuse("digest failure")
    /\ UNCHANGED arguments

\* std::sort by identity.
Sorted(s) ==
    {t \in Arrangements(s) : \A i, j \in DOMAIN t :
        i < j => ~IdentityLess(t[j].identity, t[i].identity)}

input_set_id(s) ==
    [resolution |-> resolution.identity, subject |-> subject_identity,
     inputs |-> [i \in DOMAIN s |-> s[i].identity]]

Admit ==
    /\ pc = "match" /\ ~Unbound
    /\ Undeclared = {}
    /\ \E sorted \in Sorted(inputs) :
            outcome' = [verdict |-> "admitted",
                        subject |-> resolution.selections[subject],
                        resolution |-> resolution.identity,
                        inputs |-> sorted,
                        identity |-> input_set_id(sorted)]
    /\ pc' = "done"
    /\ UNCHANGED <<arguments, locals>>

\* The call has returned or thrown.
Done == pc = "done" /\ UNCHANGED vars

Next ==
    \/ RefuseSubject
    \/ AcceptSubject
    \/ RefuseScan
    \/ RefuseUnmatched
    \/ RefuseMatch
    \/ Bind
    \/ RefuseLeftover
    \/ Admit
    \/ Done

Spec == Init /\ [][Next]_vars

-----------------------------------------------------------------------------
(* Properties *)

\* The variables hold the values their C++ types allow.
TypeOK ==
    /\ resolution \in Resolution
    /\ subject_identity \in SelectionId
    /\ pc \in {"subject", "match", "done"}
    /\ subject \in {0} \cup DOMAIN resolution.selections
    /\ requirements \in Seq(Requirement)
    /\ inputs \in Seq(BuildInput)
    /\ consumed \subseteq EdgeId
    /\ outcome \in {Pending} \cup Refusal \cup InputSet

=============================================================================
