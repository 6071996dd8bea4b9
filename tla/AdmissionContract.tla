-------------------------- MODULE AdmissionContract --------------------------
(***************************************************************************)
(* What build_input_set::admit promises, without its loops: one decision   *)
(* about a resolution and a subject.  The active direct requirements of    *)
(* the subject are slots; the decision is positive exactly when the slots  *)
(* and the direct edges of the subject correspond one to one, and then the *)
(* sealed set lists the correspondence in the order of its identities.     *)
(*                                                                         *)
(* This is the wording of DESIGN.md ("Build subject", "Direct build        *)
(* inputs") and of man/pkgbuild_request.3.scdoc as a formula.  Nothing     *)
(* here is shared with the detailed module, so that a change of an         *)
(* operator there does not change the promise.                             *)
(***************************************************************************)
EXTENDS ResolverAuthority, Functions

CONSTANT IdentityLess(_, _)     \* operator< of build_input_identity

VARIABLES resolution, subject_identity, outcome

vars == <<resolution, subject_identity, outcome>>

Selected == {resolution.selections[i] : i \in DOMAIN resolution.selections}
EdgeAt(i) == resolution.edges[i]

\* id is listed exactly once.
Unique(id) ==
    \E i \in DOMAIN resolution.selections :
        \A j \in DOMAIN resolution.selections :
            resolution.selections[j].identity = id <=> j = i

\* The selection of the subject; used where it is unique.
Subjects == {s \in Selected : s.identity = subject_identity}

FromCatalog(s) == s.candidate # NoCandidate

Contradicted(s) ==
    \/ s.candidate.source.identity # s.source_snapshot
    \/ s.candidate.release # s.release
    \/ s.candidate.package # s.package

Misplaced(s) ==
    \/ s.architectures.build # resolution.request.build
    \/ s.architectures.target # resolution.request.target[s.environment]

Buildable(s) == FromCatalog(s) /\ ~Contradicted(s) /\ ~Misplaced(s)

\* Checks are active only for a member of a check goal.
ChecksActive ==
    {goal \in resolution.goals :
        goal.scope = "check" /\ subject_identity \in goal.members} # {}

\* The active requirements of s, by list and position.
Slots(s) ==
    {<<"build", i>> : i \in DOMAIN s.candidate.source.build_requirements}
        \cup {<<"check", i>> : i \in
                {j \in DOMAIN s.candidate.source.check_requirements : ChecksActive}}

Required(s, slot) ==
    IF slot[1] = "build" THEN s.candidate.source.build_requirements[slot[2]]
                         ELSE s.candidate.source.check_requirements[slot[2]]

\* The positions of the edges of the subject in the build environment, and
\* of the direct build and check edges among them.
OwnEdges ==
    {i \in DOMAIN resolution.edges :
        EdgeAt(i).issuer = subject_identity /\ EdgeAt(i).environment = "build"}

DirectEdges == {i \in OwnEdges : EdgeAt(i).scope \in {"build", "check"}}

\* Edge i is drawn for the scope and to the package of requirement r.
Serves(i, r) ==
    /\ EdgeAt(i).scope = r.scope
    /\ \E s \in Selected : s.identity = EdgeAt(i).required /\ s.package = r.package

\* The edge repeats the authority of requirement r of the subject's source.
Witnesses(s, i, r) ==
    EdgeAt(i).witness = [kind |-> "catalog_source",
                         catalog_source |-> s.candidate.source.identity,
                         catalog_origins |-> r.origins]

\* Edge i serves r, and everything it refers to is what it should be.
Answers(s, i, r) ==
    /\ Serves(i, r)
    /\ Unique(EdgeAt(i).required)
    /\ \A t \in Selected :
            t.identity = EdgeAt(i).required => t.environment = "build"
    /\ Witnesses(s, i, r)

\* Two active requirements that no edge can tell apart.
Twins(s) ==
    \E a, b \in Slots(s) :
        /\ a # b
        /\ Required(s, a).scope = Required(s, b).scope
        /\ Required(s, a).package = Required(s, b).package

\* The one-to-one relations between requirements and direct edges.
Correspondences(s) ==
    {f \in Bijection(Slots(s), DirectEdges) :
        \A slot \in Slots(s) : Answers(s, f[slot], Required(s, slot))}

Exact(s) ==
    /\ Unique(subject_identity)
    /\ Buildable(s)
    /\ ~Twins(s)
    /\ Correspondences(s) # {}

-----------------------------------------------------------------------------
(* What is sealed, and what may be said of a refusal *)

Input(s, slot, i) ==
    CHOOSE input \in
        {[scope |-> Required(s, slot).scope,
          requirement |-> EdgeAt(i),
          selection |-> t,
          identity |-> [scope |-> Required(s, slot).scope,
                        edge |-> EdgeAt(i).identity,
                        selection |-> t.identity]] :
            t \in {u \in Selected : u.identity = EdgeAt(i).required}} : TRUE

\* The set for correspondence f, the slots taken in the order "listing".
Seal(s, f, listing) ==
    LET inputs == [k \in DOMAIN listing |-> Input(s, listing[k], f[listing[k]])]
        identities == [k \in DOMAIN listing |-> inputs[k].identity]
    IN  [verdict |-> "admitted", subject |-> s, resolution |-> resolution.identity,
         inputs |-> inputs,
         identity |-> [resolution |-> resolution.identity,
                       subject |-> subject_identity,
                       inputs |-> identities]]

Ascending(inputs) ==
    \A i, j \in DOMAIN inputs :
        i < j => IdentityLess(inputs[i].identity, inputs[j].identity)

\* The only defects a refusal with this reason may be about.
Fault(reason) ==
    \/ /\ reason = "absent selection"
       /\ \E id \in {subject_identity} \cup {EdgeAt(i).required : i \in OwnEdges} :
            \A s \in Selected : s.identity # id
    \/ /\ reason = "duplicate selection"
       /\ \E i, j \in DOMAIN resolution.selections :
            /\ i # j
            /\ resolution.selections[i].identity = resolution.selections[j].identity
    \/ \E s \in Subjects :
       \/ reason = "no catalog authority" /\ ~FromCatalog(s)
       \/ reason = "catalog contradiction" /\ FromCatalog(s) /\ Contradicted(s)
       \/ reason = "architecture contradiction" /\ FromCatalog(s) /\ Misplaced(s)
       \/ /\ FromCatalog(s)
          /\ \E slot \in Slots(s) : LET r == Required(s, slot) IN
             \/ /\ reason = "ambiguous"
                /\ \E i, j \in OwnEdges : i # j /\ Serves(i, r) /\ Serves(j, r)
             \/ /\ reason = "lacks authority"
                /\ \A i \in OwnEdges : ~Serves(i, r)
             \/ /\ reason = "not a build package"
                /\ \E i \in OwnEdges, t \in Selected :
                     /\ Serves(i, r)
                     /\ t.identity = EdgeAt(i).required
                     /\ t.environment # "build"
             \/ /\ reason = "witness differs"
                /\ \E i \in OwnEdges : Serves(i, r) /\ ~Witnesses(s, i, r)
             \/ reason = "not a build scope" /\ r.scope \notin {"build", "check"}
       \/ reason = "edge consumed twice" /\ FromCatalog(s) /\ Twins(s)
       \/ /\ reason = "undeclared input" /\ FromCatalog(s)
          /\ \E i \in DirectEdges : \A slot \in Slots(s) : ~Serves(i, Required(s, slot))

-----------------------------------------------------------------------------
(* The decision *)

\* Any resolution and any subject may be asked about.
Init == outcome = [verdict |-> "pending"]

Accept ==
    \E s \in Subjects :
        /\ Exact(s)
        /\ \E f \in Correspondences(s),
              listing \in Bijection(1..Cardinality(Slots(s)), Slots(s)) :
                /\ Ascending(Seal(s, f, listing).inputs)
                /\ outcome' = Seal(s, f, listing)

\* A refusal is invalid_request with a true reason, and then the call was not
\* exact, or identity_failed for a subject that got past the first checks.
Reject ==
    /\ outcome'.verdict = "refused"
    /\ \/ Fault(outcome'.reason) /\ ~\E s \in Subjects : Exact(s)
       \/ outcome'.reason = "digest failure" /\ \E s \in Subjects : Buildable(s)

Decide ==
    /\ outcome = [verdict |-> "pending"]
    /\ Accept \/ Reject
    /\ UNCHANGED <<resolution, subject_identity>>

Spec == Init /\ [][Decide]_vars

=============================================================================
