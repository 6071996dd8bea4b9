------------------------- MODULE BuildRequest_proofs -------------------------
(***************************************************************************)
(* Proofs about build_input_set::admit, for every resolution, every vector *)
(* of edges and every answer of the resolver, and about build_request::seal*)
(* that calls it, for every set of calls and policies.  What admission     *)
(* keeps and ends with, by itself, is carried to the sealed request.       *)
(***************************************************************************)
EXTENDS BuildRequest, SequenceTheorems, FunctionTheorems, FiniteSetTheorems, TLAPS

-----------------------------------------------------------------------------
(* Sequences *)

\* An arrangement of a sequence is a sequence of the same elements.
LEMMA ArrangementType ==
    ASSUME NEW S, NEW s \in Seq(S), NEW t \in Arrangements(s)
    PROVE  /\ t \in Seq(S)
           /\ Len(t) = Len(s)
           /\ \E p \in Bijection(1..Len(s), 1..Len(s)) :
                \A i \in 1..Len(s) : t[i] = s[p[i]]
<1>1. PICK p \in Bijection(DOMAIN s, DOMAIN s) : t = [i \in DOMAIN s |-> s[p[i]]]
    BY DEF Arrangements
<1>2. DOMAIN s = 1..Len(s) /\ Len(s) \in Nat
    OBVIOUS
<1>3. p \in [1..Len(s) -> 1..Len(s)]
    BY <1>2 DEF Bijection, Injection
<1>4. \A i \in 1..Len(s) : s[p[i]] \in S
    BY <1>3
<1>5. t \in [1..Len(s) -> S]
    BY <1>1, <1>2, <1>4
<1>6. t \in Seq(S) /\ Len(t) = Len(s)
    BY <1>2, <1>5
<1> QED
    BY <1>1, <1>2, <1>6

\* The requirements that direct_requirements collects are requirements.
LEMMA DeclaredType ==
    ASSUME NEW snapshot \in Snapshot, NEW include_check \in BOOLEAN
    PROVE  Declared(snapshot, include_check) \in Seq(Requirement)
<1>1. /\ snapshot.build_requirements \in Seq(Requirement)
      /\ snapshot.check_requirements \in Seq(Requirement)
    BY DEF Snapshot
<1>2. <<>> \in Seq(Requirement)
    OBVIOUS
<1> QED
    BY <1>1, <1>2 DEF Declared

-----------------------------------------------------------------------------
(* Type correctness *)

\* The subject pointer is set before the loop starts.
TypeInv == TypeOK /\ (pc = "match" => subject # 0)

\* A call starts typed.
LEMMA InitType == Init => TypeInv
<1> SUFFICES ASSUME Init PROVE TypeInv
    OBVIOUS
<1>1. resolution \in Resolution /\ subject_identity \in SelectionId
    BY CallsAssumption DEF Init
<1>2. requirements \in Seq(Requirement) /\ inputs \in Seq(BuildInput)
    BY DEF Init
<1> QED
    BY <1>1, <1>2 DEF Init, TypeInv, TypeOK

\* A throw leaves a typed state behind.
LEMMA RefuseType ==
    ASSUME TypeInv, NEW reason \in Reason, Refuse(reason), UNCHANGED arguments
    PROVE  TypeInv'
<1>1. outcome' \in Refusal
    BY DEF Refuse, Refusal
<1> QED
    BY <1>1 DEF TypeInv, TypeOK, Refuse, locals, arguments

\* Every refusing action throws with one of the reasons.
LEMMA RefusalsRefuse ==
    ASSUME RefuseSubject \/ RefuseScan \/ RefuseUnmatched \/ RefuseMatch \/ RefuseLeftover
    PROVE  (\E reason \in Reason : Refuse(reason)) /\ UNCHANGED arguments
BY DEF RefuseSubject, RefuseName, RefuseScan, RefuseUnmatched, RefuseMatch,
       RefuseLeftover, Reason

\* Accepting the subject sets its position and lists requirements.
LEMMA AcceptSubjectType ==
    ASSUME TypeInv, AcceptSubject PROVE TypeInv'
<1>1. PICK i \in Named(subject_identity) :
        /\ resolution.selections[i].candidate # NoCandidate
        /\ subject' = i
        /\ requirements' \in Arrangements(
                Declared(resolution.selections[i].candidate.source,
                         is_check_goal_member(subject_identity)))
    BY DEF AcceptSubject
<1>2. i \in DOMAIN resolution.selections /\ resolution.selections \in Seq(Selection)
    BY DEF TypeInv, TypeOK, Named, Resolution
<1>3. i \in 1..Len(resolution.selections)
    BY <1>2
<1>4. resolution.selections[i] \in Selection
    BY <1>2, <1>3
<1>5. resolution.selections[i].candidate.source \in Snapshot
    BY <1>1, <1>4 DEF Selection, Candidate
<1>6. is_check_goal_member(subject_identity) \in BOOLEAN
    BY DEF is_check_goal_member
<1>7. requirements' \in Seq(Requirement)
    BY <1>1, <1>5, <1>6, DeclaredType, ArrangementType
<1> QED
    BY <1>1, <1>2, <1>3, <1>7 DEF AcceptSubject, TypeInv, TypeOK, arguments

\* Binding a requirement appends one typed input.
LEMMA BindType ==
    ASSUME TypeInv, Bind PROVE TypeInv'
<1>1. PICK i \in DOMAIN resolution.edges, k \in DOMAIN resolution.selections :
        LET edge == resolution.edges[i]
            required == resolution.selections[k]
        IN
        /\ current.scope \in InputScope
        /\ consumed' = consumed \cup {edge.identity}
        /\ inputs' = Append(inputs,
                [scope |-> current.scope, requirement |-> edge,
                 selection |-> required,
                 identity |-> input_id(current.scope, edge, required)])
    BY DEF Bind, HasInputScope
<1>2. resolution.edges \in Seq(Edge) /\ resolution.selections \in Seq(Selection)
    BY DEF TypeInv, TypeOK, Resolution
<1>3. resolution.edges[i] \in Edge /\ resolution.selections[k] \in Selection
    BY <1>2
<1>4. input_id(current.scope, resolution.edges[i], resolution.selections[k]) \in InputIdentity
    BY <1>1, <1>3 DEF input_id, InputIdentity, Edge, Selection
<1>5. [scope |-> current.scope, requirement |-> resolution.edges[i],
       selection |-> resolution.selections[k],
       identity |-> input_id(current.scope, resolution.edges[i], resolution.selections[k])]
            \in BuildInput
    BY <1>1, <1>3, <1>4 DEF BuildInput
<1>6. inputs' \in Seq(BuildInput)
    BY <1>1, <1>5, AppendProperties DEF TypeInv, TypeOK
<1>7. consumed' \subseteq EdgeId
    BY <1>1, <1>3 DEF Edge, TypeInv, TypeOK
<1> QED
    BY <1>6, <1>7 DEF Bind, TypeInv, TypeOK, arguments

\* The sealed set is typed: sorting keeps the inputs.
LEMMA AdmitType ==
    ASSUME TypeInv, Admit PROVE TypeInv'
<1>1. PICK sorted \in Sorted(inputs) :
        outcome' = [verdict |-> "admitted",
                    subject |-> resolution.selections[subject],
                    resolution |-> resolution.identity,
                    inputs |-> sorted,
                    identity |-> input_set_id(sorted)]
    BY DEF Admit
<1>2. sorted \in Seq(BuildInput)
    BY ArrangementType DEF Sorted, TypeInv, TypeOK
<1>3. [i \in DOMAIN sorted |-> sorted[i].identity] \in Seq(InputIdentity)
    <2>1. DOMAIN sorted = 1..Len(sorted) /\ Len(sorted) \in Nat
        BY <1>2
    <2>2. \A i \in 1..Len(sorted) : sorted[i].identity \in InputIdentity
        <3>1. \A i \in 1..Len(sorted) : sorted[i] \in BuildInput
            BY <1>2
        <3> QED
            BY <3>1 DEF BuildInput
    <2> QED
        BY <2>1, <2>2
<1>4. resolution.identity \in ResolutionId /\ subject_identity \in SelectionId
    BY DEF TypeInv, TypeOK, Resolution
<1>5. input_set_id(sorted) \in InputSetIdentity
    BY <1>3, <1>4 DEF input_set_id, InputSetIdentity
<1>6. resolution.selections[subject] \in Selection
    <2>1. resolution.selections \in Seq(Selection) /\ subject \in DOMAIN resolution.selections
        BY DEF Admit, TypeInv, TypeOK, Resolution
    <2> QED
        BY <2>1
<1>7. outcome' \in InputSet
    BY <1>1, <1>2, <1>4, <1>5, <1>6 DEF InputSet
<1> QED
    BY <1>7 DEF Admit, TypeInv, TypeOK, arguments, locals

\* Every step keeps the types.
LEMMA NextType == TypeInv /\ [Next]_vars => TypeInv'
<1> SUFFICES ASSUME TypeInv, [Next]_vars PROVE TypeInv'
    OBVIOUS
<1>1. CASE RefuseSubject \/ RefuseScan \/ RefuseUnmatched \/ RefuseMatch \/ RefuseLeftover
    BY <1>1, RefusalsRefuse, RefuseType
<1>2. CASE AcceptSubject
    BY <1>2, AcceptSubjectType
<1>3. CASE Bind
    BY <1>3, BindType
<1>4. CASE Admit
    BY <1>4, AdmitType
<1>5. CASE UNCHANGED vars
    BY <1>5 DEF vars, arguments, locals, TypeInv, TypeOK
<1>6. CASE Done
    BY <1>5, <1>6 DEF Done
<1> QED
    BY <1>1, <1>2, <1>3, <1>4, <1>5, <1>6 DEF Next

\* Every variable of admit keeps its type: the inputs bound are inputs, the
\* sealed set is a set of the resolution and the subject asked for.
THEOREM TypeCorrect == Spec => []TypeOK
<1>1. TypeInv => TypeOK
    BY DEF TypeInv
<1> QED
    BY <1>1, InitType, NextType, PTL DEF Spec

-----------------------------------------------------------------------------
(* The loop binds requirements and edges one to one *)

Subject == resolution.selections[subject]

\* The subject the loop works for, and the requirements it works through.
SubjectInv ==
    /\ subject \in DOMAIN resolution.selections
    /\ Subject.candidate # NoCandidate
    /\ CatalogAgrees(Subject)
    /\ requirements \in Arrangements(
            Declared(Source, is_check_goal_member(subject_identity)))

\* The inputs bound so far.
BoundInv ==
    /\ Len(inputs) <= Len(requirements)
    /\ \A k \in DOMAIN inputs : Retains(inputs[k], Subject, requirements[k])
    /\ \A j, k \in DOMAIN inputs :
            j # k => inputs[j].requirement.identity # inputs[k].requirement.identity
    /\ consumed = {inputs[k].requirement.identity : k \in DOMAIN inputs}

\* The inductive invariant.
Inv ==
    /\ TypeInv
    /\ pc = "subject" => inputs = <<>> /\ consumed = {}
    /\ pc = "match" => SubjectInv /\ BoundInv
    /\ pc # "done" => outcome = Pending
    /\ AdmittedIsOneToOne

\* A call starts with nothing bound and nothing decided.
LEMMA InitInv == Init => Inv
<1> SUFFICES ASSUME Init PROVE Inv
    OBVIOUS
<1>1. AdmittedIsOneToOne
    BY DEF Init, Pending, AdmittedIsOneToOne
<1> QED
    BY <1>1, InitType DEF Init, Inv

\* A throw admits nothing.
LEMMA RefuseInv ==
    ASSUME Inv, NEW reason \in Reason, Refuse(reason), UNCHANGED arguments
    PROVE  Inv'
<1>1. TypeInv'
    BY RefuseType DEF Inv
<1>2. AdmittedIsOneToOne'
    BY DEF Refuse, AdmittedIsOneToOne
<1> QED
    BY <1>1, <1>2 DEF Refuse, Inv

\* Accepting the subject starts the loop with nothing bound.
LEMMA AcceptSubjectInv == ASSUME Inv, AcceptSubject PROVE Inv'
<1>1. TypeInv'
    BY AcceptSubjectType DEF Inv
<1>2. pc = "subject" /\ inputs = <<>> /\ consumed = {} /\ outcome = Pending
    BY DEF Inv, AcceptSubject
<1>3. UNCHANGED <<resolution, subject_identity, inputs, consumed, outcome>> /\ pc' = "match"
    BY DEF AcceptSubject, arguments
<1>4. SubjectInv'
    <2>1. PICK i \in Named(subject_identity) :
            /\ resolution.selections[i].candidate # NoCandidate
            /\ CatalogAgrees(resolution.selections[i])
            /\ subject' = i
            /\ requirements' \in Arrangements(
                    Declared(resolution.selections[i].candidate.source,
                             is_check_goal_member(subject_identity)))
        BY DEF AcceptSubject
    <2>2. i \in DOMAIN resolution.selections
        BY DEF Named
    <2>3. Subject' = resolution.selections[i] /\ Source' = resolution.selections[i].candidate.source
        BY <1>3, <2>1 DEF Subject, Source
    <2>4. is_check_goal_member(subject_identity)' <=> is_check_goal_member(subject_identity)
        BY <1>3 DEF is_check_goal_member
    <2>5. Declared(Source, is_check_goal_member(subject_identity))'
            = Declared(resolution.selections[i].candidate.source,
                       is_check_goal_member(subject_identity))
        BY <2>3, <2>4 DEF Declared
    <2>6. requirements' \in Arrangements(Declared(Source, is_check_goal_member(subject_identity)))'
        BY <2>1, <2>5 DEF Arrangements
    <2>7. CatalogAgrees(Subject)'
        BY <2>1, <2>3 DEF CatalogAgrees
    <2> QED
        BY <1>3, <2>1, <2>2, <2>3, <2>6, <2>7 DEF SubjectInv
<1>5. BoundInv'
    <2>1. Len(requirements') \in Nat
        BY <1>1 DEF TypeInv, TypeOK
    <2> QED
        BY <1>2, <1>3, <2>1 DEF BoundInv
<1>6. AdmittedIsOneToOne'
    BY <1>2, <1>3 DEF Pending, AdmittedIsOneToOne
<1> QED
    BY <1>1, <1>2, <1>3, <1>4, <1>5, <1>6 DEF Inv

\* What the loop relies on about the subject is about unchanged variables.
LEMMA SubjectIsFixed ==
    ASSUME SubjectInv, UNCHANGED <<resolution, subject_identity, subject, requirements>>
    PROVE  SubjectInv'
<1>1. Subject' = Subject /\ Source' = Source
    BY DEF Subject, Source
<1>2. is_check_goal_member(subject_identity)' <=> is_check_goal_member(subject_identity)
    BY DEF is_check_goal_member
<1>3. Declared(Source, is_check_goal_member(subject_identity))'
        = Declared(Source, is_check_goal_member(subject_identity))
    BY <1>1, <1>2 DEF Declared
<1>4. (requirements \in Arrangements(
            Declared(Source, is_check_goal_member(subject_identity))))'
    BY <1>3 DEF SubjectInv, Arrangements
<1>5. CatalogAgrees(Subject)'
    BY <1>1 DEF SubjectInv, CatalogAgrees
<1> QED
    BY <1>1, <1>4, <1>5 DEF SubjectInv

\* One iteration binds the next requirement to an edge not bound before.
LEMMA BindInv == ASSUME Inv, Bind PROVE Inv'
<1> DEFINE n == Len(inputs)
<1>1. /\ TypeInv' /\ TypeInv
      /\ SubjectInv /\ BoundInv /\ pc = "match" /\ outcome = Pending
    BY BindType DEF Inv, Bind
<1>2. PICK i \in DOMAIN resolution.edges, k \in DOMAIN resolution.selections :
        LET edge == resolution.edges[i]
            required == resolution.selections[k]
        IN
        /\ Found(i, k)
        /\ required.environment = "build"
        /\ WitnessAgrees(edge, current)
        /\ edge.identity \notin consumed
        /\ consumed' = consumed \cup {edge.identity}
        /\ inputs' = Append(inputs,
                [scope |-> current.scope, requirement |-> edge,
                 selection |-> required,
                 identity |-> input_id(current.scope, edge, required)])
    BY DEF Bind, Fresh
<1> DEFINE edge == resolution.edges[i]
           required == resolution.selections[k]
           new == [scope |-> current.scope, requirement |-> edge,
                   selection |-> required,
                   identity |-> input_id(current.scope, edge, required)]
<1>3. UNCHANGED <<resolution, subject_identity, pc, subject, requirements, outcome>>
    BY DEF Bind, arguments
<1>4. /\ n \in Nat /\ Len(requirements) \in Nat /\ n < Len(requirements)
      /\ DOMAIN inputs = 1..n
    BY <1>1 DEF TypeInv, TypeOK, Bind, Unbound
<1>5. /\ Len(inputs') = n + 1
      /\ DOMAIN inputs' = 1..n + 1
      /\ inputs'[n + 1] = new
      /\ \A m \in 1..n : inputs'[m] = inputs[m]
    <2>1. inputs \in Seq(BuildInput) /\ inputs' \in Seq(BuildInput)
        BY <1>1 DEF TypeInv, TypeOK
    <2>2. inputs' = Append(inputs, new)
        BY <1>2
    <2> QED
        BY <2>1, <2>2
<1>6. Retains(new, Subject, requirements[n + 1])
    <2>1. i \in Matching(current) /\ Named(edge.required) = {k}
        BY <1>2 DEF Found
    <2>2. /\ edge.issuer = subject_identity /\ edge.environment = "build"
          /\ edge.scope = current.scope
        BY <2>1 DEF Matching, Scanned
    <2>3. required.identity = edge.required /\ required.package = current.package
        BY <2>1 DEF Matching, Named
    <2>4. /\ edge.witness.catalog_source = Subject.source_snapshot
          /\ edge.witness.catalog_origins = current.origins
        BY <1>1, <1>2 DEF WitnessAgrees, SubjectInv, CatalogAgrees, Source, Subject
    <2>5. edge \in Range(resolution.edges) /\ required \in Range(resolution.selections)
        BY DEF Range
    <2> QED
        BY <1>2, <2>2, <2>3, <2>4, <2>5 DEF Retains, current
<1>7. \A m \in 1..n + 1 : Retains(inputs'[m], Subject, requirements[m])
    BY <1>1, <1>4, <1>5, <1>6 DEF BoundInv
<1>8. (\A m \in DOMAIN inputs : Retains(inputs[m], Subject, requirements[m]))'
    BY <1>3, <1>5, <1>7 DEF Retains, Subject
<1>9. (\A j, m \in DOMAIN inputs :
            j # m => inputs[j].requirement.identity # inputs[m].requirement.identity)'
    <2>1. \A m \in 1..n : inputs[m].requirement.identity # new.requirement.identity
        BY <1>1, <1>2, <1>4 DEF BoundInv
    <2>2. 1..n + 1 = 1..n \cup {n + 1}
        BY <1>4
    <2>3. \A j, m \in 1..n : j # m =>
            inputs[j].requirement.identity # inputs[m].requirement.identity
        BY <1>1, <1>4 DEF BoundInv
    <2> QED
        BY <1>5, <2>1, <2>2, <2>3
<1>10. consumed' = {inputs'[m].requirement.identity : m \in DOMAIN inputs'}
    <2>1. 1..n + 1 = 1..n \cup {n + 1}
        BY <1>4
    <2>2. consumed = {inputs[m].requirement.identity : m \in 1..n}
        BY <1>1, <1>4 DEF BoundInv
    <2>3. consumed' = consumed \cup {new.requirement.identity}
        BY <1>2
    <2> QED
        BY <1>5, <2>1, <2>2, <2>3
<1>11. BoundInv'
    BY <1>3, <1>4, <1>5, <1>8, <1>9, <1>10 DEF BoundInv
<1>12. SubjectInv'
    BY <1>1, <1>3, SubjectIsFixed
<1>13. AdmittedIsOneToOne'
    BY <1>1, <1>3 DEF Pending, AdmittedIsOneToOne
<1> QED
    BY <1>1, <1>3, <1>11, <1>12, <1>13 DEF Inv

\* The active requirements, listed as the code collects them, are the slots of
\* the contract.
LEMMA SlotListing ==
    ASSUME NEW s \in Selection, s.candidate # NoCandidate
    PROVE  LET declared == Declared(s.candidate.source,
                                    is_check_goal_member(subject_identity))
           IN \E g \in Bijection(1..Len(declared), Contract!Slots(s)) :
                \A i \in 1..Len(declared) : Contract!Required(s, g[i]) = declared[i]
<1> DEFINE build == s.candidate.source.build_requirements
           check == s.candidate.source.check_requirements
           active == is_check_goal_member(subject_identity)
           declared == Declared(s.candidate.source, active)
           b == Len(build)
           g == [i \in 1..Len(declared) |->
                    IF i <= b THEN <<"build", i>> ELSE <<"check", i - b>>]
<1>1. build \in Seq(Requirement) /\ check \in Seq(Requirement)
    BY DEF Selection, Candidate, Snapshot
<1>2. /\ b \in Nat /\ Len(check) \in Nat
      /\ DOMAIN build = 1..b /\ DOMAIN check = 1..Len(check)
    BY <1>1
<1>3. Contract!ChecksActive <=> active
    BY DEF Contract!ChecksActive, is_check_goal_member
<1>4. /\ Len(declared) = b + (IF active THEN Len(check) ELSE 0)
      /\ \A i \in 1..Len(declared) :
            declared[i] = IF i <= b THEN build[i] ELSE check[i - b]
    <2> DEFINE tail == IF active THEN check ELSE <<>>
    <2>1. declared = build \o tail
        BY DEF Declared
    <2>2. tail \in Seq(Requirement) /\ Len(tail) = (IF active THEN Len(check) ELSE 0)
        BY <1>1
    <2>3. /\ Len(build \o tail) = Len(build) + Len(tail)
          /\ \A i \in 1..Len(build) + Len(tail) :
                (build \o tail)[i] = IF i <= Len(build) THEN build[i] ELSE tail[i - Len(build)]
        BY <1>1, <2>2, ConcatProperties
    <2> HIDE DEF build, check
    <2>4. \A i \in 1..Len(build) + Len(tail) : ~(i <= b) => tail[i - b] = check[i - b]
        BY <1>2, <2>2
    <2> QED
        BY <2>1, <2>2, <2>3, <2>4
<1>5. Contract!Slots(s) =
        {<<"build", i>> : i \in 1..b}
            \cup (IF active THEN {<<"check", i>> : i \in 1..Len(check)} ELSE {})
    BY <1>2, <1>3 DEF Contract!Slots
<1> HIDE DEF build, check, active, declared, b
<1>6. g \in [1..Len(declared) -> Contract!Slots(s)]
    <2> SUFFICES ASSUME NEW i \in 1..Len(declared)
                 PROVE  (IF i <= b THEN <<"build", i>> ELSE <<"check", i - b>>)
                            \in Contract!Slots(s)
        OBVIOUS
    <2>1. CASE i <= b
        BY <1>2, <1>4, <1>5, <2>1
    <2>2. CASE ~(i <= b)
        <3>1. active /\ i - b \in 1..Len(check)
            BY <1>2, <1>4, <2>2
        <3> QED
            BY <1>5, <2>2, <3>1
    <2> QED
        BY <2>1, <2>2
<1>7. \A i, j \in 1..Len(declared) : g[i] = g[j] => i = j
    BY <1>2, <1>4
<1>8. \A slot \in Contract!Slots(s) : \E i \in 1..Len(declared) : g[i] = slot
    <2> TAKE slot \in Contract!Slots(s)
    <2>1. CASE \E i \in 1..b : slot = <<"build", i>>
        <3>1. PICK i \in 1..b : slot = <<"build", i>>
            BY <2>1
        <3>2. i \in 1..Len(declared) /\ g[i] = slot
            BY <1>2, <1>4, <3>1
        <3> QED
            BY <3>2
    <2>2. CASE active /\ \E i \in 1..Len(check) : slot = <<"check", i>>
        <3>1. PICK i \in 1..Len(check) : slot = <<"check", i>>
            BY <2>2
        <3>2. b + i \in 1..Len(declared) /\ ~(b + i <= b) /\ (b + i) - b = i
            BY <1>2, <1>4, <2>2
        <3> QED
            BY <3>1, <3>2
    <2> QED
        BY <1>5, <2>1, <2>2
<1>9. g \in Bijection(1..Len(declared), Contract!Slots(s))
    BY <1>6, <1>7, <1>8 DEF Bijection, Injection, Surjection, IsInjective
<1>10. \A i \in 1..Len(declared) : Contract!Required(s, g[i]) = declared[i]
    <2> TAKE i \in 1..Len(declared)
    <2>1. CASE i <= b
        BY <1>4, <2>1 DEF Contract!Required, build
    <2>2. CASE ~(i <= b)
        BY <1>4, <2>2 DEF Contract!Required, check
    <2> QED
        BY <2>1, <2>2
<1> HIDE DEF g
<1> QED
    BY <1>9, <1>10 DEF declared, active

\* Whether a set is one to one depends on the arguments of the call alone.
LEMMA OneToOneIsFixed ==
    ASSUME UNCHANGED arguments, NEW set
    PROVE  OneToOne(set)' <=> OneToOne(set)
<1>1. resolution' = resolution /\ subject_identity' = subject_identity
    BY DEF arguments
<1>2. \A s : Contract!Slots(s)' = Contract!Slots(s)
    BY <1>1 DEF Contract!Slots, Contract!ChecksActive
<1>3. Contract!DirectEdges' = Contract!DirectEdges
    BY <1>1 DEF Contract!DirectEdges, Contract!OwnEdges, Contract!EdgeAt
<1>4. \A input, s, r : Retains(input, s, r)' <=> Retains(input, s, r)
    BY <1>1 DEF Retains
<1>5. \A s, slot : Contract!Required(s, slot)' = Contract!Required(s, slot)
    BY DEF Contract!Required
<1> QED
    BY <1>1, <1>2, <1>3, <1>4, <1>5 DEF OneToOne

\* The active requirements are listed in some order.
LEMMA RequirementsAreSlots ==
    ASSUME TypeInv, SubjectInv
    PROVE  \E h \in Bijection(1..Len(requirements), Contract!Slots(Subject)) :
                \A k \in 1..Len(requirements) :
                    Contract!Required(Subject, h[k]) = requirements[k]
<1> DEFINE n == Len(requirements)
           D == Declared(Source, is_check_goal_member(subject_identity))
<1>1. Subject \in Selection /\ Subject.candidate # NoCandidate
    <2>1. resolution.selections \in Seq(Selection)
        BY DEF TypeInv, TypeOK, Resolution
    <2> QED
        BY <2>1 DEF SubjectInv, Subject
<1>2. D \in Seq(Requirement)
    <2>1. Source \in Snapshot
        BY <1>1 DEF Source, Subject, Selection, Candidate
    <2>2. is_check_goal_member(subject_identity) \in BOOLEAN
        BY DEF is_check_goal_member
    <2> QED
        BY <2>1, <2>2, DeclaredType
<1>3. /\ Len(D) = n
      /\ \E p \in Bijection(1..n, 1..n) : \A i \in 1..n : requirements[i] = D[p[i]]
    BY <1>2, ArrangementType DEF SubjectInv
<1>4. PICK p \in Bijection(1..n, 1..n) : \A i \in 1..n : requirements[i] = D[p[i]]
    BY <1>3
<1>5. PICK g \in Bijection(1..n, Contract!Slots(Subject)) :
        \A i \in 1..n : Contract!Required(Subject, g[i]) = D[i]
    BY <1>1, <1>3, SlotListing DEF Source, Subject
<1> DEFINE h == [i \in 1..n |-> g[p[i]]]
<1>6. h \in Bijection(1..n, Contract!Slots(Subject))
    BY <1>4, <1>5, Fun_BijTransitive
<1>7. \A k \in 1..n : Contract!Required(Subject, h[k]) = requirements[k]
    <2>1. \A k \in 1..n : p[k] \in 1..n
        BY <1>4 DEF Bijection, Injection
    <2> QED
        BY <1>4, <1>5, <2>1
<1> HIDE DEF h
<1> QED
    BY <1>6, <1>7

\* When every requirement is bound and no direct edge is left, the set is one to one.
LEMMA AdmitInv == ASSUME Inv, Admit PROVE Inv'
<1>1. /\ TypeInv' /\ TypeInv /\ SubjectInv /\ BoundInv
    BY AdmitType DEF Inv, Admit
<1>2. PICK sorted \in Sorted(inputs) :
        outcome' = [verdict |-> "admitted", subject |-> Subject,
                    resolution |-> resolution.identity,
                    inputs |-> sorted, identity |-> input_set_id(sorted)]
    BY DEF Admit, Subject
<1> DEFINE n == Len(inputs)
<1>3. inputs \in Seq(BuildInput) /\ requirements \in Seq(Requirement)
    BY <1>1 DEF TypeInv, TypeOK
<1>4. PICK q \in Bijection(1..n, 1..n) :
        sorted \in Seq(BuildInput) /\ Len(sorted) = n /\ \A i \in 1..n : sorted[i] = inputs[q[i]]
    BY <1>3, ArrangementType DEF Sorted
<1>5. Len(requirements) = n
    BY <1>1, <1>3 DEF Admit, Unbound, BoundInv
<1>6. PICK h \in Bijection(1..n, Contract!Slots(Subject)) :
        \A k \in 1..n : Contract!Required(Subject, h[k]) = requirements[k]
    BY <1>1, <1>5, RequirementsAreSlots
<1> DEFINE f == [i \in 1..n |-> h[q[i]]]
<1>7. f \in Bijection(1..n, Contract!Slots(Subject))
    BY <1>4, <1>6, Fun_BijTransitive, Zenon
<1>8. /\ \A i \in 1..n : q[i] \in 1..n
      /\ \A i, j \in 1..n : q[i] = q[j] => i = j
      /\ \A k \in 1..n : \E i \in 1..n : q[i] = k
    BY <1>4 DEF Bijection, Injection, Surjection, IsInjective
<1>9. DOMAIN sorted = 1..n /\ DOMAIN inputs = 1..n
    BY <1>3, <1>4
<1>10. \A i \in 1..n : Retains(sorted[i], Subject, Contract!Required(Subject, f[i]))
    <2> TAKE i \in 1..n
    <2>1. Contract!Required(Subject, f[i]) = requirements[q[i]]
        BY <1>6, <1>8
    <2>2. Retains(inputs[q[i]], Subject, requirements[q[i]])
        BY <1>1, <1>8, <1>9 DEF BoundInv
    <2> QED
        BY <1>4, <2>1, <2>2
<1>11. \A i, j \in 1..n : i # j =>
            sorted[i].requirement.identity # sorted[j].requirement.identity
    <2> SUFFICES ASSUME NEW i \in 1..n, NEW j \in 1..n, i # j
                 PROVE  sorted[i].requirement.identity # sorted[j].requirement.identity
        OBVIOUS
    <2>1. q[i] \in DOMAIN inputs /\ q[j] \in DOMAIN inputs /\ q[i] # q[j]
        BY <1>8, <1>9
    <2>2. inputs[q[i]].requirement.identity # inputs[q[j]].requirement.identity
        BY <1>1, <2>1 DEF BoundInv
    <2> QED
        BY <1>4, <2>2
<1>12. \A e \in Contract!DirectEdges : \E i \in 1..n :
            sorted[i].requirement.identity = resolution.edges[e].identity
    <2> TAKE e \in Contract!DirectEdges
    <2>1. resolution.edges[e].identity \in consumed
        BY DEF Contract!DirectEdges, Contract!OwnEdges, Contract!EdgeAt, Admit, Undeclared
    <2>2. PICK k \in 1..n : inputs[k].requirement.identity = resolution.edges[e].identity
        BY <1>1, <1>9, <2>1 DEF BoundInv
    <2>3. PICK i \in 1..n : q[i] = k
        BY <1>8
    <2> QED
        BY <1>4, <2>2, <2>3
<1>13. OneToOne(outcome')
    <2>1. outcome'.inputs = sorted /\ outcome'.subject = Subject
        BY <1>2
    <2> HIDE DEF f
    <2> QED
        BY <1>7, <1>9, <1>10, <1>11, <1>12, <2>1 DEF OneToOne
<1>14. AdmittedIsOneToOne'
    BY <1>13, OneToOneIsFixed DEF Admit, AdmittedIsOneToOne
<1> QED
    BY <1>1, <1>14 DEF Admit, Inv

\* Every step keeps the invariant.
LEMMA NextInv == Inv /\ [Next]_vars => Inv'
<1> SUFFICES ASSUME Inv, [Next]_vars PROVE Inv'
    OBVIOUS
<1>1. CASE RefuseSubject \/ RefuseScan \/ RefuseUnmatched \/ RefuseMatch \/ RefuseLeftover
    BY <1>1, RefusalsRefuse, RefuseInv
<1>2. CASE AcceptSubject
    BY <1>2, AcceptSubjectInv
<1>3. CASE Bind
    BY <1>3, BindInv
<1>4. CASE Admit
    BY <1>4, AdmitInv
<1>5. CASE UNCHANGED vars
    <2>1. UNCHANGED arguments /\ UNCHANGED <<pc, subject, requirements, inputs, consumed, outcome>>
        BY <1>5 DEF vars, locals
    <2>2. TypeInv'
        BY <1>5, NextType DEF Inv
    <2>3. AdmittedIsOneToOne'
        BY <2>1, OneToOneIsFixed DEF Inv, AdmittedIsOneToOne
    <2>4. SubjectInv => SubjectInv'
        BY <2>1, SubjectIsFixed DEF arguments
    <2>5. BoundInv => BoundInv'
        BY <2>1 DEF BoundInv, Retains, Subject, arguments
    <2> QED
        BY <2>1, <2>2, <2>3, <2>4, <2>5 DEF Inv
<1>6. CASE Done
    BY <1>5, <1>6 DEF Done
<1> QED
    BY <1>1, <1>2, <1>3, <1>4, <1>5, <1>6 DEF Next

-----------------------------------------------------------------------------

\* The inductive invariant of admit.
THEOREM AdmissionInvariant == Spec => []Inv
BY InitInv, NextInv, PTL DEF Spec

\* While the loop runs, inputs and requirements match one by one and "consumed"
\* is what the inputs hold, whatever the resolution.
THEOREM LoopIsOneToOneHolds == Spec => []LoopIsOneToOne
<1>1. Inv => LoopIsOneToOne
    BY DEF Inv, BoundInv, Retains, LoopIsOneToOne
<1> QED
    BY <1>1, AdmissionInvariant, PTL

\* Whatever the resolution, an admitted set is in one-to-one correspondence with
\* the active requirements of its subject, and no direct edge is left out.
THEOREM AdmittedIsOneToOneHolds == Spec => []AdmittedIsOneToOne
<1>1. Inv => AdmittedIsOneToOne
    BY DEF Inv
<1> QED
    BY <1>1, AdmissionInvariant, PTL

-----------------------------------------------------------------------------
(* The loop implements the contract *)

\* Input k was bound by an iteration that found one edge for its requirement.
BoundBy(k, i) ==
    /\ Matching(requirements[k]) = {i}
    /\ inputs[k].requirement = resolution.edges[i]
    /\ \E n \in DOMAIN resolution.selections :
            /\ Named(resolution.edges[i].required) = {n}
            /\ inputs[k].selection = resolution.selections[n]
    /\ WitnessAgrees(resolution.edges[i], requirements[k])
    /\ inputs[k].identity = input_id(inputs[k].scope, resolution.edges[i], inputs[k].selection)

\* What the contract needs to know beside Inv: the call is one of those asked
\* about, the first checks passed, and how each input was found.
ContractInv ==
    /\ Inv
    /\ <<resolution, subject_identity>> \in Calls
    /\ pc = "match" =>
        /\ Named(subject_identity) = {subject}
        /\ ArchitecturesAgree(Subject)
        /\ \A k \in DOMAIN inputs : \E i \in DOMAIN resolution.edges : BoundBy(k, i)

\* The contract has its own copies of these operators.
LEMMA ContractOperators ==
    /\ \A S : Contract!Cardinality(S) = Cardinality(S)
    /\ \A S, T : Contract!Bijection(S, T) = Bijection(S, T)
<1>1. \A S : Contract!Cardinality(S) = Cardinality(S)
    BY DEF Contract!Cardinality, Cardinality
<1>2. \A S, T : Contract!Bijection(S, T) = Bijection(S, T)
    BY DEF Contract!Bijection, Bijection, Contract!Injection, Injection,
           Contract!Surjection, Surjection, Contract!IsInjective, IsInjective
<1> QED
    BY <1>1, <1>2

\* An identity that require_selection accepts is unique, and names its selection.
LEMMA NamedIsUnique ==
    ASSUME NEW id, NEW n, Named(id) = {n}
    PROVE  /\ Contract!Unique(id)
           /\ n \in DOMAIN resolution.selections
           /\ resolution.selections[n] \in Contract!Selected
           /\ resolution.selections[n].identity = id
           /\ \A s \in Contract!Selected : s.identity = id => s = resolution.selections[n]
BY DEF Named, Contract!Unique, Contract!Selected

\* An identity it throws for is absent or listed twice, and so not unique.
LEMMA NotNamedOnce ==
    ASSUME NEW id, RefuseName(id)
    PROVE  /\ ~Contract!Unique(id)
           /\ \/ /\ outcome'.reason = "absent selection"
                 /\ \A s \in Contract!Selected : s.identity # id
              \/ /\ outcome'.reason = "duplicate selection"
                 /\ \E i, j \in DOMAIN resolution.selections :
                        /\ i # j
                        /\ resolution.selections[i].identity = resolution.selections[j].identity
<1>1. CASE Named(id) = {} /\ Refuse("absent selection")
    <2>1. outcome'.reason = "absent selection"
        BY <1>1 DEF Refuse
    <2> QED
        BY <1>1, <2>1 DEF Named, Contract!Unique, Contract!Selected
<1>2. CASE Cardinality(Named(id)) > 1 /\ Refuse("duplicate selection")
    <2>1. outcome'.reason = "duplicate selection"
        BY <1>2 DEF Refuse
    <2>2. Named(id) # {} /\ \A n : Named(id) # {n}
        <3>1. Cardinality({}) = 0 /\ \A n : Cardinality({n}) = 1
            BY FS_EmptySet, FS_Singleton
        <3>2. ~(0 > 1) /\ ~(1 > 1)
            OBVIOUS
        <3> QED
            BY <1>2, <3>1, <3>2, Zenon
    <2>3. PICK i, j \in Named(id) : i # j
        BY <2>2
    <2> QED
        BY <2>1, <2>3 DEF Named, Contract!Unique
<1> QED
    BY <1>1, <1>2 DEF RefuseName

\* The scan matches the edges that serve the requirement.
LEMMA MatchingServes ==
    ASSUME NEW r, NEW i
    PROVE  i \in Matching(r) <=> i \in Contract!OwnEdges /\ Contract!Serves(i, r)
BY DEF Matching, Scanned, Named, Contract!OwnEdges, Contract!Serves, Contract!EdgeAt,
       Contract!Selected

\* If the call is exact, every active requirement has an edge that answers it,
\* and every direct edge answers one.
LEMMA ExactAnswers ==
    ASSUME NEW s, Contract!Exact(s)
    PROVE  /\ \A slot \in Contract!Slots(s) : \E i \in Contract!DirectEdges :
                /\ Contract!Answers(s, i, Contract!Required(s, slot))
                /\ i \in Matching(Contract!Required(s, slot))
                /\ Contract!Required(s, slot).scope \in InputScope
           /\ \A i \in Contract!DirectEdges : \E slot \in Contract!Slots(s) :
                Contract!Answers(s, i, Contract!Required(s, slot))
<1>1. PICK f \in Contract!Correspondences(s) : TRUE
    BY DEF Contract!Exact
<1>2. /\ f \in Bijection(Contract!Slots(s), Contract!DirectEdges)
      /\ \A slot \in Contract!Slots(s) : Contract!Answers(s, f[slot], Contract!Required(s, slot))
    BY ContractOperators DEF Contract!Correspondences
<1>3. /\ \A slot \in Contract!Slots(s) : f[slot] \in Contract!DirectEdges
      /\ \A i \in Contract!DirectEdges : \E slot \in Contract!Slots(s) : f[slot] = i
    BY <1>2 DEF Bijection, Injection, Surjection
<1>4. ASSUME NEW slot \in Contract!Slots(s)
      PROVE  /\ f[slot] \in Matching(Contract!Required(s, slot))
             /\ Contract!Required(s, slot).scope \in InputScope
    <2>1. Contract!Serves(f[slot], Contract!Required(s, slot))
        BY <1>2 DEF Contract!Answers
    <2>2. f[slot] \in Contract!OwnEdges /\ Contract!EdgeAt(f[slot]).scope \in InputScope
        BY <1>3 DEF Contract!DirectEdges, InputScope
    <2> QED
        BY <2>1, <2>2, MatchingServes DEF Contract!Serves
<1> QED
    BY <1>2, <1>3, <1>4

\* Two edges for one requirement answer two, which are twins.
LEMMA ExactMatchesOnce ==
    ASSUME NEW s, Contract!Exact(s), NEW r, r.scope \in InputScope,
           NEW i \in Matching(r), NEW j \in Matching(r)
    PROVE  i = j
<1>1. PICK f \in Bijection(Contract!Slots(s), Contract!DirectEdges) :
        \A slot \in Contract!Slots(s) : Contract!Answers(s, f[slot], Contract!Required(s, slot))
    BY ContractOperators DEF Contract!Exact, Contract!Correspondences
<1>2. /\ i \in Contract!DirectEdges /\ j \in Contract!DirectEdges
      /\ Contract!Serves(i, r) /\ Contract!Serves(j, r)
    BY MatchingServes DEF Contract!DirectEdges, Contract!Serves, InputScope
<1>3. \A e \in Contract!DirectEdges : Contract!Serves(e, r) =>
        \E slot \in Contract!Slots(s) :
            /\ f[slot] = e
            /\ Contract!Required(s, slot).scope = r.scope
            /\ Contract!Required(s, slot).package = r.package
    <2> TAKE e \in Contract!DirectEdges
    <2> HAVE Contract!Serves(e, r)
    <2>1. PICK slot \in Contract!Slots(s) : f[slot] = e
        BY <1>1 DEF Bijection, Surjection
    <2>2. Contract!Serves(e, Contract!Required(s, slot)) /\ Contract!Unique(Contract!EdgeAt(e).required)
        BY <1>1, <2>1 DEF Contract!Answers
    <2>3. Contract!Required(s, slot).package = r.package
        <3>1. PICK t \in Contract!Selected :
                t.identity = Contract!EdgeAt(e).required /\ t.package = r.package
            BY DEF Contract!Serves
        <3>2. PICK u \in Contract!Selected :
                /\ u.identity = Contract!EdgeAt(e).required
                /\ u.package = Contract!Required(s, slot).package
            BY <2>2 DEF Contract!Serves
        <3>3. t = u
            BY <2>2, <3>1, <3>2 DEF Contract!Unique, Contract!Selected
        <3> QED
            BY <3>1, <3>2, <3>3
    <2> QED
        BY <2>1, <2>2, <2>3 DEF Contract!Serves
<1>4. PICK a \in Contract!Slots(s), b \in Contract!Slots(s) :
        /\ f[a] = i /\ f[b] = j
        /\ Contract!Required(s, a).scope = Contract!Required(s, b).scope
        /\ Contract!Required(s, a).package = Contract!Required(s, b).package
    BY <1>2, <1>3
<1>5. a = b
    BY <1>4 DEF Contract!Exact, Contract!Twins
<1> QED
    BY <1>4, <1>5

-----------------------------------------------------------------------------
(* Every refusal of the code is one the contract allows *)

Justified(reason) == Contract!Fault(reason) /\ ~\E s \in Contract!Subjects : Contract!Exact(s)

\* The subject is checked before the loop.
LEMMA RefuseSubjectJustified ==
    ASSUME ContractInv, RefuseSubject PROVE Justified(outcome'.reason)
<1>1. CASE RefuseName(subject_identity)
    <2>1. ~Contract!Unique(subject_identity)
        BY <1>1, NotNamedOnce
    <2>2. Contract!Fault(outcome'.reason)
        BY <1>1, NotNamedOnce, Zenon DEF Contract!Fault
    <2> QED
        BY <2>1, <2>2 DEF Justified, Contract!Exact
<1>2. ASSUME NEW i \in Named(subject_identity), Named(subject_identity) = {i},
             \/ /\ resolution.selections[i].candidate = NoCandidate
                /\ Refuse("no catalog authority")
             \/ /\ resolution.selections[i].candidate # NoCandidate
                /\ ~CatalogAgrees(resolution.selections[i])
                /\ Refuse("catalog contradiction")
             \/ /\ resolution.selections[i].candidate # NoCandidate
                /\ CatalogAgrees(resolution.selections[i])
                /\ ~ArchitecturesAgree(resolution.selections[i])
                /\ Refuse("architecture contradiction")
      PROVE  Justified(outcome'.reason)
    <2> DEFINE s == resolution.selections[i]
    <2>1. Contract!Subjects = {s}
        <3>1. Named(subject_identity) = {i}
            BY <1>2
        <3>2. /\ s \in Contract!Selected /\ s.identity = subject_identity
              /\ \A t \in Contract!Selected : t.identity = subject_identity => t = s
            BY <3>1, NamedIsUnique
        <3> HIDE DEF s
        <3> QED
            BY <3>2 DEF Contract!Subjects
    <2>2. s \in Selection
        <3>1. resolution.selections \in Seq(Selection) /\ i \in DOMAIN resolution.selections
            BY DEF ContractInv, Inv, TypeInv, TypeOK, Resolution, Named
        <3> QED
            BY <3>1
    <2> HIDE DEF s
    <2>3. CASE s.candidate = NoCandidate /\ Refuse("no catalog authority")
        <3>1. outcome'.reason = "no catalog authority" /\ ~Contract!FromCatalog(s)
            BY <2>3 DEF Refuse, Contract!FromCatalog
        <3> QED
            BY <2>1, <3>1, Zenon DEF Justified, Contract!Fault, Contract!Exact, Contract!Buildable
    <2>4. CASE s.candidate # NoCandidate /\ ~CatalogAgrees(s) /\ Refuse("catalog contradiction")
        <3>1. /\ outcome'.reason = "catalog contradiction"
              /\ Contract!FromCatalog(s) /\ Contract!Contradicted(s)
            BY <2>4 DEF Refuse, Contract!FromCatalog, Contract!Contradicted, CatalogAgrees
        <3> QED
            BY <2>1, <3>1, Zenon DEF Justified, Contract!Fault, Contract!Exact, Contract!Buildable
    <2>5. CASE s.candidate # NoCandidate /\ ~ArchitecturesAgree(s)
                /\ Refuse("architecture contradiction")
        <3>1. s.architectures \in [build : Architecture, target : Architecture]
            BY <2>2 DEF Selection, ArchitectureContext
        <3>2. /\ outcome'.reason = "architecture contradiction"
              /\ Contract!FromCatalog(s) /\ Contract!Misplaced(s)
            BY <2>5, <3>1 DEF Refuse, Contract!FromCatalog, Contract!Misplaced, ArchitecturesAgree
        <3> QED
            BY <2>1, <3>2, Zenon DEF Justified, Contract!Fault, Contract!Exact, Contract!Buildable
    <2> QED
        BY <1>2, <2>3, <2>4, <2>5 DEF s
<1> QED
    BY <1>1, <1>2 DEF RefuseSubject

\* In the loop there is one subject, and it can be built.
LEMMA LoopSubject ==
    ASSUME ContractInv, pc = "match"
    PROVE  /\ TypeInv /\ SubjectInv /\ BoundInv
           /\ Subject \in Selection
           /\ Contract!Subjects = {Subject}
           /\ Contract!Unique(subject_identity)
           /\ Contract!FromCatalog(Subject) /\ Contract!Buildable(Subject)
<1>1. TypeInv /\ SubjectInv /\ BoundInv
    BY DEF ContractInv, Inv
<1>2. Named(subject_identity) = {subject} /\ ArchitecturesAgree(Subject)
    BY DEF ContractInv
<1>3. Contract!Subjects = {Subject} /\ Contract!Unique(subject_identity)
    BY <1>2, NamedIsUnique DEF Contract!Subjects, Subject
<1>4. Subject \in Selection
    <2>1. resolution.selections \in Seq(Selection)
        BY <1>1 DEF TypeInv, TypeOK, Resolution
    <2> QED
        BY <1>1, <2>1 DEF SubjectInv, Subject
<1>5. Contract!FromCatalog(Subject) /\ ~Contract!Contradicted(Subject)
    BY <1>1 DEF SubjectInv, CatalogAgrees, Contract!FromCatalog, Contract!Contradicted
<1>6. ~Contract!Misplaced(Subject)
    BY <1>2 DEF ArchitecturesAgree, Contract!Misplaced
<1> QED
    BY <1>1, <1>3, <1>4, <1>5, <1>6 DEF Contract!Buildable

\* The requirement an iteration works on is an active one of the subject.
LEMMA CurrentIsSlot ==
    ASSUME ContractInv, pc = "match", Unbound
    PROVE  \E slot \in Contract!Slots(Subject) : Contract!Required(Subject, slot) = current
<1>1. TypeInv /\ SubjectInv
    BY DEF ContractInv, Inv
<1>2. Len(inputs) + 1 \in 1..Len(requirements)
    BY <1>1 DEF TypeInv, TypeOK, Unbound
<1>3. PICK h \in Bijection(1..Len(requirements), Contract!Slots(Subject)) :
        \A k \in 1..Len(requirements) : Contract!Required(Subject, h[k]) = requirements[k]
    BY <1>1, RequirementsAreSlots
<1>4. h[Len(inputs) + 1] \in Contract!Slots(Subject)
    BY <1>2, <1>3 DEF Bijection, Injection
<1> QED
    BY <1>2, <1>3, <1>4 DEF current

\* A stop of the scan is a defect of an edge for the current requirement.
LEMMA RefuseScanJustified ==
    ASSUME ContractInv, RefuseScan PROVE Justified(outcome'.reason)
<1>1. pc = "match" /\ Unbound
    BY DEF RefuseScan
<1>2. PICK slot \in Contract!Slots(Subject) : Contract!Required(Subject, slot) = current
    BY <1>1, CurrentIsSlot
<1>3. Contract!Subjects = {Subject} /\ Contract!FromCatalog(Subject)
    BY <1>1, LoopSubject
<1>4. PICK i \in Stops(current) :
        \/ RefuseName(resolution.edges[i].required)
        \/ ~Dangling(i) /\ Refuse("ambiguous")
    BY DEF RefuseScan
<1>5. i \in Scanned(current)
    BY <1>4 DEF Stops
<1>6. /\ i \in Contract!OwnEdges
      /\ current.scope \in InputScope => i \in Contract!DirectEdges
    BY <1>5 DEF Scanned, Contract!OwnEdges, Contract!DirectEdges, Contract!EdgeAt, InputScope
<1>7. Contract!Exact(Subject) => current.scope \in InputScope
    BY <1>2, ExactAnswers
<1>8. CASE RefuseName(resolution.edges[i].required)
    <2>1. ~Contract!Unique(Contract!EdgeAt(i).required)
        BY <1>8, NotNamedOnce DEF Contract!EdgeAt
    <2>2. ~Contract!Exact(Subject)
        BY <1>6, <1>7, <2>1, ExactAnswers DEF Contract!Answers
    <2>3. \/ /\ outcome'.reason = "absent selection"
             /\ \A s \in Contract!Selected : s.identity # Contract!EdgeAt(i).required
          \/ /\ outcome'.reason = "duplicate selection"
             /\ \E a, b \in DOMAIN resolution.selections :
                    /\ a # b
                    /\ resolution.selections[a].identity = resolution.selections[b].identity
        BY <1>8, NotNamedOnce DEF Contract!EdgeAt
    <2>4. Contract!Fault(outcome'.reason)
        BY <1>6, <2>3, Zenon DEF Contract!Fault
    <2> QED
        BY <1>3, <2>2, <2>4 DEF Justified
<1>9. CASE ~Dangling(i) /\ Refuse("ambiguous")
    <2>1. PICK j \in Matching(current) : i \in Matching(current) /\ j < i
        BY <1>4, <1>9 DEF Stops
    <2>2. i # j
        <3>1. i \in Nat
            BY <1>1, LoopSubject, <1>5 DEF TypeInv, TypeOK, Resolution, Scanned
        <3> QED
            BY <2>1, <3>1
    <2>3. ~Contract!Exact(Subject)
        BY <1>7, <2>1, <2>2, ExactMatchesOnce
    <2>4. /\ i \in Contract!OwnEdges /\ Contract!Serves(i, current)
          /\ j \in Contract!OwnEdges /\ Contract!Serves(j, current)
        BY <2>1, MatchingServes
    <2>5. outcome'.reason = "ambiguous"
        BY <1>9 DEF Refuse
    <2>6. Contract!Fault(outcome'.reason)
        BY <1>2, <1>3, <2>2, <2>4, <2>5, Zenon DEF Contract!Fault
    <2> QED
        BY <1>3, <2>3, <2>6 DEF Justified
<1> QED
    BY <1>4, <1>8, <1>9

\* A requirement without a match has no edge that serves it.
LEMMA RefuseUnmatchedJustified ==
    ASSUME ContractInv, RefuseUnmatched PROVE Justified(outcome'.reason)
<1>1. pc = "match" /\ Unbound /\ Matching(current) = {} /\ outcome'.reason = "lacks authority"
    BY DEF RefuseUnmatched, Refuse
<1>2. PICK slot \in Contract!Slots(Subject) : Contract!Required(Subject, slot) = current
    BY <1>1, CurrentIsSlot
<1>3. Contract!Subjects = {Subject} /\ Contract!FromCatalog(Subject)
    BY <1>1, LoopSubject
<1>4. \A i \in Contract!OwnEdges : ~Contract!Serves(i, current)
    BY <1>1, MatchingServes
<1>5. ~Contract!Exact(Subject)
    BY <1>1, <1>2, ExactAnswers
<1>6. Contract!Fault(outcome'.reason)
    BY <1>1, <1>2, <1>3, <1>4, Zenon DEF Contract!Fault
<1> QED
    BY <1>3, <1>5, <1>6 DEF Justified

\* The loop checks a witness as the contract does.
LEMMA WitnessIsChecked ==
    ASSUME ContractInv, pc = "match", NEW i \in DOMAIN resolution.edges, NEW r
    PROVE  WitnessAgrees(resolution.edges[i], r) <=> Contract!Witnesses(Subject, i, r)
<1>1. resolution.edges \in Seq(Edge)
    BY LoopSubject DEF TypeInv, TypeOK, Resolution
<1>2. resolution.edges[i].witness \in Witness
    <2>1. resolution.edges[i] \in Edge
        BY <1>1
    <2> QED
        BY <2>1 DEF Edge
<1>3. Subject.candidate.source.identity \in SourceId
    <2>1. Subject \in Selection /\ Subject.candidate # NoCandidate
        BY LoopSubject DEF SubjectInv
    <2> QED
        BY <2>1 DEF Selection, Candidate, Snapshot
<1>4. Subject.candidate.source.identity # NoSource
    BY <1>3, NoSourceAssumption
<1> QED
    BY <1>2, <1>4 DEF WitnessAgrees, Contract!Witnesses, Contract!EdgeAt, Source, Subject, Witness

\* The one edge and the one selection that the scan found fail one of the checks.
LEMMA RefuseMatchJustified ==
    ASSUME ContractInv, FaithfulEdges, RefuseMatch
    PROVE  \/ Justified(outcome'.reason)
           \/ outcome'.reason = "digest failure"
<1>1. pc = "match" /\ Unbound
    BY DEF RefuseMatch
<1>2. PICK slot \in Contract!Slots(Subject) : Contract!Required(Subject, slot) = current
    BY <1>1, CurrentIsSlot
<1>3. Contract!Subjects = {Subject} /\ Contract!FromCatalog(Subject)
    BY <1>1, LoopSubject
<1>4. PICK i \in DOMAIN resolution.edges, k \in DOMAIN resolution.selections :
        LET edge == resolution.edges[i]
            required == resolution.selections[k]
        IN  /\ Found(i, k)
            /\ \/ required.environment # "build" /\ Refuse("not a build package")
               \/ ~WitnessAgrees(edge, current) /\ Refuse("witness differs")
               \/ ~Fresh(edge) /\ Refuse("edge consumed twice")
               \/ ~HasInputScope(current) /\ Refuse("not a build scope")
               \/ Refuse("digest failure")
    BY DEF RefuseMatch
<1> DEFINE edge == resolution.edges[i]
           required == resolution.selections[k]
<1>5. Matching(current) = {i} /\ Named(edge.required) = {k}
    BY <1>4 DEF Found
<1>6. /\ i \in Contract!OwnEdges /\ Contract!Serves(i, current)
      /\ \A t \in Contract!Selected : t.identity = edge.required => t = required
      /\ required \in Contract!Selected /\ required.identity = edge.required
    <2>1. i \in Matching(current)
        BY <1>5
    <2>2. /\ \A t \in Contract!Selected : t.identity = edge.required => t = required
          /\ required \in Contract!Selected /\ required.identity = edge.required
        <3> HIDE DEF edge
        <3> QED
            BY <1>5, NamedIsUnique
    <2> QED
        BY <2>1, <2>2, MatchingServes
<1>7. Contract!Exact(Subject) =>
        /\ Contract!Answers(Subject, i, current)
        /\ current.scope \in InputScope
    BY <1>2, <1>5, ExactAnswers
<1> HIDE DEF edge, required
<1>8. CASE required.environment # "build" /\ Refuse("not a build package")
    <2>1. outcome'.reason = "not a build package"
        BY <1>8 DEF Refuse
    <2>2. ~Contract!Exact(Subject)
        BY <1>6, <1>7, <1>8 DEF Contract!Answers, Contract!EdgeAt, edge
    <2>3. Contract!Fault(outcome'.reason)
        <3>1. /\ required.identity = Contract!EdgeAt(i).required /\ required.environment # "build"
              /\ Contract!Serves(i, Contract!Required(Subject, slot))
            BY <1>2, <1>6, <1>8 DEF Contract!EdgeAt, edge
        <3> QED
            BY <1>3, <1>6, <2>1, <3>1, ZenonT(60) DEF Contract!Fault
    <2> QED
        BY <1>3, <2>2, <2>3 DEF Justified
<1>9. CASE ~WitnessAgrees(edge, current) /\ Refuse("witness differs")
    <2>1. outcome'.reason = "witness differs"
        BY <1>9 DEF Refuse
    <2>2. ~Contract!Witnesses(Subject, i, current)
        BY <1>1, <1>9, WitnessIsChecked DEF edge
    <2>3. ~Contract!Exact(Subject)
        BY <1>7, <2>2 DEF Contract!Answers
    <2>4. Contract!Fault(outcome'.reason)
        BY <1>2, <1>3, <1>6, <2>1, <2>2, Zenon DEF Contract!Fault
    <2> QED
        BY <1>3, <2>3, <2>4 DEF Justified
<1>10. CASE ~Fresh(edge) /\ Refuse("edge consumed twice")
    <2>1. outcome'.reason = "edge consumed twice"
        BY <1>10 DEF Refuse
    <2>2. TypeInv /\ SubjectInv /\ BoundInv
        BY <1>1, LoopSubject
    <2>3. PICK m \in DOMAIN inputs : inputs[m].requirement.identity = edge.identity
        BY <1>10, <2>2 DEF Fresh, BoundInv
    <2>4. Retains(inputs[m], Subject, requirements[m])
        BY <2>2 DEF BoundInv
    <2>5. inputs[m].requirement = edge
        <3>1. PICK j \in DOMAIN resolution.edges : inputs[m].requirement = resolution.edges[j]
            BY <2>4 DEF Retains, Range
        <3>2. <<resolution, subject_identity>> \in Calls
            BY DEF ContractInv
        <3>3. \A a, b \in DOMAIN resolution.edges :
                resolution.edges[a].identity = resolution.edges[b].identity
                    => resolution.edges[a] = resolution.edges[b]
            BY <3>2 DEF FaithfulEdges
        <3> QED
            BY <2>3, <3>1, <3>3 DEF edge
    <2>6. requirements[m].scope = current.scope /\ requirements[m].package = current.package
        <3>1. edge.scope = requirements[m].scope /\ edge.required = inputs[m].selection.identity
              /\ inputs[m].selection.package = requirements[m].package
              /\ inputs[m].selection \in Contract!Selected
            BY <2>4, <2>5 DEF Retains, Range, Contract!Selected
        <3>2. edge.scope = current.scope /\ required.package = current.package
            <4>1. i \in Matching(current) /\ \A n \in Named(edge.required) : n = k
                BY <1>5
            <4> QED
                BY <4>1 DEF Matching, Scanned, edge, required
        <3>3. inputs[m].selection = required
            BY <1>6, <3>1
        <3> QED
            BY <3>1, <3>2, <3>3
    <2>7. PICK h \in Bijection(1..Len(requirements), Contract!Slots(Subject)) :
            \A n \in 1..Len(requirements) : Contract!Required(Subject, h[n]) = requirements[n]
        BY <2>2, RequirementsAreSlots
    <2>8. /\ m \in 1..Len(requirements) /\ Len(inputs) + 1 \in 1..Len(requirements)
          /\ m # Len(inputs) + 1
        BY <1>1, <2>2 DEF TypeInv, TypeOK, Unbound
    <2>9. Contract!Twins(Subject)
        <3>1. /\ h[m] \in Contract!Slots(Subject) /\ h[Len(inputs) + 1] \in Contract!Slots(Subject)
              /\ h[m] # h[Len(inputs) + 1]
            BY <2>7, <2>8 DEF Bijection, Injection, IsInjective
        <3>2. /\ Contract!Required(Subject, h[m]) = requirements[m]
              /\ Contract!Required(Subject, h[Len(inputs) + 1]) = current
            BY <2>7, <2>8 DEF current
        <3> QED
            BY <2>6, <3>1, <3>2, Zenon DEF Contract!Twins
    <2>10. Contract!Fault(outcome'.reason)
        BY <1>3, <2>1, <2>9, Zenon DEF Contract!Fault
    <2> QED
        BY <1>3, <2>9, <2>10 DEF Justified, Contract!Exact
<1>11. CASE ~HasInputScope(current) /\ Refuse("not a build scope")
    <2>1. outcome'.reason = "not a build scope" /\ current.scope \notin {"build", "check"}
        BY <1>11 DEF Refuse, HasInputScope, InputScope
    <2>2. ~Contract!Exact(Subject)
        BY <1>7, <1>11 DEF HasInputScope
    <2>3. Contract!Fault(outcome'.reason)
        BY <1>2, <1>3, <2>1, Zenon DEF Contract!Fault
    <2> QED
        BY <1>3, <2>2, <2>3 DEF Justified
<1>12. CASE Refuse("digest failure")
    BY <1>12 DEF Refuse
<1> QED
    BY <1>4, <1>8, <1>9, <1>10, <1>11, <1>12 DEF edge, required

\* The edges the inputs hold are the only ones that serve the requirements bound.
LEMMA BoundEdges ==
    ASSUME ContractInv, pc = "match", ~Unbound
    PROVE  /\ Len(inputs) = Len(requirements)
           /\ \A slot \in Contract!Slots(Subject) : \E k \in DOMAIN inputs :
                Contract!Required(Subject, slot) = requirements[k]
           /\ \A k \in DOMAIN inputs : \E i \in DOMAIN resolution.edges : BoundBy(k, i)
<1>1. TypeInv /\ SubjectInv /\ BoundInv
    BY LoopSubject
<1>2. Len(inputs) = Len(requirements) /\ DOMAIN inputs = 1..Len(requirements)
    BY <1>1 DEF TypeInv, TypeOK, BoundInv, Unbound
<1>3. PICK h \in Bijection(1..Len(requirements), Contract!Slots(Subject)) :
        \A n \in 1..Len(requirements) : Contract!Required(Subject, h[n]) = requirements[n]
    BY <1>1, RequirementsAreSlots
<1>4. \A slot \in Contract!Slots(Subject) : \E k \in 1..Len(requirements) : h[k] = slot
    BY <1>3 DEF Bijection, Surjection
<1> QED
    BY <1>2, <1>3, <1>4 DEF ContractInv

\* An edge left over by the sweep serves no requirement.
LEMMA RefuseLeftoverJustified ==
    ASSUME ContractInv, RefuseLeftover
    PROVE  \/ Justified(outcome'.reason)
           \/ outcome'.reason = "digest failure"
<1>1. pc = "match" /\ ~Unbound
    BY DEF RefuseLeftover
<1>2. Contract!Subjects = {Subject} /\ Contract!FromCatalog(Subject) /\ BoundInv
    BY <1>1, LoopSubject
<1>3. CASE Undeclared # {} /\ Refuse("undeclared input")
    <2>1. outcome'.reason = "undeclared input"
        BY <1>3 DEF Refuse
    <2>2. PICK e \in Undeclared : TRUE
        BY <1>3
    <2>3. e \in Contract!DirectEdges /\ resolution.edges[e].identity \notin consumed
        BY <2>2 DEF Undeclared, Contract!DirectEdges, Contract!OwnEdges, Contract!EdgeAt
    <2>4. ASSUME NEW slot \in Contract!Slots(Subject),
                 Contract!Serves(e, Contract!Required(Subject, slot))
          PROVE  FALSE
        <3>1. PICK k \in DOMAIN inputs : Contract!Required(Subject, slot) = requirements[k]
            BY <1>1, BoundEdges
        <3>2. PICK i \in DOMAIN resolution.edges : BoundBy(k, i)
            BY <1>1, BoundEdges
        <3>3. e \in Matching(requirements[k])
            BY <2>3, <2>4, <3>1, MatchingServes DEF Contract!DirectEdges
        <3>4. inputs[k].requirement = resolution.edges[e]
            BY <3>2, <3>3 DEF BoundBy
        <3> QED
            BY <1>2, <2>3, <3>4 DEF BoundInv
    <2>5. ~Contract!Exact(Subject)
        BY <2>3, <2>4, ExactAnswers DEF Contract!Answers
    <2>6. Contract!Fault(outcome'.reason)
        BY <1>2, <2>1, <2>3, <2>4, Zenon DEF Contract!Fault
    <2> QED
        BY <1>2, <2>5, <2>6 DEF Justified
<1>4. CASE Refuse("digest failure")
    BY <1>4 DEF Refuse
<1> QED
    BY <1>3, <1>4 DEF RefuseLeftover

-----------------------------------------------------------------------------
(* What the code admits is what the contract accepts *)

\* The input the contract makes of a requirement and its edge is the one bound.
LEMMA ContractInput ==
    ASSUME ContractInv, pc = "match", NEW k \in DOMAIN inputs, NEW i, BoundBy(k, i),
           NEW slot, Contract!Required(Subject, slot) = requirements[k]
    PROVE  Contract!Input(Subject, slot, i) = inputs[k]
<1>1. TypeInv /\ BoundInv
    BY LoopSubject
<1>2. inputs[k] \in BuildInput
    BY <1>1 DEF TypeInv, TypeOK
<1>3. /\ inputs[k].scope = Contract!Required(Subject, slot).scope
      /\ inputs[k].requirement = Contract!EdgeAt(i)
    BY <1>1 DEF BoundInv, Retains, BoundBy, Contract!EdgeAt
<1>4. PICK n : Named(Contract!EdgeAt(i).required) = {n}
               /\ inputs[k].selection = resolution.selections[n]
    BY DEF BoundBy, Contract!EdgeAt
<1>5. {u \in Contract!Selected : u.identity = Contract!EdgeAt(i).required} = {inputs[k].selection}
    BY <1>4, NamedIsUnique
<1>6. inputs[k].identity = [scope |-> inputs[k].scope, edge |-> Contract!EdgeAt(i).identity,
                            selection |-> inputs[k].selection.identity]
    BY DEF BoundBy, Contract!EdgeAt, input_id
<1> DEFINE input(t) == [scope |-> Contract!Required(Subject, slot).scope,
                        requirement |-> Contract!EdgeAt(i), selection |-> t,
                        identity |-> [scope |-> Contract!Required(Subject, slot).scope,
                                      edge |-> Contract!EdgeAt(i).identity,
                                      selection |-> t.identity]]
<1>7. Contract!Input(Subject, slot, i) =
        CHOOSE x \in {input(t) : t \in {inputs[k].selection}} : TRUE
    BY <1>5 DEF Contract!Input
<1>8. input(inputs[k].selection) = inputs[k]
    BY <1>2, <1>3, <1>6 DEF BuildInput
<1>9. {input(t) : t \in {inputs[k].selection}} = {inputs[k]}
    BY <1>8
<1> QED
    BY <1>7, <1>9

\* The edge bound to a requirement is a direct edge that answers it.
LEMMA BoundAnswers ==
    ASSUME ContractInv, pc = "match", NEW k \in DOMAIN inputs,
           NEW i \in DOMAIN resolution.edges, BoundBy(k, i)
    PROVE  /\ i \in Contract!DirectEdges
           /\ Contract!Answers(Subject, i, requirements[k])
<1>1. TypeInv /\ BoundInv
    BY LoopSubject
<1>2. inputs[k] \in BuildInput /\ Retains(inputs[k], Subject, requirements[k])
    BY <1>1 DEF TypeInv, TypeOK, BoundInv
<1>3. i \in Contract!OwnEdges /\ Contract!Serves(i, requirements[k])
    BY MatchingServes DEF BoundBy
<1>4. Contract!EdgeAt(i).scope \in {"build", "check"}
    BY <1>2, <1>3 DEF BuildInput, InputScope, Retains, Contract!Serves
<1>5. PICK n : Named(Contract!EdgeAt(i).required) = {n}
               /\ inputs[k].selection = resolution.selections[n]
    BY DEF BoundBy, Contract!EdgeAt
<1>6. /\ Contract!Unique(Contract!EdgeAt(i).required)
      /\ \A t \in Contract!Selected :
            t.identity = Contract!EdgeAt(i).required => t.environment = "build"
    BY <1>2, <1>5, NamedIsUnique DEF Retains
<1>7. Contract!Witnesses(Subject, i, requirements[k])
    BY WitnessIsChecked DEF BoundBy
<1> QED
    BY <1>3, <1>4, <1>6, <1>7 DEF Contract!Answers, Contract!DirectEdges

\* The edges bound to the requirements are all direct edges, each once.
LEMMA BoundIsOneToOne ==
    ASSUME ContractInv, FaithfulEdges, pc = "match", ~Unbound, Undeclared = {}
    PROVE  \E e \in Bijection(1..Len(inputs), Contract!DirectEdges) :
                \A k \in 1..Len(inputs) : BoundBy(k, e[k])
<1> DEFINE n == Len(inputs)
           e == [k \in 1..n |-> CHOOSE i \in DOMAIN resolution.edges : BoundBy(k, i)]
<1>1. TypeInv /\ BoundInv /\ DOMAIN inputs = 1..n
    BY LoopSubject DEF TypeInv, TypeOK
<1>2. \A k \in 1..n : e[k] \in DOMAIN resolution.edges /\ BoundBy(k, e[k])
    BY <1>1, BoundEdges
<1> HIDE DEF e
<1>3. \A k \in 1..n : e[k] \in Contract!DirectEdges
    BY <1>1, <1>2, BoundAnswers
<1>4. e \in [1..n -> Contract!DirectEdges]
    BY <1>3 DEF e
<1>5. \A j, k \in 1..n : e[j] = e[k] => j = k
    BY <1>1, <1>2 DEF BoundInv, BoundBy
<1>6. \A d \in Contract!DirectEdges : \E k \in 1..n : e[k] = d
    <2> TAKE d \in Contract!DirectEdges
    <2>1. d \in DOMAIN resolution.edges /\ resolution.edges[d].identity \in consumed
        BY DEF Contract!DirectEdges, Contract!OwnEdges, Contract!EdgeAt, Undeclared
    <2>2. PICK k \in 1..n : inputs[k].requirement.identity = resolution.edges[d].identity
        BY <1>1, <2>1 DEF BoundInv
    <2>3. resolution.edges[e[k]].identity = resolution.edges[d].identity
        BY <1>2, <2>2 DEF BoundBy
    <2>4. resolution.edges[e[k]] = resolution.edges[d]
        <3>1. <<resolution, subject_identity>> \in Calls
            BY DEF ContractInv
        <3>2. \A a, b \in DOMAIN resolution.edges :
                resolution.edges[a].identity = resolution.edges[b].identity
                    => resolution.edges[a] = resolution.edges[b]
            BY <3>1 DEF FaithfulEdges
        <3> QED
            BY <1>2, <2>1, <2>3, <3>2
    <2>5. e[k] \in Matching(requirements[k])
        BY <1>2 DEF BoundBy
    <2>6. d \in Matching(requirements[k])
        BY <2>1, <2>4, <2>5 DEF Matching, Scanned
    <2> QED
        BY <1>2, <2>2, <2>6 DEF BoundBy
<1>7. e \in Bijection(1..n, Contract!DirectEdges)
    BY <1>4, <1>5, <1>6 DEF Bijection, Injection, Surjection, IsInjective
<1> QED
    BY <1>2, <1>7

\* What is admitted is a correspondence of the contract, in the order of identities.
LEMMA AdmitAccepts ==
    ASSUME ContractInv, FaithfulEdges, Admit PROVE Contract!Accept
<1> DEFINE n == Len(inputs)
           Slots == Contract!Slots(Subject)
<1>1. /\ pc = "match" /\ ~Unbound /\ Undeclared = {}
    BY DEF Admit
<1>2. /\ TypeInv /\ SubjectInv /\ BoundInv /\ Contract!Subjects = {Subject}
      /\ Contract!Unique(subject_identity) /\ Contract!Buildable(Subject)
    BY <1>1, LoopSubject
<1>3. /\ n \in Nat /\ DOMAIN inputs = 1..n /\ Len(requirements) = n
      /\ inputs \in Seq(BuildInput)
    BY <1>1, <1>2, BoundEdges DEF TypeInv, TypeOK
<1>4. PICK e \in Bijection(1..n, Contract!DirectEdges) : \A k \in 1..n : BoundBy(k, e[k])
    BY <1>1, BoundIsOneToOne
<1>5. PICK h \in Bijection(1..n, Slots) :
        \A k \in 1..n : Contract!Required(Subject, h[k]) = requirements[k]
    BY <1>2, <1>3, RequirementsAreSlots
<1>6. /\ \A k \in 1..n : h[k] \in Slots /\ e[k] \in Contract!DirectEdges
      /\ \A slot \in Slots : \E k \in 1..n : h[k] = slot
      /\ \A j, k \in 1..n : h[j] = h[k] \/ e[j] = e[k] => j = k
    BY <1>4, <1>5 DEF Bijection, Injection, Surjection, IsInjective
<1>7. PICK g \in Bijection(Slots, 1..n) : \A k \in 1..n : g[h[k]] = k
    <2>1. /\ Inverse(h, 1..n, Slots) \in Bijection(Slots, 1..n)
          /\ \A k \in 1..n : Inverse(h, 1..n, Slots)[h[k]] = k
        BY <1>5, Fun_BijInverse
    <2> QED
        BY <2>1
<1> DEFINE f == [slot \in Slots |-> e[g[slot]]]
<1>8. f \in Bijection(Slots, Contract!DirectEdges) /\ \A k \in 1..n : f[h[k]] = e[k]
    BY <1>4, <1>6, <1>7, Fun_BijTransitive
<1> HIDE DEF f
<1>9. f \in Contract!Correspondences(Subject)
    <2>1. \A slot \in Slots : Contract!Answers(Subject, f[slot], Contract!Required(Subject, slot))
        <3> TAKE slot \in Slots
        <3>1. PICK k \in 1..n : h[k] = slot
            BY <1>6
        <3>2. e[k] \in DOMAIN resolution.edges
            BY <1>6 DEF Contract!DirectEdges, Contract!OwnEdges
        <3>3. Contract!Answers(Subject, e[k], requirements[k])
            BY <1>1, <1>3, <1>4, <3>2, BoundAnswers
        <3> QED
            BY <1>5, <1>8, <3>1, <3>3
    <2> QED
        BY <1>8, <2>1, ContractOperators DEF Contract!Correspondences
<1>10. ~Contract!Twins(Subject)
    <2> SUFFICES ASSUME NEW a \in Slots, NEW b \in Slots, a # b,
                        Contract!Required(Subject, a).scope = Contract!Required(Subject, b).scope,
                        Contract!Required(Subject, a).package = Contract!Required(Subject, b).package
                 PROVE  FALSE
        BY DEF Contract!Twins
    <2>1. PICK j \in 1..n, k \in 1..n : h[j] = a /\ h[k] = b
        BY <1>6
    <2>2. requirements[j].scope = requirements[k].scope /\ requirements[j].package = requirements[k].package
        BY <1>5, <2>1
    <2>3. Matching(requirements[j]) = Matching(requirements[k])
        BY <2>2 DEF Matching, Scanned
    <2>4. e[j] = e[k]
        BY <1>4, <2>3 DEF BoundBy
    <2> QED
        BY <1>6, <2>1, <2>4
<1>11. Contract!Exact(Subject)
    BY <1>2, <1>9, <1>10 DEF Contract!Exact
<1>12. PICK sorted \in Sorted(inputs) :
        outcome' = [verdict |-> "admitted", subject |-> Subject,
                    resolution |-> resolution.identity,
                    inputs |-> sorted, identity |-> input_set_id(sorted)]
    BY DEF Admit, Subject
<1>13. PICK q \in Bijection(1..n, 1..n) :
        sorted \in Seq(BuildInput) /\ Len(sorted) = n /\ \A i \in 1..n : sorted[i] = inputs[q[i]]
    BY <1>3, ArrangementType DEF Sorted
<1> DEFINE listing == [i \in 1..n |-> h[q[i]]]
<1>14. listing \in Bijection(1..n, Slots)
    BY <1>5, <1>13, Fun_BijTransitive
<1>15. \A i \in 1..n : q[i] \in 1..n /\ listing[i] = h[q[i]]
    BY <1>13 DEF Bijection, Injection
<1>16. DOMAIN listing = 1..n /\ DOMAIN sorted = 1..n
    BY <1>13
<1> HIDE DEF listing
<1>17. Cardinality(Slots) = n
    BY <1>3, <1>14, FS_CountingElements DEF ExistsBijection
<1>18. listing \in Contract!Bijection(1..Contract!Cardinality(Slots), Slots)
    BY <1>14, <1>17, ContractOperators
<1>19. \A i \in 1..n : Contract!Input(Subject, listing[i], f[listing[i]]) = sorted[i]
    <2> TAKE i \in 1..n
    <2>1. f[listing[i]] = e[q[i]] /\ Contract!Required(Subject, listing[i]) = requirements[q[i]]
        BY <1>5, <1>8, <1>15
    <2>2. Contract!Input(Subject, listing[i], e[q[i]]) = inputs[q[i]]
        BY <1>1, <1>3, <1>4, <1>15, <2>1, ContractInput
    <2> QED
        BY <1>13, <2>1, <2>2
<1>20. [k \in DOMAIN listing |-> Contract!Input(Subject, listing[k], f[listing[k]])] = sorted
    BY <1>13, <1>16, <1>19
<1>21. Contract!Seal(Subject, f, listing) = outcome'
    <2>1. input_set_id(sorted) =
            [resolution |-> resolution.identity, subject |-> subject_identity,
             inputs |-> [i \in DOMAIN listing |-> sorted[i].identity]]
        BY <1>16 DEF input_set_id
    <2> QED
        BY <1>12, <1>20, <2>1 DEF Contract!Seal
<1>22. Contract!Ascending(sorted)
    <2> SUFFICES ASSUME NEW i \in 1..n, NEW j \in 1..n, i < j
                 PROVE  IdentityLess(sorted[i].identity, sorted[j].identity)
        BY <1>16 DEF Contract!Ascending
    <2>1. ~IdentityLess(sorted[j].identity, sorted[i].identity)
        BY <1>16 DEF Sorted
    <2>2. q[i] \in 1..n /\ q[j] \in 1..n /\ q[i] # q[j]
        BY <1>13 DEF Bijection, Injection, IsInjective
    <2>3. sorted[i] \in BuildInput /\ sorted[j] \in BuildInput
        BY <1>13
    <2>4. sorted[i].identity # sorted[j].identity
        <3>1. inputs[q[i]].requirement.identity # inputs[q[j]].requirement.identity
            BY <1>2, <1>3, <2>2 DEF BoundInv
        <3>2. \A k \in 1..n : inputs[k].identity.edge = inputs[k].requirement.identity
            <4> TAKE k \in 1..n
            <4>1. BoundBy(k, e[k])
                BY <1>4
            <4> QED
                BY <4>1 DEF BoundBy, input_id
        <3>3. sorted[i] = inputs[q[i]] /\ sorted[j] = inputs[q[j]]
            BY <1>13
        <3>4. inputs[q[i]].identity.edge # inputs[q[j]].identity.edge
            BY <2>2, <3>1, <3>2
        <3> QED
            BY <3>3, <3>4
    <2>5. sorted[i].identity \in InputIdentity /\ sorted[j].identity \in InputIdentity
        BY <2>3 DEF BuildInput
    <2> QED
        BY <2>1, <2>4, <2>5, IdentityLessAssumption
<1>23. Contract!Ascending(Contract!Seal(Subject, f, listing).inputs)
    BY <1>12, <1>21, <1>22
<1> QED
    BY <1>2, <1>9, <1>11, <1>18, <1>21, <1>23 DEF Contract!Accept

-----------------------------------------------------------------------------
(* The refinement *)

\* How an input was bound depends on what the loop does not change.
LEMMA BoundByIsFixed ==
    ASSUME UNCHANGED <<resolution, subject_identity, subject, requirements>>,
           NEW k, NEW i, BoundBy(k, i), inputs'[k] = inputs[k]
    PROVE  BoundBy(k, i)'
<1>1. \A id : Named(id)' = Named(id)
    BY DEF Named
<1>2. \A r : Matching(r)' = Matching(r)
    BY <1>1 DEF Matching, Scanned
<1>3. \A edge, r : WitnessAgrees(edge, r)' <=> WitnessAgrees(edge, r)
    BY DEF WitnessAgrees, Source
<1> QED
    BY <1>1, <1>2, <1>3 DEF BoundBy, input_id

\* A call starts with one of the calls asked about.
LEMMA InitContract == Init => ContractInv
<1> SUFFICES ASSUME Init PROVE ContractInv
    OBVIOUS
<1>1. <<resolution, subject_identity>> \in Calls
    BY CallsAssumption DEF Init
<1> QED
    BY <1>1, InitInv DEF Init, ContractInv

\* Every step keeps what the contract needs to know.
LEMMA NextContract == ContractInv /\ [Next]_vars => ContractInv'
<1> SUFFICES ASSUME ContractInv, [Next]_vars PROVE ContractInv'
    OBVIOUS
<1>1. Inv /\ Inv' /\ TypeInv /\ TypeInv'
    BY NextInv DEF ContractInv, Inv
<1>2. resolution' = resolution /\ subject_identity' = subject_identity
    <2>1. UNCHANGED arguments
        BY RefusalsRefuse DEF Next, AcceptSubject, Bind, Admit, Done, vars
    <2> QED
        BY <2>1 DEF arguments
<1>3. <<resolution, subject_identity>>' \in Calls
    BY <1>2 DEF ContractInv
<1>4. ASSUME pc' = "match", UNCHANGED <<pc, subject, requirements, inputs>>
      PROVE  /\ Named(subject_identity)' = {subject'}
             /\ ArchitecturesAgree(Subject)'
             /\ \A k \in DOMAIN inputs : \E i \in DOMAIN resolution.edges : BoundBy(k, i)'
    <2>1. /\ Named(subject_identity) = {subject} /\ ArchitecturesAgree(Subject)
          /\ \A k \in DOMAIN inputs : \E i \in DOMAIN resolution.edges : BoundBy(k, i)
        BY <1>4 DEF ContractInv
    <2>2. Named(subject_identity)' = {subject'} /\ ArchitecturesAgree(Subject)'
        BY <1>2, <1>4, <2>1 DEF Named, ArchitecturesAgree, Subject
    <2>3. \A k \in DOMAIN inputs, i \in DOMAIN resolution.edges : BoundBy(k, i) => BoundBy(k, i)'
        BY <1>2, <1>4, BoundByIsFixed
    <2> QED
        BY <2>1, <2>2, <2>3
<1>5. CASE RefuseSubject \/ RefuseScan \/ RefuseUnmatched \/ RefuseMatch \/ RefuseLeftover
    BY <1>1, <1>3, <1>5, RefusalsRefuse DEF Refuse, ContractInv
<1>6. CASE AcceptSubject
    <2>1. PICK i \in Named(subject_identity) :
            /\ Named(subject_identity) = {i}
            /\ ArchitecturesAgree(resolution.selections[i])
            /\ subject' = i
        BY <1>6 DEF AcceptSubject
    <2>2. Named(subject_identity)' = {subject'} /\ ArchitecturesAgree(Subject)'
        BY <1>2, <2>1 DEF Named, ArchitecturesAgree, Subject
    <2>3. DOMAIN inputs' = {}
        BY <1>1, <1>6 DEF AcceptSubject, Inv
    <2> QED
        BY <1>1, <1>3, <2>2, <2>3 DEF ContractInv
<1>7. CASE Bind
    <2>1. /\ UNCHANGED <<subject, requirements>> /\ pc = "match"
          /\ Named(subject_identity) = {subject} /\ ArchitecturesAgree(Subject)
          /\ \A k \in DOMAIN inputs : \E i \in DOMAIN resolution.edges : BoundBy(k, i)
        BY <1>7 DEF Bind, ContractInv
    <2>2. Named(subject_identity)' = {subject'} /\ ArchitecturesAgree(Subject)'
        BY <1>2, <2>1 DEF Named, ArchitecturesAgree, Subject
    <2>3. PICK i \in DOMAIN resolution.edges, n \in DOMAIN resolution.selections :
            /\ Found(i, n)
            /\ WitnessAgrees(resolution.edges[i], current)
            /\ inputs' = Append(inputs,
                    [scope |-> current.scope, requirement |-> resolution.edges[i],
                     selection |-> resolution.selections[n],
                     identity |-> input_id(current.scope, resolution.edges[i],
                                           resolution.selections[n])])
        BY <1>7 DEF Bind
    <2>4. /\ Len(inputs) \in Nat /\ DOMAIN inputs = 1..Len(inputs)
          /\ DOMAIN inputs' = 1..Len(inputs) + 1
          /\ \A k \in DOMAIN inputs : inputs'[k] = inputs[k]
          /\ inputs'[Len(inputs) + 1] =
                    [scope |-> current.scope, requirement |-> resolution.edges[i],
                     selection |-> resolution.selections[n],
                     identity |-> input_id(current.scope, resolution.edges[i],
                                           resolution.selections[n])]
        <3>1. inputs \in Seq(BuildInput)
            BY <1>1 DEF TypeInv, TypeOK
        <3> QED
            BY <2>3, <3>1
    <2>5. \A k \in DOMAIN inputs, j \in DOMAIN resolution.edges : BoundBy(k, j) => BoundBy(k, j)'
        BY <1>2, <2>1, <2>4, BoundByIsFixed
    <2>6. ASSUME NEW m, m = Len(inputs) + 1
          PROVE  BoundBy(m, i)'
        <3>1. /\ Matching(requirements[m]) = {i} /\ Named(resolution.edges[i].required) = {n}
              /\ WitnessAgrees(resolution.edges[i], requirements[m])
            BY <2>3, <2>6 DEF Found, current
        <3>2. \A id : Named(id)' = Named(id)
            BY <1>2 DEF Named
        <3>3. \A r : Matching(r)' = Matching(r)
            BY <1>2, <3>2 DEF Matching, Scanned
        <3>4. \A edge, r : WitnessAgrees(edge, r)' <=> WitnessAgrees(edge, r)
            BY <1>2, <2>1 DEF WitnessAgrees, Source
        <3>5. /\ inputs'[m].requirement = resolution.edges[i]
              /\ inputs'[m].selection = resolution.selections[n]
              /\ inputs'[m].identity =
                    input_id(inputs'[m].scope, resolution.edges[i], inputs'[m].selection)
            BY <2>4, <2>6
        <3> QED
            BY <1>2, <2>1, <2>3, <3>1, <3>2, <3>3, <3>4, <3>5 DEF BoundBy, input_id
    <2>7. \A k \in DOMAIN inputs' : k \in DOMAIN inputs \/ k = Len(inputs) + 1
        BY <2>4
    <2>8. \A k \in DOMAIN inputs' : \E j \in DOMAIN resolution.edges : BoundBy(k, j)'
        <3>1. \A k \in DOMAIN inputs : \E j \in DOMAIN resolution.edges : BoundBy(k, j)'
            BY <2>1, <2>5
        <3>2. \A k : k = Len(inputs) + 1 => BoundBy(k, i)'
            BY <2>6
        <3> QED
            BY <2>3, <2>7, <3>1, <3>2
    <2> QED
        BY <1>1, <1>2, <1>3, <2>2, <2>8 DEF ContractInv
<1>8. CASE Admit
    BY <1>1, <1>3, <1>8 DEF Admit, ContractInv
<1>9. CASE UNCHANGED vars
    <2>1. UNCHANGED <<pc, subject, requirements, inputs>>
        BY <1>9 DEF vars, locals
    <2> QED
        BY <1>1, <1>2, <1>3, <1>4, <2>1 DEF ContractInv
<1>10. CASE Done
    BY <1>9, <1>10 DEF Done
<1> QED
    BY <1>5, <1>6, <1>7, <1>8, <1>9, <1>10 DEF Next

\* Every step decides as the contract does, or is a stutter of it.
LEMMA StepDecides ==
    ASSUME ContractInv, FaithfulEdges, [Next]_vars
    PROVE  [Contract!Decide]_(Contract!vars)
<1>1. pc # "done" => outcome = [verdict |-> "pending"]
    BY DEF ContractInv, Inv, Pending
<1>2. CASE RefuseSubject \/ RefuseScan \/ RefuseUnmatched \/ RefuseMatch \/ RefuseLeftover
    <2>1. outcome'.verdict = "refused" /\ UNCHANGED <<resolution, subject_identity>>
        BY <1>2, RefusalsRefuse DEF Refuse, arguments
    <2>2. pc # "done"
        BY <1>2 DEF RefuseSubject, RefuseScan, RefuseUnmatched, RefuseMatch, RefuseLeftover
    <2>3. \/ Justified(outcome'.reason)
          \/ pc = "match" /\ outcome'.reason = "digest failure"
        <3>1. (RefuseMatch \/ RefuseLeftover) => pc = "match"
            BY DEF RefuseMatch, RefuseLeftover
        <3> QED
            BY <1>2, <3>1, RefuseSubjectJustified, RefuseScanJustified, RefuseUnmatchedJustified,
               RefuseMatchJustified, RefuseLeftoverJustified
    <2>4. pc = "match" => \E s \in Contract!Subjects : Contract!Buildable(s)
        BY LoopSubject
    <2>5. Contract!Reject
        BY <2>1, <2>3, <2>4 DEF Contract!Reject, Justified
    <2> QED
        BY <1>1, <2>1, <2>2, <2>5 DEF Contract!Decide
<1>3. CASE Admit
    <2>1. Contract!Accept /\ pc = "match" /\ UNCHANGED <<resolution, subject_identity>>
        BY <1>3, AdmitAccepts DEF Admit, arguments
    <2> QED
        BY <1>1, <2>1 DEF Contract!Decide
<1>4. CASE AcceptSubject \/ Bind \/ Done \/ UNCHANGED vars
    BY <1>4 DEF AcceptSubject, Bind, Done, vars, arguments, Contract!vars
<1> QED
    BY <1>2, <1>3, <1>4 DEF Next

\* For every set of calls whose edge identities name edges, admit decides as the
\* contract: it accepts exactly the resolutions with a one-to-one correspondence,
\* seals that correspondence in identity order, and refuses for a true reason.
THEOREM AdmitImplementsContract == FaithfulEdges /\ Spec => ImplementsContract
<1> SUFFICES ASSUME FaithfulEdges PROVE Spec => ImplementsContract
    OBVIOUS
<1>1. Init => Contract!Init
    BY DEF Init, Pending, Contract!Init
<1>2. ContractInv /\ [Next]_vars => [Contract!Decide]_(Contract!vars)
    BY StepDecides
<1> QED
    BY <1>1, <1>2, InitContract, NextContract, PTL DEF Spec, ImplementsContract, Contract!Spec

-----------------------------------------------------------------------------
(* The subject that admission accepts *)

\* The selections that have the identity the call names and whose authorities agree.
Authentic ==
    {s \in Selection :
        /\ s \in Range(resolution.selections)
        /\ s.identity = subject_identity
        /\ s.candidate # NoCandidate
        /\ CatalogAgrees(s)
        /\ ArchitecturesAgree(s)}

\* The subject is authentic from the first check of admit on.
SubjectIsAuthentic ==
    /\ pc = "match" => Subject \in Authentic
    /\ outcome.verdict = "admitted" => outcome.subject \in Authentic

AdmissionInv == Inv /\ SubjectIsAuthentic

\* Authenticity is about the arguments of the call.
LEMMA AuthenticIsFixed ==
    ASSUME UNCHANGED arguments PROVE Authentic' = Authentic
<1>1. resolution' = resolution /\ subject_identity' = subject_identity
    BY DEF arguments
<1> QED
    BY <1>1 DEF Authentic, CatalogAgrees, ArchitecturesAgree

\* A call of admit starts with nothing accepted.
LEMMA InitAdmission == Init => AdmissionInv
BY InitInv DEF AdmissionInv, SubjectIsAuthentic, Init, Pending

\* Every step of admit keeps the subject authentic.
LEMMA NextAdmission == AdmissionInv /\ [Next]_vars => AdmissionInv'
<1> SUFFICES ASSUME Inv, SubjectIsAuthentic, [Next]_vars PROVE SubjectIsAuthentic'
    BY NextInv DEF AdmissionInv
<1>1. CASE RefuseSubject \/ RefuseScan \/ RefuseUnmatched \/ RefuseMatch \/ RefuseLeftover
    BY <1>1, RefusalsRefuse DEF Refuse, SubjectIsAuthentic
<1>2. CASE AcceptSubject
    <2>1. PICK i \in Named(subject_identity) :
            /\ resolution.selections[i].candidate # NoCandidate
            /\ CatalogAgrees(resolution.selections[i])
            /\ ArchitecturesAgree(resolution.selections[i])
            /\ subject' = i
        BY <1>2 DEF AcceptSubject
    <2>2. resolution.selections \in Seq(Selection)
        BY DEF Inv, TypeInv, TypeOK, Resolution
    <2>3. /\ i \in DOMAIN resolution.selections
          /\ resolution.selections[i].identity = subject_identity
        BY DEF Named
    <2>4. resolution.selections[i] \in Authentic
        BY <2>1, <2>2, <2>3 DEF Authentic, Range
    <2>5. UNCHANGED arguments /\ outcome' = outcome /\ outcome = Pending
        BY <1>2 DEF AcceptSubject, Inv
    <2>6. Subject' = resolution.selections[i]
        BY <2>1, <2>5 DEF Subject, arguments
    <2>7. Subject' \in Authentic'
        BY <2>4, <2>5, <2>6, AuthenticIsFixed
    <2> QED
        BY <2>5, <2>7 DEF SubjectIsAuthentic, Pending, Authentic
<1>3. CASE Bind
    <2>1. UNCHANGED arguments /\ subject' = subject /\ outcome' = outcome /\ outcome = Pending
          /\ pc = "match"
        BY <1>3 DEF Bind, Inv
    <2>2. Subject' = Subject /\ Subject \in Authentic
        BY <2>1 DEF Subject, arguments, SubjectIsAuthentic
    <2>3. Subject' \in Authentic'
        BY <2>1, <2>2, AuthenticIsFixed
    <2> QED
        BY <2>1, <2>3 DEF SubjectIsAuthentic, Pending, Authentic
<1>4. CASE Admit
    <2>1. UNCHANGED arguments /\ pc = "match" /\ pc' = "done" /\ outcome'.subject = Subject
        BY <1>4 DEF Admit, Subject
    <2>2. outcome'.subject \in Authentic'
        BY <2>1, AuthenticIsFixed DEF SubjectIsAuthentic
    <2> QED
        BY <2>1, <2>2 DEF SubjectIsAuthentic, Authentic
<1>5. CASE UNCHANGED vars
    <2>1. UNCHANGED arguments /\ UNCHANGED <<pc, subject, outcome>> /\ Subject' = Subject
        BY <1>5 DEF vars, locals, arguments, Subject
    <2>2. /\ Subject \in Authentic => Subject' \in Authentic'
          /\ outcome.subject \in Authentic => outcome'.subject \in Authentic'
        BY <2>1, AuthenticIsFixed
    <2> QED
        BY <2>1, <2>2 DEF SubjectIsAuthentic
<1>6. CASE Done
    BY <1>5, <1>6 DEF Done
<1> QED
    BY <1>1, <1>2, <1>3, <1>4, <1>5, <1>6 DEF Next

-----------------------------------------------------------------------------
(* From the admitted set to the request *)

Admitted == outcome.verdict = "admitted"

\* The source allows what the binding retains.
Allowed ==
    /\ architectures = outcome.subject.architectures
    /\ allows_architecture(source.architectures.build, architectures.build)
    /\ allows_architecture(source.architectures.target, architectures.target)

\* The inputs are in the local handle until the constructor has them.
InFlight ==
    IF "inputs" \in unset THEN handle = outcome ELSE parameters.inputs = outcome

SealInv ==
    /\ AdmissionInv
    /\ RequestTypeOK
    /\ stage # "done" => request = Pending
    /\ stage \in {"admit", "select", "name"} => unset = {"subject", "inputs"}
    /\ stage \in {"select", "name", "construct"} =>
            Admitted /\ source = outcome.subject.candidate.source
    /\ stage \in {"select", "name"} => handle = outcome
    /\ stage \in {"name", "construct"} => Allowed
    /\ stage = "construct" =>
            /\ InFlight
            /\ "subject" \notin unset => parameters.subject = outcome.subject
            /\ parameters.identity = request_id(source, outcome, architectures, policy)
    /\ RequestIsExact
    /\ RefusalIsJust

\* The call of seal starts with the call of admit.
LEMMA InitSeal == SealInit => SealInv
<1> SUFFICES ASSUME SealInit PROVE SealInv
    OBVIOUS
<1>1. AdmissionInv
    BY InitAdmission DEF SealInit
<1>2. RequestTypeOK
    BY DEF SealInit, RequestTypeOK
<1>3. RequestIsExact /\ RefusalIsJust
    BY DEF SealInit, RequestIsExact, RefusalIsJust, Pending
<1> QED
    BY <1>1, <1>2, <1>3 DEF SealInit, SealInv

\* What an admitted set gives to the rest of seal.
LEMMA AdmittedParts ==
    ASSUME AdmissionInv, Admitted
    PROVE  /\ outcome \in InputSet
           /\ outcome.subject \in Selection
           /\ outcome.subject.candidate.source \in Snapshot
           /\ outcome.subject \in Authentic
           /\ OneToOne(outcome)
<1>1. outcome \in InputSet
    BY DEF AdmissionInv, Inv, TypeInv, TypeOK, Admitted, Pending, Refusal
<1>2. outcome.subject \in Authentic /\ OneToOne(outcome)
    BY DEF AdmissionInv, SubjectIsAuthentic, Inv, AdmittedIsOneToOne, Admitted
<1>3. outcome.subject \in Selection
    BY <1>2 DEF Authentic
<1>4. outcome.subject.candidate.source \in Snapshot
    BY <1>2, <1>3 DEF Authentic, Selection, Candidate
<1> QED
    BY <1>1, <1>2, <1>3, <1>4

\* A throw of seal keeps the invariant if its reason is just.
LEMMA RefuseRequestInv ==
    ASSUME SealInv, NEW reason \in RequestReason, RefuseRequest(reason), RefusalIsJust'
    PROVE  SealInv'
<1>1. AdmissionInv'
    <2>1. UNCHANGED vars
        BY DEF RefuseRequest
    <2> QED
        BY <2>1, NextAdmission DEF SealInv
<1>2. RequestTypeOK'
    <2>1. request' \in RefusedRequest
        BY DEF RefuseRequest, RefusedRequest
    <2> QED
        BY <2>1 DEF RefuseRequest, SealInv, RequestTypeOK, locals_of_seal, constructing
<1>3. RequestIsExact'
    BY DEF RefuseRequest, RequestIsExact
<1> QED
    BY <1>1, <1>2, <1>3 DEF SealInv, RefuseRequest

\* The sealed request is exact.
LEMMA SealRequestInv == ASSUME SealInv, SealRequest PROVE SealInv'
<1>1. /\ stage = "construct" /\ Admitted /\ AdmissionInv /\ RequestTypeOK
      /\ source = outcome.subject.candidate.source /\ Allowed
      /\ parameters.subject = outcome.subject /\ parameters.inputs = outcome
      /\ parameters.identity = request_id(source, outcome, architectures, policy)
    BY DEF SealInv, SealRequest, InFlight
<1>2. /\ UNCHANGED vars /\ UNCHANGED <<policy, locals_of_seal, constructing>>
      /\ stage' = "done"
      /\ request' = [verdict |-> "sealed", subject |-> outcome.subject,
                     source |-> source, inputs |-> outcome,
                     architectures |-> architectures, policy |-> policy,
                     identity |-> parameters.identity]
    BY <1>1 DEF SealRequest
<1>3. /\ resolution' = resolution /\ subject_identity' = subject_identity
      /\ outcome' = outcome /\ policy' = policy
    BY <1>2 DEF vars, arguments
<1>4. /\ outcome \in InputSet /\ outcome.subject \in Selection /\ source \in Snapshot
      /\ outcome.subject \in Authentic /\ OneToOne(outcome)
    BY <1>1, AdmittedParts
<1>5. AdmissionInv'
    BY <1>1, <1>2, NextAdmission
<1>6. RequestTypeOK'
    <2>1. architectures \in ArchitectureContext
        BY <1>1, <1>4 DEF Allowed, Selection
    <2>2. parameters.identity \in RequestIdentity
        BY <1>1, <1>4, <2>1
           DEF request_id, RequestIdentity, Snapshot, InputSet, ArchitectureContext, RequestTypeOK
    <2>3. request' \in Request
        BY <1>1, <1>2, <1>4, <2>1, <2>2 DEF Request, RequestTypeOK
    <2> QED
        BY <1>1, <1>2, <2>3 DEF RequestTypeOK, locals_of_seal, constructing
<1>7. RequestIsExact'
    <2>2. /\ architectures.build = resolution.request.build
          /\ architectures.target = resolution.request.target[outcome.subject.environment]
        BY <1>1, <1>4 DEF Allowed, Authentic, ArchitecturesAgree
    <2>3. SelectedBy(architectures, outcome.subject, source)
        BY <1>1, <2>2 DEF SelectedBy, Allowed, allows_architecture
    <2>4. SelectedBy(request.architectures, request.subject, request.source)'
        BY <1>2, <1>3, <2>3 DEF SelectedBy
    <2>5. source.identity = outcome.subject.source_snapshot
        BY <1>1, <1>4 DEF Authentic, CatalogAgrees
    <2>6. request'.identity =
                [source |-> outcome.subject.source_snapshot, inputs |-> outcome.identity,
                 build |-> resolution.request.build,
                 target |-> resolution.request.target[outcome.subject.environment],
                 policy |-> policy]
        BY <1>1, <1>2, <2>2, <2>5 DEF request_id
    <2>7. OneToOne(request'.inputs)
        BY <1>2, <1>4
    <2>8. UNCHANGED arguments
        BY <1>2 DEF vars
    <2> QED
        BY <1>1, <1>2, <1>3, <1>4, <2>4, <2>5, <2>6, <2>7, <2>8, OneToOneIsFixed
           DEF RequestIsExact, Authentic
<1>8. RefusalIsJust'
    BY <1>2 DEF RefusalIsJust
<1> QED
    BY <1>2, <1>5, <1>6, <1>7, <1>8 DEF SealInv

\* The throws of seal are just: each repeats that of admit, or names an
\* architecture the source declares otherwise.
LEMMA ThrowsInv ==
    ASSUME SealInv, AdmissionThrows \/ RefuseArchitectures \/ DigestFails PROVE SealInv'
<1>1. CASE AdmissionThrows
    <2>1. outcome \in Refusal
        BY <1>1 DEF AdmissionThrows, SealInv, AdmissionInv, Inv, TypeInv, TypeOK,
                    Pending, InputSet
    <2>2. outcome.reason \in RequestReason /\ RefuseRequest(outcome.reason)
        BY <1>1, <2>1 DEF AdmissionThrows, Refusal, RequestReason
    <2>3. request' = outcome /\ outcome' = outcome
        BY <2>1, <2>2 DEF RefuseRequest, Refusal, vars
    <2> QED
        BY <2>2, <2>3, RefuseRequestInv DEF RefusalIsJust
<1>2. CASE RefuseArchitectures
    <2> DEFINE declared == outcome.subject.candidate.source.architectures
               context == outcome.subject.architectures
    <2>1. /\ Admitted /\ source.architectures = declared
          /\ handle.subject.architectures = context
        BY <1>2 DEF SealInv, RefuseArchitectures
    <2>2. PICK reason \in {"build architecture not declared",
                           "target architecture not declared"} :
            /\ RefuseRequest(reason)
            /\ \/ /\ reason = "build architecture not declared"
                  /\ ~allows_architecture(declared.build, context.build)
               \/ /\ reason = "target architecture not declared"
                  /\ ~allows_architecture(declared.target, context.target)
        BY <1>2, <2>1 DEF RefuseArchitectures
    <2>3. reason \in RequestReason /\ request'.reason = reason /\ outcome' = outcome
        BY <2>2 DEF RequestReason, RefuseRequest, vars
    <2>4. RefusalIsJust'
        BY <2>1, <2>2, <2>3 DEF RefusalIsJust, Admitted, allows_architecture
    <2> QED
        BY <2>2, <2>3, <2>4, RefuseRequestInv
<1>3. CASE DigestFails
    <2>1. RefuseRequest("digest failure") /\ "digest failure" \in RequestReason
        BY <1>3 DEF DigestFails, RequestReason, Reason
    <2>2. RefusalIsJust'
        BY <2>1 DEF RefuseRequest, RefusalIsJust
    <2> QED
        BY <2>1, <2>2, RefuseRequestInv
<1> QED
    BY <1>1, <1>2, <1>3

\* A step that decides nothing leaves nothing to show of a request.
LEMMA PendingIsExact ==
    ASSUME SealInv, stage # "done", request' = request
    PROVE  RequestIsExact' /\ RefusalIsJust'
<1>1. request = Pending
    BY DEF SealInv
<1> QED
    BY <1>1 DEF RequestIsExact, RefusalIsJust, Pending

\* A step of seal outside admit keeps what admission established.
LEMMA AdmissionIsKept == ASSUME SealInv, UNCHANGED vars PROVE AdmissionInv' /\ outcome' = outcome
BY NextAdmission DEF SealInv, vars

\* The steps on the way to the request keep the admitted set and its parts.
LEMMA TakeInputsInv == ASSUME SealInv, TakeInputs PROVE SealInv'
<1>1. /\ stage = "admit" /\ stage' = "select" /\ Admitted /\ UNCHANGED vars
      /\ handle' = outcome /\ source' = outcome.subject.candidate.source
      /\ UNCHANGED <<policy, architectures, parameters, unset, request>>
    BY DEF TakeInputs, Admitted, constructing
<1>2. AdmissionInv' /\ outcome' = outcome
    BY <1>1, AdmissionIsKept
<1>3. RequestTypeOK'
    BY <1>1, AdmittedParts DEF SealInv, RequestTypeOK
<1>4. RequestIsExact' /\ RefusalIsJust'
    BY <1>1, PendingIsExact
<1> QED
    BY <1>1, <1>2, <1>3, <1>4 DEF SealInv, Admitted

LEMMA SelectArchitecturesInv == ASSUME SealInv, SelectArchitectures PROVE SealInv'
<1>1. /\ stage = "select" /\ stage' = "name" /\ UNCHANGED vars
      /\ UNCHANGED <<policy, handle, source, parameters, unset, request>>
      /\ architectures' = handle.subject.architectures
      /\ handle = outcome /\ Admitted
    BY DEF SelectArchitectures, SealInv, constructing
<1>2. AdmissionInv' /\ outcome' = outcome
    BY <1>1, AdmissionIsKept
<1>3. architectures' \in ArchitectureContext
    BY <1>1, AdmittedParts DEF SealInv, Selection
<1>4. RequestTypeOK'
    BY <1>1, <1>3 DEF SealInv, RequestTypeOK
<1>5. Allowed'
    BY <1>1, <1>2 DEF SelectArchitectures, Allowed, allows_architecture
<1>6. RequestIsExact' /\ RefusalIsJust'
    BY <1>1, PendingIsExact
<1> QED
    BY <1>1, <1>2, <1>4, <1>5, <1>6 DEF SealInv, Admitted

LEMMA NameRequestInv == ASSUME SealInv, NameRequest PROVE SealInv'
<1> DEFINE identity == request_id(source, handle, architectures, policy)
<1>1. /\ stage = "name" /\ stage' = "construct" /\ UNCHANGED vars
      /\ UNCHANGED <<policy, handle, source, architectures, unset, request>>
      /\ parameters' = [parameters EXCEPT !.identity = identity]
      /\ handle = outcome /\ Admitted /\ Allowed /\ unset = {"subject", "inputs"}
    BY DEF NameRequest, SealInv, locals_of_seal
<1>2. AdmissionInv' /\ outcome' = outcome
    BY <1>1, AdmissionIsKept
<1>3. identity \in RequestIdentity
    <2>1. outcome \in InputSet /\ source \in Snapshot
        BY <1>1, AdmittedParts DEF SealInv
    <2>2. architectures \in ArchitectureContext
        BY <1>1, AdmittedParts DEF SealInv, Allowed, Selection
    <2> QED
        BY <1>1, <2>1, <2>2 DEF request_id, RequestIdentity, Snapshot, InputSet,
                                ArchitectureContext, SealInv, RequestTypeOK
<1>4. RequestTypeOK' /\ parameters'.identity = identity
    BY <1>1, <1>3 DEF SealInv, RequestTypeOK
<1>5. Allowed'
    BY <1>1, <1>2 DEF Allowed, allows_architecture
<1>6. parameters'.identity = request_id(source, outcome, architectures, policy)'
    BY <1>1, <1>2, <1>4 DEF request_id
<1>7. RequestIsExact' /\ RefusalIsJust'
    BY <1>1, PendingIsExact
<1> QED
    BY <1>1, <1>2, <1>4, <1>5, <1>6, <1>7 DEF SealInv, Admitted, InFlight

\* The two arguments may be constructed in either order: the reference is to the
\* admitted set wherever it was moved.
LEMMA ConstructSubjectInv == ASSUME SealInv, ConstructSubject PROVE SealInv'
<1>1. /\ stage = "construct" /\ stage' = stage /\ UNCHANGED vars
      /\ UNCHANGED <<policy, handle, source, architectures, request>>
      /\ parameters' = [parameters EXCEPT !.subject = outcome.subject]
      /\ unset' = unset \ {"subject"}
      /\ Admitted /\ Allowed /\ InFlight
      /\ parameters.identity = request_id(source, outcome, architectures, policy)
      /\ RequestTypeOK
    BY DEF ConstructSubject, SealInv, locals_of_seal, Referent
<1>2. AdmissionInv' /\ outcome' = outcome
    BY <1>1, AdmissionIsKept
<1>3. outcome.subject \in Selection
    BY <1>1, AdmittedParts DEF SealInv
<1>4. /\ RequestTypeOK' /\ parameters'.subject = outcome.subject
      /\ parameters'.identity = parameters.identity /\ parameters'.inputs = parameters.inputs
    BY <1>1, <1>3 DEF RequestTypeOK
<1>5. Allowed'
    BY <1>1, <1>2 DEF Allowed, allows_architecture
<1>6. parameters'.identity = request_id(source, outcome, architectures, policy)'
    BY <1>1, <1>2, <1>4 DEF request_id
<1>7. InFlight'
    BY <1>1, <1>2, <1>4 DEF InFlight
<1>8. RequestIsExact' /\ RefusalIsJust'
    BY <1>1, PendingIsExact
<1> QED
    BY <1>1, <1>2, <1>4, <1>5, <1>6, <1>7, <1>8 DEF SealInv, Admitted

LEMMA ConstructInputsInv == ASSUME SealInv, ConstructInputs PROVE SealInv'
<1>1. /\ stage = "construct" /\ stage' = stage /\ UNCHANGED vars
      /\ UNCHANGED <<policy, source, architectures, request>>
      /\ parameters' = [parameters EXCEPT !.inputs = outcome]
      /\ unset' = unset \ {"inputs"} /\ handle' = Null
      /\ Admitted /\ Allowed
      /\ "subject" \notin unset => parameters.subject = outcome.subject
      /\ parameters.identity = request_id(source, outcome, architectures, policy)
      /\ RequestTypeOK
    BY DEF ConstructInputs, SealInv, InFlight
<1>2. AdmissionInv' /\ outcome' = outcome
    BY <1>1, AdmissionIsKept
<1>3. outcome \in InputSet
    BY <1>1, AdmittedParts DEF SealInv
<1>4. /\ RequestTypeOK' /\ parameters'.inputs = outcome
      /\ parameters'.identity = parameters.identity /\ parameters'.subject = parameters.subject
    BY <1>1, <1>3 DEF RequestTypeOK
<1>5. Allowed'
    BY <1>1, <1>2 DEF Allowed, allows_architecture
<1>6. parameters'.identity = request_id(source, outcome, architectures, policy)'
    BY <1>1, <1>2, <1>4 DEF request_id
<1>7. InFlight'
    BY <1>1, <1>2, <1>4 DEF InFlight
<1>8. RequestIsExact' /\ RefusalIsJust'
    BY <1>1, PendingIsExact
<1> QED
    BY <1>1, <1>2, <1>4, <1>5, <1>6, <1>7, <1>8 DEF SealInv, Admitted

\* While admit runs, seal has only its policy.
LEMMA AdmittingInv == ASSUME SealInv, Admitting PROVE SealInv'
<1>1. /\ stage = "admit" /\ stage' = stage /\ Next
      /\ UNCHANGED <<policy, handle, source, architectures, parameters, unset, request>>
    BY DEF Admitting, sealing, locals_of_seal, constructing
<1>2. AdmissionInv'
    BY <1>1, NextAdmission DEF SealInv
<1>3. RequestTypeOK'
    BY <1>1 DEF SealInv, RequestTypeOK
<1>4. RequestIsExact' /\ RefusalIsJust'
    BY <1>1, PendingIsExact
<1> QED
    BY <1>1, <1>2, <1>3, <1>4 DEF SealInv

\* When nothing happens, a sealed request stays what it was.
LEMMA StutterInv == ASSUME SealInv, UNCHANGED sealVars PROVE SealInv'
<1>1. /\ UNCHANGED vars /\ UNCHANGED <<resolution, subject_identity, outcome>>
      /\ UNCHANGED arguments
      /\ UNCHANGED <<policy, stage, handle, source, architectures, parameters, unset, request>>
    BY DEF sealVars, sealing, locals_of_seal, constructing, vars, arguments
<1>2. AdmissionInv'
    BY <1>1, AdmissionIsKept
<1>3. RequestTypeOK'
    BY <1>1 DEF SealInv, RequestTypeOK
<1>4. OneToOne(request.inputs) => OneToOne(request.inputs)'
    BY <1>1, OneToOneIsFixed
<1>5. RequestIsExact'
    BY <1>1, <1>4 DEF SealInv, RequestIsExact, SelectedBy
<1>6. RefusalIsJust'
    BY <1>1 DEF SealInv, RefusalIsJust
<1>7. (Allowed => Allowed') /\ (InFlight => InFlight')
    BY <1>1 DEF Allowed, InFlight, allows_architecture
<1>8. request_id(source, outcome, architectures, policy)'
        = request_id(source, outcome, architectures, policy)
    BY <1>1 DEF request_id
<1> QED
    BY <1>1, <1>2, <1>3, <1>5, <1>6, <1>7, <1>8 DEF SealInv, Admitted

\* Every step of seal keeps the invariant.
LEMMA NextSeal == SealInv /\ [SealNext]_sealVars => SealInv'
<1> SUFFICES ASSUME SealInv, [SealNext]_sealVars PROVE SealInv'
    OBVIOUS
<1>1. CASE Admitting
    BY <1>1, AdmittingInv
<1>2. CASE AdmissionThrows \/ RefuseArchitectures \/ DigestFails
    BY <1>2, ThrowsInv
<1>3. CASE TakeInputs
    BY <1>3, TakeInputsInv
<1>4. CASE SelectArchitectures
    BY <1>4, SelectArchitecturesInv
<1>5. CASE NameRequest
    BY <1>5, NameRequestInv
<1>6. CASE ConstructSubject
    BY <1>6, ConstructSubjectInv
<1>7. CASE ConstructInputs
    BY <1>7, ConstructInputsInv
<1>8. CASE SealRequest
    BY <1>8, SealRequestInv
<1>9. CASE Returned \/ UNCHANGED sealVars
    BY <1>9, StutterInv DEF Returned
<1> QED
    BY <1>1, <1>2, <1>3, <1>4, <1>5, <1>6, <1>7, <1>8, <1>9 DEF SealNext

-----------------------------------------------------------------------------

\* The inductive invariant of seal.
THEOREM SealInvariant == SealSpec => []SealInv
BY InitSeal, NextSeal, PTL DEF SealSpec

\* Every state of every call of seal is typed: no part of a sealed request is Null.
THEOREM RequestTypeCorrect == SealSpec => []RequestTypeOK
<1>1. SealInv => RequestTypeOK
    BY DEF SealInv
<1> QED
    BY <1>1, SealInvariant, PTL

\* Whatever the resolution and in whatever order the constructor's arguments are
\* made, a sealed request is exactly what the call names.
THEOREM RequestIsExactHolds == SealSpec => []RequestIsExact
<1>1. SealInv => RequestIsExact
    BY DEF SealInv
<1> QED
    BY <1>1, SealInvariant, PTL

\* seal refuses only what admit refuses and architectures declared otherwise.
THEOREM RefusalIsJustHolds == SealSpec => []RefusalIsJust
<1>1. SealInv => RefusalIsJust
    BY DEF SealInv
<1> QED
    BY <1>1, SealInvariant, PTL

=============================================================================
