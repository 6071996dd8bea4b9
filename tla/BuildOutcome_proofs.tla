------------------------- MODULE BuildOutcome_proofs -------------------------
(***************************************************************************)
(* Proofs that identities bind the values they are derived from, for any   *)
(* number of clients and every set of arguments.  An identity is the record*)
(* of what is hashed; what is shown is that nothing a value retains is left*)
(* out of that record, directly or through the identity of a part.         *)
(***************************************************************************)
EXTENDS BuildOutcome, TLAPS

-----------------------------------------------------------------------------
(* The values the factories can make *)

Environments ==
    {[parallelism |-> jobs, file_creation_mask |-> mask, source_date_epoch |-> epoch,
      identity |-> environment_id(jobs, mask, epoch)] :
        jobs \in Parallelism, mask \in Mask, epoch \in Epoch}

Policies ==
    {[environment |-> e, output_layout |-> "package-root",
      identity |-> policy_id(e, "package-root")] : e \in Environments}

RequestIdentity(a, p) == [authority |-> a, policy |-> p.identity]

Requests ==
    {[authority |-> a, policy |-> p, identity |-> RequestIdentity(a, p)] :
        a \in Authority, p \in Policies}

Artifacts ==
    {[encoding |-> "package-tar", compression |-> z, byte_count |-> n,
      complete_digest |-> d, identity |-> artifact_id("package-tar", z, n, d)] :
        z \in Compressions, n \in Size, d \in Digest}

Successes ==
    {[outcome |-> "succeeded", request |-> r, execution |-> x, payload |-> m,
      artifact |-> a, binding |-> binding_id(r, m, a), failure |-> Absent,
      identity |-> success_id(r, m, a, binding_id(r, m, a), x)] :
        r \in Requests, m \in Payload, a \in Artifacts, x \in Evidence}

Failures ==
    {[outcome |-> "failed", request |-> r, execution |-> x, payload |-> Absent,
      artifact |-> Absent, binding |-> Absent, failure |-> f,
      identity |-> failure_id(r, x, f)] :
        r \in Requests, x \in Evidence, f \in Evidence}

Results == Successes \cup Failures

\* Identities determine the values of S.
Bound(S) == \A v, w \in S : v.identity = w.identity => v = w

-----------------------------------------------------------------------------
(* Each kind of value is bound, given the kinds it is made of *)

\* An environment policy is its three numbers.
LEMMA EnvironmentsBound == Bound(Environments)
<1> SUFFICES ASSUME NEW v \in Environments, NEW w \in Environments, v.identity = w.identity
             PROVE  v = w
    BY DEF Bound
<1>1. PICK j1 \in Parallelism, m1 \in Mask, e1 \in Epoch :
        v = [parallelism |-> j1, file_creation_mask |-> m1, source_date_epoch |-> e1,
             identity |-> environment_id(j1, m1, e1)]
    BY DEF Environments
<1>2. PICK j2 \in Parallelism, m2 \in Mask, e2 \in Epoch :
        w = [parallelism |-> j2, file_creation_mask |-> m2, source_date_epoch |-> e2,
             identity |-> environment_id(j2, m2, e2)]
    BY DEF Environments
<1>3. environment_id(j1, m1, e1) = environment_id(j2, m2, e2)
    BY <1>1, <1>2
<1>4. j1 = j2 /\ m1 = m2 /\ e1 = e2
    BY <1>3 DEF environment_id
<1> QED
    BY <1>1, <1>2, <1>4

\* A build policy is bound through the identity of its environment.
LEMMA PoliciesBound == Bound(Policies)
<1> SUFFICES ASSUME NEW v \in Policies, NEW w \in Policies, v.identity = w.identity
             PROVE  v = w
    BY DEF Bound
<1>1. PICK d \in Environments :
        v = [environment |-> d, output_layout |-> "package-root",
             identity |-> policy_id(d, "package-root")]
    BY DEF Policies
<1>2. PICK e \in Environments :
        w = [environment |-> e, output_layout |-> "package-root",
             identity |-> policy_id(e, "package-root")]
    BY DEF Policies
<1>3. d.identity = e.identity
    BY <1>1, <1>2 DEF policy_id
<1>4. d = e
    BY <1>3, EnvironmentsBound DEF Bound
<1> QED
    BY <1>1, <1>2, <1>4

\* A request is bound through its authority and the identity of its policy.
LEMMA RequestsBound == Bound(Requests)
<1> SUFFICES ASSUME NEW v \in Requests, NEW w \in Requests, v.identity = w.identity
             PROVE  v = w
    BY DEF Bound
<1>1. PICK a1 \in Authority, p1 \in Policies :
        v = [authority |-> a1, policy |-> p1, identity |-> RequestIdentity(a1, p1)]
    BY DEF Requests
<1>2. PICK a2 \in Authority, p2 \in Policies :
        w = [authority |-> a2, policy |-> p2, identity |-> RequestIdentity(a2, p2)]
    BY DEF Requests
<1>3. a1 = a2 /\ p1.identity = p2.identity
    BY <1>1, <1>2 DEF RequestIdentity
<1>4. p1 = p2
    BY <1>3, PoliciesBound DEF Bound
<1> QED
    BY <1>1, <1>2, <1>3, <1>4

\* An artifact is its encoding, compression, size and digest.
LEMMA ArtifactsBound == Bound(Artifacts)
<1> SUFFICES ASSUME NEW v \in Artifacts, NEW w \in Artifacts, v.identity = w.identity
             PROVE  v = w
    BY DEF Bound
<1>1. PICK z1 \in Compressions, n1 \in Size, d1 \in Digest :
        v = [encoding |-> "package-tar", compression |-> z1, byte_count |-> n1,
             complete_digest |-> d1, identity |-> artifact_id("package-tar", z1, n1, d1)]
    BY DEF Artifacts
<1>2. PICK z2 \in Compressions, n2 \in Size, d2 \in Digest :
        w = [encoding |-> "package-tar", compression |-> z2, byte_count |-> n2,
             complete_digest |-> d2, identity |-> artifact_id("package-tar", z2, n2, d2)]
    BY DEF Artifacts
<1>3. z1 = z2 /\ n1 = n2 /\ d1 = d2
    BY <1>1, <1>2 DEF artifact_id, to_string, Compressions
<1> QED
    BY <1>1, <1>2, <1>3

\* A success is bound through its request, its payload and its artifact.
LEMMA SuccessesBound ==
    ASSUME NEW v \in Successes, NEW w \in Successes
    PROVE  /\ v.identity = w.identity => v = w
           /\ v.binding = w.binding
                <=> <<v.request, v.payload, v.artifact>> = <<w.request, w.payload, w.artifact>>
           /\ v.execution # w.execution => v.identity # w.identity
<1>1. PICK r1 \in Requests, m1 \in Payload, a1 \in Artifacts, x1 \in Evidence :
        v = [outcome |-> "succeeded", request |-> r1, execution |-> x1, payload |-> m1,
             artifact |-> a1, binding |-> binding_id(r1, m1, a1), failure |-> Absent,
             identity |-> success_id(r1, m1, a1, binding_id(r1, m1, a1), x1)]
    BY DEF Successes
<1>2. PICK r2 \in Requests, m2 \in Payload, a2 \in Artifacts, x2 \in Evidence :
        w = [outcome |-> "succeeded", request |-> r2, execution |-> x2, payload |-> m2,
             artifact |-> a2, binding |-> binding_id(r2, m2, a2), failure |-> Absent,
             identity |-> success_id(r2, m2, a2, binding_id(r2, m2, a2), x2)]
    BY DEF Successes
<1>3. r1.identity = r2.identity => r1 = r2
    BY RequestsBound DEF Bound
<1>4. a1.identity = a2.identity => a1 = a2
    BY ArtifactsBound DEF Bound
<1>5. v.identity = w.identity =>
        r1.identity = r2.identity /\ m1 = m2 /\ a1.identity = a2.identity /\ x1 = x2
    BY <1>1, <1>2 DEF success_id
<1>6. binding_id(r1, m1, a1) = binding_id(r2, m2, a2) =>
        r1.identity = r2.identity /\ m1 = m2 /\ a1.identity = a2.identity
    BY DEF binding_id
<1>7. v.identity = w.identity => v = w
    BY <1>1, <1>2, <1>3, <1>4, <1>5
<1>8. v.binding = w.binding <=> r1 = r2 /\ m1 = m2 /\ a1 = a2
    BY <1>1, <1>2, <1>3, <1>4, <1>6
<1> QED
    BY <1>1, <1>2, <1>5, <1>7, <1>8

\* A failure is bound through its request and its evidence, and is no success.
LEMMA ResultsBound == Bound(Results)
<1> SUFFICES ASSUME NEW v \in Results, NEW w \in Results, v.identity = w.identity
             PROVE  v = w
    BY DEF Bound
<1>1. \A s \in Successes : s.identity.outcome = "succeeded"
    BY DEF Successes, success_id
<1>2. \A f \in Failures : f.identity.outcome = "failed"
    BY DEF Failures, failure_id
<1>3. CASE v \in Successes /\ w \in Successes
    BY <1>3, SuccessesBound
<1>4. CASE v \in Failures /\ w \in Failures
    <2>1. PICK r1 \in Requests, x1 \in Evidence, f1 \in Evidence :
            v = [outcome |-> "failed", request |-> r1, execution |-> x1,
                 payload |-> Absent, artifact |-> Absent, binding |-> Absent,
                 failure |-> f1, identity |-> failure_id(r1, x1, f1)]
        BY <1>4 DEF Failures
    <2>2. PICK r2 \in Requests, x2 \in Evidence, f2 \in Evidence :
            w = [outcome |-> "failed", request |-> r2, execution |-> x2,
                 payload |-> Absent, artifact |-> Absent, binding |-> Absent,
                 failure |-> f2, identity |-> failure_id(r2, x2, f2)]
        BY <1>4 DEF Failures
    <2>3. r1.identity = r2.identity /\ x1 = x2 /\ f1 = f2
        BY <2>1, <2>2 DEF failure_id
    <2>4. r1 = r2
        BY <2>3, RequestsBound DEF Bound
    <2> QED
        BY <2>1, <2>2, <2>3, <2>4
<1> QED
    BY <1>1, <1>2, <1>3, <1>4 DEF Results

-----------------------------------------------------------------------------
(* What the clients hold *)

Held(family, S) == family \in [Client -> S \cup {Absent}]

\* Every value comes from its factory, and the next call has the values it needs.
Inv ==
    /\ stage \in [Client -> {"environment", "policy", "request", "artifact", "result", "done"}]
    /\ Held(environment, Environments)
    /\ Held(policy, Policies)
    /\ Held(request, Requests)
    /\ Held(artifact, Artifacts)
    /\ Held(result, Results)
    /\ \A c \in Client :
          /\ stage[c] = "policy" => environment[c] \in Environments
          /\ stage[c] = "request" => policy[c] \in Policies
          /\ stage[c] \in {"artifact", "result"} => request[c] \in Requests
          /\ stage[c] = "result" => artifact[c] \in Artifacts

\* A client starts with nothing.
LEMMA InitInv == Init => Inv
BY DEF Init, Inv, Held

\* An exception leaves the values made so far.
LEMMA ThrowsInv ==
    ASSUME Inv, NEW c \in Client, NEW from, NEW reason, Throws(c, from, reason)
    PROVE  Inv'
BY DEF Throws, Goes, made, Inv, Held

\* Each factory makes a value of its kind.
LEMMA FactoriesInv ==
    ASSUME Inv, NEW c \in Client,
           \/ hermetic(c) \/ make_policy(c) \/ seal(c) \/ make_artifact(c)
           \/ succeeded(c) \/ failed(c)
    PROVE  Inv'
<1>1. CASE hermetic(c)
    <2>1. PICK jobs \in Parallelism, mask \in Mask, epoch \in Epoch :
            environment' = [environment EXCEPT ![c] =
                [parallelism |-> jobs, file_creation_mask |-> mask,
                 source_date_epoch |-> epoch,
                 identity |-> environment_id(jobs, mask, epoch)]]
        BY <1>1 DEF hermetic
    <2>2. [parallelism |-> jobs, file_creation_mask |-> mask, source_date_epoch |-> epoch,
           identity |-> environment_id(jobs, mask, epoch)] \in Environments
        BY DEF Environments
    <2> QED
        BY <1>1, <2>1, <2>2 DEF hermetic, Goes, Inv, Held
<1>2. CASE make_policy(c)
    <2> DEFINE p == [environment |-> environment[c], output_layout |-> "package-root",
                     identity |-> policy_id(environment[c], "package-root")]
    <2>1. p \in Policies
        BY <1>2 DEF make_policy, Goes, Inv, Policies
    <2> HIDE DEF p
    <2>2. policy' = [policy EXCEPT ![c] = p]
        BY <1>2 DEF make_policy, p
    <2> QED
        BY <1>2, <2>1, <2>2 DEF make_policy, Goes, Inv, Held
<1>3. CASE seal(c)
    <2>1. PICK authority \in Authority :
            request' = [request EXCEPT ![c] =
                [authority |-> authority, policy |-> policy[c],
                 identity |-> [authority |-> authority, policy |-> policy[c].identity]]]
        BY <1>3 DEF seal
    <2>2. policy[c] \in Policies
        BY <1>3 DEF seal, Goes, Inv
    <2> DEFINE value == [authority |-> authority, policy |-> policy[c],
                         identity |-> RequestIdentity(authority, policy[c])]
    <2>3. value \in Requests
        BY <2>2 DEF Requests
    <2>4. request' = [request EXCEPT ![c] = value]
        BY <2>1 DEF RequestIdentity
    <2> HIDE DEF value
    <2> QED
        BY <1>3, <2>3, <2>4 DEF seal, Goes, Inv, Held
<1>4. CASE make_artifact(c)
    <2>1. PICK z \in Compressions, n \in Size, d \in Digest :
            artifact' = [artifact EXCEPT ![c] =
                [encoding |-> "package-tar", compression |-> z, byte_count |-> n,
                 complete_digest |-> d, identity |-> artifact_id("package-tar", z, n, d)]]
        BY <1>4 DEF make_artifact, IsSupported
    <2>2. [encoding |-> "package-tar", compression |-> z, byte_count |-> n,
           complete_digest |-> d, identity |-> artifact_id("package-tar", z, n, d)]
            \in Artifacts
        BY DEF Artifacts
    <2> QED
        BY <1>4, <2>1, <2>2 DEF make_artifact, Goes, Inv, Held
<1>5. CASE succeeded(c)
    <2>1. request[c] \in Requests /\ artifact[c] \in Artifacts
        BY <1>5 DEF succeeded, Goes, Inv
    <2>2. PICK m \in Payload, x \in Evidence :
            result' = [result EXCEPT ![c] =
                [outcome |-> "succeeded", request |-> request[c], execution |-> x,
                 payload |-> m, artifact |-> artifact[c],
                 binding |-> binding_id(request[c], m, artifact[c]), failure |-> Absent,
                 identity |-> success_id(request[c], m, artifact[c],
                                         binding_id(request[c], m, artifact[c]), x)]]
        BY <1>5 DEF succeeded
    <2> DEFINE value ==
            [outcome |-> "succeeded", request |-> request[c], execution |-> x,
             payload |-> m, artifact |-> artifact[c],
             binding |-> binding_id(request[c], m, artifact[c]), failure |-> Absent,
             identity |-> success_id(request[c], m, artifact[c],
                                     binding_id(request[c], m, artifact[c]), x)]
    <2>3. value \in Successes
        BY <2>1 DEF Successes
    <2>4. result' = [result EXCEPT ![c] = value]
        BY <2>2
    <2> HIDE DEF value
    <2> QED
        BY <1>5, <2>3, <2>4 DEF succeeded, Goes, Inv, Held, Results
<1>6. CASE failed(c)
    <2>1. request[c] \in Requests
        BY <1>6 DEF failed, Inv
    <2>2. PICK x \in Evidence, f \in Evidence :
            result' = [result EXCEPT ![c] =
                [outcome |-> "failed", request |-> request[c], execution |-> x,
                 payload |-> Absent, artifact |-> Absent, binding |-> Absent,
                 failure |-> f, identity |-> failure_id(request[c], x, f)]]
        BY <1>6 DEF failed
    <2> DEFINE value ==
            [outcome |-> "failed", request |-> request[c], execution |-> x,
             payload |-> Absent, artifact |-> Absent, binding |-> Absent,
             failure |-> f, identity |-> failure_id(request[c], x, f)]
    <2>3. value \in Failures
        BY <2>1 DEF Failures
    <2>4. result' = [result EXCEPT ![c] = value]
        BY <2>2
    <2> HIDE DEF value
    <2> QED
        BY <1>6, <2>3, <2>4 DEF failed, Inv, Held, Results
<1> QED
    BY <1>1, <1>2, <1>3, <1>4, <1>5, <1>6

\* Every step of every client keeps the invariant.
LEMMA NextInv == Inv /\ [Next]_vars => Inv'
<1> SUFFICES ASSUME Inv, [Next]_vars PROVE Inv'
    OBVIOUS
<1>1. ASSUME NEW c \in Client,
             \/ RefuseEnvironment(c) \/ RefusePolicy(c) \/ RefuseArtifact(c)
             \/ CallThrows(c)
      PROVE  Inv'
    <2>1. CASE RefuseEnvironment(c)
        BY <2>1, ThrowsInv DEF RefuseEnvironment
    <2>2. CASE RefusePolicy(c) \/ RefuseArtifact(c)
        BY <2>2, ThrowsInv DEF RefusePolicy, RefuseArtifact
    <2>3. CASE CallThrows(c)
        BY <2>3, ThrowsInv DEF CallThrows
    <2> QED
        BY <1>1, <2>1, <2>2, <2>3
<1>2. CASE UNCHANGED vars
    BY <1>2 DEF vars, made, Inv, Held
<1>3. CASE Finished
    BY <1>2, <1>3 DEF Finished
<1> QED
    BY <1>1, <1>2, <1>3, FactoriesInv DEF Next

-----------------------------------------------------------------------------

\* Every value a client holds comes from its factory.
THEOREM ValuesAreMade == Spec => []Inv
BY InitInv, NextInv, PTL DEF Spec

\* For any number of clients, equal identities are identities of equal values.
THEOREM IdentitiesBindHolds == Spec => []IdentitiesBind
<1>1. Inv => IdentitiesBind
    <2> SUFFICES ASSUME Inv, NEW c \in Client, NEW d \in Client,
                        NEW family \in {environment, policy, request, artifact, result},
                        family[c] # Absent, family[d] # Absent,
                        family[c].identity = family[d].identity
                 PROVE  family[c] = family[d]
        BY DEF IdentitiesBind
    <2>1. PICK S \in {Environments, Policies, Requests, Artifacts, Results} : Held(family, S)
        BY DEF Inv
    <2>2. Bound(S)
        BY <2>1, EnvironmentsBound, PoliciesBound, RequestsBound, ArtifactsBound, ResultsBound
    <2>3. family[c] \in S /\ family[d] \in S
        BY <2>1 DEF Held
    <2> QED
        BY <2>2, <2>3 DEF Bound
<1> QED
    BY <1>1, ValuesAreMade, PTL

\* For any number of clients, a binding is of request, payload and artifact, and of
\* nothing else.
THEOREM BindingIsOfTheArtifactHolds == Spec => []BindingIsOfTheArtifact
<1>1. Inv => BindingIsOfTheArtifact
    <2> SUFFICES ASSUME Inv, NEW c \in Client, NEW d \in Client,
                        result[c] # Absent, result[d] # Absent,
                        result[c].outcome = "succeeded", result[d].outcome = "succeeded"
                 PROVE  /\ result[c].binding = result[d].binding
                            <=> <<result[c].request, result[c].payload, result[c].artifact>>
                                = <<result[d].request, result[d].payload, result[d].artifact>>
                        /\ result[c].execution # result[d].execution
                            => result[c].identity # result[d].identity
        BY DEF BindingIsOfTheArtifact
    <2>1. \A f \in Failures : f.outcome = "failed"
        BY DEF Failures
    <2>2. result[c] \in Successes /\ result[d] \in Successes
        BY <2>1 DEF Inv, Held, Results
    <2> QED
        BY <2>2, SuccessesBound
<1> QED
    BY <1>1, ValuesAreMade, PTL

=============================================================================
