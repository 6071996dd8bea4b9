---------------------------- MODULE BuildOutcome ----------------------------
(***************************************************************************)
(* The values a client of libpkgbuild makes on the way from a policy to a  *)
(* build result: environment_policy::hermetic, build_policy::make,         *)
(* sealed_artifact::make and the two factories of build_result (src/model, *)
(* src/request and src/result.cpp).  Each client makes one result; what two*)
(* of them made is compared by identity.                                   *)
(*                                                                         *)
(* An identity is the record of what is hashed: module IdentityRecords has *)
(* the bytes, and InputAdmission and BuildRequest, PayloadManifest how the *)
(* authority of a request and a payload come about; here they are values   *)
(* that their identities tell apart.                                       *)
(*                                                                         *)
(* AnyCompression, WithoutPayload and WithoutExecution are not used here:  *)
(* each is the definition after it with one mistake, which the properties  *)
(* are known to notice (PROJECT.json, "mutants").                          *)
(***************************************************************************)
EXTENDS Integers

CONSTANTS
    Client,
    Parallelism, Mask, Epoch,   \* arguments of hermetic
    Layout,                     \* values of output_layout_kind, valid or not
    Encoding, Compression,      \* of artifact_encoding and artifact_compression
    Size, Digest,               \* byte counts and complete digests
    Authority,                  \* what a request is sealed from, its policy apart
    Payload,                    \* sealed payload manifests
    Evidence,                   \* execution and failure evidence identities
    Absent                      \* an empty std::optional, or nothing made yet

\* 0777, the largest file creation mask.
MaxMask == 511

Compressions == {"none", "gzip", "xz", "zstd"}

\* The name of an enumerator: all values that are not one share a name.
to_string(v) ==
    IF v \in Compressions \cup {"package-root", "package-tar"} THEN v ELSE "unknown"

ASSUME RangesAssumption ==
    /\ Parallelism \cup Mask \subseteq Nat
    /\ Epoch \subseteq Int \cup {Absent}
    /\ Absent \notin Int

VARIABLES
    stage,          \* of each client: what it makes next, or "done"
    environment,    \* its environment policy
    policy,         \* its build policy
    request,        \* its sealed request
    artifact,       \* its sealed artifact
    result,         \* its build result
    thrown          \* the message of the exception that stopped it

made == <<environment, policy, request, artifact, result>>
vars == <<stage, made, thrown>>

Init ==
    /\ stage = [c \in Client |-> "environment"]
    /\ environment = [c \in Client |-> Absent]
    /\ policy = [c \in Client |-> Absent]
    /\ request = [c \in Client |-> Absent]
    /\ artifact = [c \in Client |-> Absent]
    /\ result = [c \in Client |-> Absent]
    /\ thrown = [c \in Client |-> Absent]

Goes(c, from, to) == stage[c] = from /\ stage' = [stage EXCEPT ![c] = to]

Throws(c, from, reason) ==
    /\ Goes(c, from, "done")
    /\ thrown' = [thrown EXCEPT ![c] = reason]
    /\ UNCHANGED made

-----------------------------------------------------------------------------
(* Policies *)

\* An accepted epoch is not negative, so its conversion to unsigned changes nothing.
environment_id(jobs, mask, epoch) ==
    [parallelism |-> jobs, file_creation_mask |-> mask, source_date_epoch |-> epoch]

RefuseEnvironment(c) ==
    \E jobs \in Parallelism, mask \in Mask, epoch \in Epoch :
        \/ jobs = 0 /\ Throws(c, "environment", "no parallelism")
        \/ jobs > 0 /\ mask > MaxMask /\ Throws(c, "environment", "mask too large")
        \/ /\ jobs > 0 /\ mask <= MaxMask
           /\ epoch # Absent /\ epoch < 0
           /\ Throws(c, "environment", "negative epoch")

hermetic(c) ==
    \E jobs \in Parallelism, mask \in Mask, epoch \in Epoch :
        /\ jobs > 0
        /\ mask <= MaxMask
        /\ epoch # Absent => epoch >= 0
        /\ Goes(c, "environment", "policy")
        /\ environment' = [environment EXCEPT ![c] =
                [parallelism |-> jobs, file_creation_mask |-> mask,
                 source_date_epoch |-> epoch,
                 identity |-> environment_id(jobs, mask, epoch)]]
        /\ UNCHANGED <<policy, request, artifact, result, thrown>>

policy_id(e, layout) ==
    [environment |-> e.identity, output_layout |-> to_string(layout)]

RefusePolicy(c) ==
    \E layout \in Layout \ {"package-root"} :
        Throws(c, "policy", "unsupported layout")

make_policy(c) ==
    /\ "package-root" \in Layout
    /\ Goes(c, "policy", "request")
    /\ policy' = [policy EXCEPT ![c] =
            [environment |-> environment[c], output_layout |-> "package-root",
             identity |-> policy_id(environment[c], "package-root")]]
    /\ UNCHANGED <<environment, request, artifact, result, thrown>>

\* build_request::seal, as BuildRequest details it.
seal(c) ==
    /\ Goes(c, "request", "artifact")
    /\ \E authority \in Authority :
            request' = [request EXCEPT ![c] =
                [authority |-> authority, policy |-> policy[c],
                 identity |-> [authority |-> authority, policy |-> policy[c].identity]]]
    /\ UNCHANGED <<environment, policy, artifact, result, thrown>>

-----------------------------------------------------------------------------
(* The artifact *)

artifact_id(encoding, compression, size, digest) ==
    [encoding |-> to_string(encoding), compression |-> to_string(compression),
     byte_count |-> size, complete_digest |-> digest]

AnyCompression(compression) == TRUE
IsSupported(compression) == compression \in Compressions

RefuseArtifact(c) ==
    \E encoding \in Encoding, compression \in Compression :
        \/ /\ encoding # "package-tar"
           /\ Throws(c, "artifact", "unsupported encoding")
        \/ /\ encoding = "package-tar"
           /\ ~IsSupported(compression)
           /\ Throws(c, "artifact", "unsupported compression")

make_artifact(c) ==
    /\ Goes(c, "artifact", "result")
    /\ "package-tar" \in Encoding
    /\ \E compression \in Compression, size \in Size, digest \in Digest :
        /\ IsSupported(compression)
        /\ artifact' = [artifact EXCEPT ![c] =
                [encoding |-> "package-tar", compression |-> compression,
                 byte_count |-> size, complete_digest |-> digest,
                 identity |-> artifact_id("package-tar", compression, size, digest)]]
    /\ UNCHANGED <<environment, policy, request, result, thrown>>

-----------------------------------------------------------------------------
(* The result *)

WithoutPayload(r, payload, a) ==
    [request |-> r.identity, artifact |-> a.identity,
     complete_digest |-> a.complete_digest]
binding_id(r, payload, a) ==
    [request |-> r.identity, payload |-> payload, artifact |-> a.identity,
     complete_digest |-> a.complete_digest]

WithoutExecution(r, payload, a, binding, execution) ==
    [outcome |-> "succeeded", request |-> r.identity, payload |-> payload,
     artifact |-> a.identity, binding |-> binding]
success_id(r, payload, a, binding, execution) ==
    [outcome |-> "succeeded", request |-> r.identity, payload |-> payload,
     artifact |-> a.identity, binding |-> binding, execution |-> execution]

failure_id(r, execution, failure) ==
    [outcome |-> "failed", request |-> r.identity, execution |-> execution,
     failure |-> failure]

succeeded(c) ==
    /\ Goes(c, "result", "done")
    /\ \E payload \in Payload, execution \in Evidence :
        LET binding == binding_id(request[c], payload, artifact[c]) IN
            result' = [result EXCEPT ![c] =
                [outcome |-> "succeeded", request |-> request[c],
                 execution |-> execution, payload |-> payload,
                 artifact |-> artifact[c], binding |-> binding, failure |-> Absent,
                 identity |-> success_id(request[c], payload, artifact[c],
                                         binding, execution)]]
    /\ UNCHANGED <<environment, policy, request, artifact, thrown>>

\* A build may fail before or after there are artifact bytes.
failed(c) ==
    /\ stage[c] \in {"artifact", "result"}
    /\ stage' = [stage EXCEPT ![c] = "done"]
    /\ \E execution, failure \in Evidence :
            result' = [result EXCEPT ![c] =
                [outcome |-> "failed", request |-> request[c],
                 execution |-> execution, payload |-> Absent, artifact |-> Absent,
                 binding |-> Absent, failure |-> failure,
                 identity |-> failure_id(request[c], execution, failure)]]
    /\ UNCHANGED <<environment, policy, request, artifact, thrown>>

\* Every call derives an identity, which may throw identity_failed; seal may also
\* refuse its authority, for a reason BuildRequest details.
CallThrows(c) ==
    \/ \E from \in {"environment", "policy", "request", "artifact", "result"} :
            Throws(c, from, "digest failure")
    \/ Throws(c, "request", "authority refused")

\* Every client has its result or was stopped.
Finished == (\A c \in Client : stage[c] = "done") /\ UNCHANGED vars

Next ==
    \/ \E c \in Client :
        \/ RefuseEnvironment(c)
        \/ hermetic(c)
        \/ RefusePolicy(c)
        \/ make_policy(c)
        \/ seal(c)
        \/ RefuseArtifact(c)
        \/ make_artifact(c)
        \/ succeeded(c)
        \/ failed(c)
        \/ CallThrows(c)
    \/ Finished

Spec == Init /\ [][Next]_vars

-----------------------------------------------------------------------------
(* Properties *)

\* Equal identities, made by anyone and in any order, are identities of equal
\* values, down to the parts of their parts: results with one identity agree on
\* the whole environment, the whole artifact and all the evidence.
IdentitiesBind ==
    \A c, d \in Client : \A family \in {environment, policy, request, artifact, result} :
        family[c] # Absent /\ family[d] # Absent /\ family[c].identity = family[d].identity
            => family[c] = family[d]

\* A binding says which payload and artifact answer which request, and nothing of
\* the execution that made them: builds that differ only in their execution
\* evidence share their binding and not their identity.
BindingIsOfTheArtifact ==
    \A c, d \in Client :
        LET r == result[c] s == result[d] IN
        r # Absent /\ s # Absent /\ r.outcome = "succeeded" /\ s.outcome = "succeeded" =>
            /\ r.binding = s.binding
                <=> <<r.request, r.payload, r.artifact>> = <<s.request, s.payload, s.artifact>>
            /\ r.execution # s.execution => r.identity # s.identity

=============================================================================
