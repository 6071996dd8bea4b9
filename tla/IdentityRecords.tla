-------------------------- MODULE IdentityRecords --------------------------
(***************************************************************************)
(* The records that the identities of libpkgbuild are digests of: the      *)
(* *_id functions of src/model.cpp, src/request.cpp and src/result.cpp and *)
(* the bytes that the members text, number and boolean of identity_writer  *)
(* make of a field.                                                        *)
(*                                                                         *)
(* A byte is a number below Base, a number takes Width bytes.  The names of*)
(* the protocols and of the enumerators are byte strings that the constant *)
(* Spelling gives; a hexadecimal digest is a string of one fixed length.   *)
(*                                                                         *)
(* Unprefixed is not used here: it is the definition after it with one     *)
(* mistake, which a property is known to notice (PROJECT.json, "mutants"). *)
(***************************************************************************)
EXTENDS Integers, Sequences, SequencesExt

CONSTANTS
    Base, Width,    \* 256 and 8 in the code
    Spelling,       \* the bytes of the names of protocols and enumerators
    Absent          \* an empty std::optional

Byte == 0..Base - 1
power[k \in 0..Width] == IF k = 0 THEN 1 ELSE Base * power[k - 1]
Modulus == power[Width]

Protocols ==
    {"environment-policy", "build-policy", "build-input", "build-input-set",
     "build-request", "payload-manifest", "artifact", "artifact-binding",
     "build-result"}

EntryTypes ==
    {"regular", "directory", "symlink", "hardlink", "fifo", "character_device",
     "block_device"}
Compressions == {"none", "gzip", "xz", "zstd"}
Scopes == {"build", "check"}
Outcomes == {"succeeded", "failed"}
\* The enumerations with one enumerator.
Fixed == {"C.UTF-8", "UTC", "denied", "isolated", "package-root", "package-tar"}

Spellable == Protocols \cup EntryTypes \cup Compressions \cup Scopes \cup Outcomes \cup Fixed

ASSUME WidthAssumption == Base \in Nat \ {0, 1} /\ Width \in Nat \ {0}

-----------------------------------------------------------------------------
(* The values of the members *)

Text == {v \in Seq(Byte) : Len(v) < Modulus}
Unsigned == 0..Modulus - 1
Signed == -(Modulus \div 2)..Modulus - (Modulus \div 2) - 1
Optional(Values) == Values \cup {Absent}

\* No two protocols, and no two enumerators of one enumeration, have the same name.
NamesAreDistinct ==
    /\ \A p \in Spellable : Spelling[p] \in Text
    /\ \A enumeration \in {Protocols, EntryTypes, Compressions, Scopes, Outcomes} :
          \A p, q \in enumeration : Spelling[p] = Spelling[q] => p = q

ASSUME SpellingAssumption == NamesAreDistinct

payload_entry ==
    [path : Text, type : EntryTypes, mode : Unsigned, uid : Unsigned, gid : Unsigned,
     size : Unsigned, modification_time : [seconds : Signed, nanoseconds : Unsigned],
     symlink_target : Optional(Text), hardlink_target : Optional(Text),
     device : Optional(Unsigned \X Unsigned), regular_content : Optional(Text)]

\* What the classes hold that have an identity.
environment_policy ==
    [kind : {"environment-policy"}, parallelism : Unsigned,
     file_creation_mask : Unsigned, source_date_epoch : Optional(Signed)]
build_policy == [kind : {"build-policy"}, environment : Text]
build_input == [kind : {"build-input"}, scope : Scopes, edge : Text, selection : Text]
build_input_set ==
    [kind : {"build-input-set"}, resolution : Text, subject : Text,
     inputs : {v \in Seq(Text) : Len(v) < Modulus}]
build_request ==
    [kind : {"build-request"}, source : Text, inputs : Text, build : Text,
     target : Text, policy : Text]
payload_manifest ==
    [kind : {"payload-manifest"}, entries : {v \in Seq(payload_entry) : Len(v) < Modulus}]
sealed_artifact ==
    [kind : {"artifact"}, compression : Compressions, byte_count : Unsigned,
     complete_digest : Text]
artifact_binding ==
    [kind : {"artifact-binding"}, request : Text, payload : Text, artifact : Text,
     complete_digest : Text]
succeeded ==
    [kind : {"success"}, request : Text, payload : Text, artifact : Text,
     binding : Text, execution : Text]
failed == [kind : {"failure"}, request : Text, execution : Text, failure : Text]

Record ==
    environment_policy \cup build_policy \cup build_input \cup build_input_set
    \cup build_request \cup payload_manifest \cup sealed_artifact \cup artifact_binding
    \cup succeeded \cup failed

-----------------------------------------------------------------------------
(* The bytes of a field *)

\* std::uint64_t, most significant byte first; a signed value is converted.
number(n) == [i \in 1..Width |-> ((n % Modulus) \div power[Width - i]) % Base]

Unprefixed(v) == v
text(v) == number(Len(v)) \o v

boolean(b) == number(IF b THEN 1 ELSE 0)

\* A text that may be absent.
optional(v) ==
    IF v = Absent THEN <<boolean(FALSE)>> ELSE <<boolean(TRUE), text(v)>>

protocol(name) == text(Spelling[name])
enumerator(name) == text(Spelling[name])

-----------------------------------------------------------------------------
(* The records, field by field *)

environment_id(e) ==
    <<protocol("environment-policy"), enumerator("C.UTF-8"), enumerator("UTC"),
      enumerator("denied"), enumerator("isolated"),
      number(e.parallelism), number(e.file_creation_mask)>>
    \o IF e.source_date_epoch = Absent
       THEN <<boolean(FALSE)>>
       ELSE <<boolean(TRUE), number(e.source_date_epoch)>>

policy_id(p) ==
    <<protocol("build-policy"), text(p.environment), enumerator("package-root")>>

input_id(i) ==
    <<protocol("build-input"), enumerator(i.scope), text(i.edge), text(i.selection)>>

input_set_id(s) ==
    <<protocol("build-input-set"), text(s.resolution), text(s.subject),
      number(Len(s.inputs))>>
    \o [i \in DOMAIN s.inputs |-> text(s.inputs[i])]

request_id(r) ==
    <<protocol("build-request"), text(r.source), text(r.inputs),
      text(r.build), text(r.target), text(r.policy)>>

write_payload_entry(e) ==
    <<text(e.path), enumerator(e.type), number(e.mode), number(e.uid),
      number(e.gid), number(e.size),
      number(e.modification_time.seconds), number(e.modification_time.nanoseconds)>>
    \o optional(e.symlink_target) \o optional(e.hardlink_target)
    \o (IF e.device = Absent THEN <<boolean(FALSE)>>
        ELSE <<boolean(TRUE), number(e.device[1]), number(e.device[2])>>)
    \o optional(e.regular_content)

\* The bytes an entry is hashed as.
entry_bytes(e) == FlattenSeq(write_payload_entry(e))

manifest_id(m) ==
    <<protocol("payload-manifest"), number(Len(m.entries))>>
    \o FlattenSeq([i \in DOMAIN m.entries |-> write_payload_entry(m.entries[i])])

artifact_id(a) ==
    <<protocol("artifact"), enumerator("package-tar"), enumerator(a.compression),
      number(a.byte_count), text(a.complete_digest)>>

binding_id(b) ==
    <<protocol("artifact-binding"), text(b.request), text(b.payload),
      text(b.artifact), text(b.complete_digest)>>

success_id(r) ==
    <<protocol("build-result"), enumerator("succeeded"), text(r.request),
      text(r.payload), text(r.artifact), text(r.binding), text(r.execution)>>

failure_id(r) ==
    <<protocol("build-result"), enumerator("failed"), text(r.request),
      text(r.execution), text(r.failure)>>

=============================================================================
