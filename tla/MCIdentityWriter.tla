-------------------------- MODULE MCIdentityWriter --------------------------
(***************************************************************************)
(* Four byte values and numbers of two bytes.  The names of the protocols  *)
(* are prefixes of each other, architecture names can be cut in several    *)
(* ways, and the bytes of texts are those of lengths and numbers.          *)
(***************************************************************************)
EXTENDS IdentityWriter, TLC

MCSpelling ==
    "environment-policy" :> <<0>> @@ "build-policy" :> <<0, 0>>
    @@ "build-input" :> <<0, 1>> @@ "build-input-set" :> <<0, 1, 1>>
    @@ "build-request" :> <<1>> @@ "payload-manifest" :> <<1, 0>>
    @@ "artifact" :> <<1, 1>> @@ "artifact-binding" :> <<1, 1, 1>>
    @@ "build-result" :> <<0, 0, 0>>
    @@ "C.UTF-8" :> <<1>> @@ "UTC" :> <<1>> @@ "denied" :> <<1>> @@ "isolated" :> <<1>>
    @@ "package-root" :> <<1>> @@ "package-tar" :> <<1>>
    @@ "build" :> <<0>> @@ "check" :> <<1>>
    @@ "none" :> <<0>> @@ "gzip" :> <<0, 1>> @@ "xz" :> <<1>> @@ "zstd" :> <<1, 1>>
    @@ "succeeded" :> <<1, 0>> @@ "failed" :> <<1>>
    @@ "regular" :> <<0>> @@ "symlink" :> <<0, 1>> @@ "hardlink" :> <<1>>
    @@ "character_device" :> <<1, 1>> @@ "directory" :> <<0, 0>> @@ "fifo" :> <<1, 0>>
    @@ "block_device" :> <<0, 0, 1>>

Hex == {<<0, 1>>, <<1, 0>>}
Names == {<<0>>, <<1>>, <<0, 0>>, <<0, 1>>, <<1, 0>>}

Environments ==
    [kind : {"environment-policy"}, parallelism : {1, 15}, file_creation_mask : {0, 1},
     source_date_epoch : {Absent, 0, 1}]
Policies == [kind : {"build-policy"}, environment : Hex]
Inputs ==
    [kind : {"build-input"}, scope : {"build", "check"}, edge : Hex, selection : Hex]
InputSets ==
    [kind : {"build-input-set"}, resolution : {<<0, 1>>}, subject : Hex,
     inputs : BoundedSeq(Hex, 2)]
Requests ==
    [kind : {"build-request"}, source : {<<0, 1>>}, inputs : {<<0, 1>>},
     build : Names, target : Names, policy : {<<0, 1>>}]
Artifacts ==
    [kind : {"artifact"}, compression : {"none", "gzip", "xz", "zstd"},
     byte_count : {0, 1}, complete_digest : Hex]
Bindings ==
    [kind : {"artifact-binding"}, request : Hex, payload : {<<0, 1>>},
     artifact : Hex, complete_digest : {<<0, 1>>}]
Successes ==
    [kind : {"success"}, request : Hex, payload : {<<0, 1>>}, artifact : {<<0, 1>>},
     binding : {<<0, 1>>}, execution : Hex]
Failures == [kind : {"failure"}, request : Hex, execution : Hex, failure : Hex]

\* -1 is a time before 1970, 15 the largest number.
Entry(path, type, seconds, nanoseconds, symlink, hardlink, device, content) ==
    [path |-> path, type |-> type, mode |-> 0, uid |-> 0, gid |-> 0, size |-> 0,
     modification_time |-> [seconds |-> seconds, nanoseconds |-> nanoseconds],
     symlink_target |-> symlink, hardlink_target |-> hardlink, device |-> device,
     regular_content |-> content]
Regular == Entry(<<0>>, "regular", -1, 0, Absent, Absent, Absent, <<0, 1>>)
\* Every part of an entry changed alone, and entries of other types.
Entries ==
    {Regular, [Regular EXCEPT !.path = <<1>>],
     [Regular EXCEPT !.mode = 1], [Regular EXCEPT !.uid = 1],
     [Regular EXCEPT !.gid = 1], [Regular EXCEPT !.size = 1],
     [Regular EXCEPT !.modification_time.seconds = 1],
     [Regular EXCEPT !.modification_time.nanoseconds = 1],
     [Regular EXCEPT !.regular_content = <<1, 0>>],
     Entry(<<0, 0>>, "symlink", 0, 1, <<1>>, Absent, Absent, Absent),
     Entry(<<0, 0>>, "symlink", 0, 1, <<0>>, Absent, Absent, Absent),
     Entry(<<0, 0>>, "hardlink", 0, 1, Absent, <<1>>, Absent, Absent),
     Entry(<<1>>, "character_device", 0, 0, Absent, Absent, <<1, 0>>, Absent),
     Entry(<<1>>, "character_device", 0, 0, Absent, Absent, <<0, 1>>, Absent)}
Manifests ==
    [kind : {"payload-manifest"},
     entries : BoundedSeq(Entries, 1)
               \cup BoundedSeq({e \in Entries : e.type # "regular" /\ e.path = <<0, 0>>}, 2)]

MCRecords ==
    Environments \cup Policies \cup Inputs \cup InputSets \cup Requests
    \cup Manifests \cup Artifacts \cup Bindings \cup Successes \cup Failures

=============================================================================
