------------------------- MODULE MCPayloadAssembly -------------------------
(***************************************************************************)
(* Two paths; the largest mode and nanosecond count and the ones after     *)
(* them; times before and after 1970; link texts that are empty or have a  *)
(* forbidden byte.  A number has 30 bits: it holds the nanoseconds.        *)
(***************************************************************************)
EXTENDS PayloadAssembly, TLC

MCTime ==
    {[seconds |-> s, nanoseconds |-> 0] : s \in {-1, 0, 1}}
    \cup {[seconds |-> s, nanoseconds |-> n] : s \in {-1, 0}, n \in {999999999, 1000000000}}

Usual == [mode |-> 0, uid |-> 0, gid |-> 0,
          modification_time |-> [seconds |-> 0, nanoseconds |-> 0]]
MCMetadata ==
    {[Usual EXCEPT !.modification_time = t] : t \in MCTime}
    \cup {[Usual EXCEPT !.mode = m] : m \in {4095, 4096}}
    \cup {[Usual EXCEPT !.uid = 1], [Usual EXCEPT !.gid = 1]}

MCPath == {<<0>>, <<0, 1>>}
MCTarget == {<<>>, <<0>>, <<0, 1>>, <<0, 3>>}
MCDevice == {<<0, 1>>, <<1, 0>>}
MCDigest == {<<0, 1>>, <<1, 0>>}

MCSpelling ==
    "regular" :> <<0>> @@ "directory" :> <<1>> @@ "symlink" :> <<2>>
    @@ "hardlink" :> <<0, 1>> @@ "fifo" :> <<1, 0>> @@ "character_device" :> <<2, 0>>
    @@ "block_device" :> <<2, 1>>
    @@ "environment-policy" :> <<3>> @@ "build-policy" :> <<3, 0>>
    @@ "build-input" :> <<3, 1>> @@ "build-input-set" :> <<3, 2>>
    @@ "build-request" :> <<3, 3>> @@ "payload-manifest" :> <<3, 0, 0>>
    @@ "artifact" :> <<3, 0, 1>> @@ "artifact-binding" :> <<3, 0, 2>>
    @@ "build-result" :> <<3, 0, 3>>
    @@ "none" :> <<0>> @@ "gzip" :> <<1>> @@ "xz" :> <<2>> @@ "zstd" :> <<3>>
    @@ "build" :> <<0>> @@ "check" :> <<1>> @@ "succeeded" :> <<0>> @@ "failed" :> <<1>>
    @@ "C.UTF-8" :> <<0>> @@ "UTC" :> <<0>> @@ "denied" :> <<0>> @@ "isolated" :> <<0>>
    @@ "package-root" :> <<0>> @@ "package-tar" :> <<0>>

=============================================================================
