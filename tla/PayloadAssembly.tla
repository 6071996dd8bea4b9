-------------------------- MODULE PayloadAssembly --------------------------
(***************************************************************************)
(* A client that makes the entries of a payload with the factories of      *)
(* payload_entry, one call after the other, and seals what it has: the     *)
(* composition of PayloadEntry and PayloadManifest, where the vectors that *)
(* seal gets are those the factories can fill.                             *)
(***************************************************************************)
EXTENDS PayloadManifest

CONSTANTS
    Metadata,       \* arguments of the factories: a mode, an owner and a time
    Base, Width,    \* of IdentityRecords: 256 and 8 in the code
    Spelling,
    MaxEntries      \* bound: entries of a payload

ASSUME MetadataAssumption ==
    Metadata \subseteq [mode : Mode, uid : Uid, gid : Gid, modification_time : Time]

\* The records an entry is hashed in.
Identity == INSTANCE IdentityRecords

\* A length, a number and both parts of a time fit in the integers of the code.
ASSUME RecordsAssumption ==
    /\ Base \in Nat \ {0, 1} /\ Width \in Nat \ {0} /\ Identity!NamesAreDistinct
    /\ Path \cup Target \cup Digest \subseteq Identity!Text
    /\ Mode \cup Uid \cup Gid \cup Size \subseteq Identity!Unsigned
    /\ Device \subseteq Identity!Unsigned \X Identity!Unsigned
    /\ Time \subseteq [seconds : Identity!Signed, nanoseconds : Identity!Unsigned]

VARIABLE thrown     \* why the last call of a factory threw, or "not refused"

assemblyVars == <<vars, thrown>>

\* The client has not called seal yet.
Assembling == position = 0 /\ outcome = [verdict |-> "unsealed"]

AssemblyInit ==
    /\ entries = <<>>
    /\ position = 0
    /\ seen = {}
    /\ regular = [p \in {} |-> 0]
    /\ outcome = [verdict |-> "unsealed"]
    /\ thrown = "not refused"

\* There is room for another entry.
Filling == Assembling /\ Len(entries) < MaxEntries

\* A factory returns e, which the client appends, or throws.
Call(e) ==
    /\ thrown' = Refused(e)
    /\ entries' = IF Refused(e) = "not refused" THEN Append(entries, e) ELSE entries
    /\ UNCHANGED <<position, seen, regular, outcome>>

CallRegular ==
    /\ Filling
    /\ \E p \in Path, m \in Metadata, size \in Size, content \in Digest :
            Call(regular_entry(p, m, size, content))
CallDirectory ==
    /\ Filling
    /\ \E p \in Path, m \in Metadata : Call(directory_entry(p, m))
CallSymlink ==
    /\ Filling
    /\ \E p \in Path, m \in Metadata, target \in Target : Call(symlink_entry(p, m, target))
CallHardlink ==
    /\ Filling
    /\ \E p, target \in Path, m \in Metadata : Call(hardlink_entry(p, m, target))
CallFifo ==
    /\ Filling
    /\ \E p \in Path, m \in Metadata : Call(fifo_entry(p, m))
CallDevice ==
    /\ Filling
    /\ \E p \in Path, m \in Metadata, device \in Device :
            \/ Call(character_device_entry(p, m, device))
            \/ Call(block_device_entry(p, m, device))

CallSeal ==
    /\ Assembling
    /\ outcome' = Pending
    /\ thrown' = "not refused"
    /\ UNCHANGED <<entries, position, seen, regular>>

Sealing == ~Assembling /\ Next /\ UNCHANGED thrown

AssemblyNext ==
    \/ CallRegular
    \/ CallDirectory
    \/ CallSymlink
    \/ CallHardlink
    \/ CallFifo
    \/ CallDevice
    \/ CallSeal
    \/ Sealing

AssemblySpec == AssemblyInit /\ [][AssemblyNext]_assemblyVars

-----------------------------------------------------------------------------
(* Properties *)

\* Every entry a client can get has the optional parts of its type and values in
\* range, as seal takes for granted of its argument: the throw of seal for a hard
\* link without a target is never reached.
AssemblyTypeOK ==
    /\ entries \in Seq(Entry)
    /\ thrown \in {"not refused", "target not line-safe", "mode too large", "time out of range"}

Instant(time) == time.seconds * NanosecondsPerSecond + time.nanoseconds

\* A time is one instant spelled one way: times compare as the instants do, and
\* two spellings of an instant never meet in a payload, where links compare them.
TimesAreInstants ==
    \A m, n \in DOMAIN entries :
        LET s == entries[m].modification_time t == entries[n].modification_time IN
        /\ Earlier(s, t) <=> Instant(s) < Instant(t)
        /\ SameTime(s, t) <=> Instant(s) = Instant(t)

\* Entries compare equal exactly if they are hashed as the same bytes: manifests
\* are equal, by their entries, exactly if their identities are.
EqualityIsOfRecords ==
    \A n \in DOMAIN entries : \A m \in 1..n - 1 :
        SameEntry(entries[m], entries[n])
            <=> Identity!entry_bytes(entries[m]) = Identity!entry_bytes(entries[n])

=============================================================================
