---------------------------- MODULE PayloadEntry ----------------------------
(***************************************************************************)
(* payload_entry of src/model.cpp: its seven factories, which give an entry*)
(* the optional parts of its type, and the checks of its constructor.      *)
(*                                                                         *)
(* AtMostASecond, LinkWithoutTarget and IgnoresContent are not used here:  *)
(* each is the definition after it with one mistake, which the properties  *)
(* are known to notice (PROJECT.json, "mutants").                          *)
(***************************************************************************)
EXTENDS Integers, Sequences

CONSTANTS
    Path,           \* normalized payload paths
    Mode, Uid, Gid, Size,
    Time,           \* values of payload_time
    Target,         \* texts of symbolic links: sequences of bytes
    Forbidden,      \* the bytes NUL, LF and CR
    Device, Digest,
    Absent          \* an empty std::optional

EntryType ==
    {"regular", "directory", "symlink", "hardlink", "fifo",
     "character_device", "block_device"}

MaxMode == 4095                 \* 07777
NanosecondsPerSecond == 1000000000

ASSUME AbsentAssumption ==
    Absent \notin Path \cup Target \cup Device \cup Digest
ASSUME ArgumentsAssumption ==
    /\ Mode \cup Uid \cup Gid \cup Size \subseteq Nat /\ 0 \in Size
    /\ Time \subseteq [seconds : Int, nanoseconds : Nat]

payload_entry(type, path, m, size, symlink, hardlink, device, content) ==
    [path |-> path, type |-> type, mode |-> m.mode, uid |-> m.uid, gid |-> m.gid,
     size |-> size, modification_time |-> m.modification_time,
     symlink_target |-> symlink, hardlink_target |-> hardlink,
     device |-> device, regular_content |-> content]

-----------------------------------------------------------------------------
(* The factories; m is the mode, the owner and the time *)

regular_entry(path, m, size, content) ==
    payload_entry("regular", path, m, size, Absent, Absent, Absent, content)
directory_entry(path, m) ==
    payload_entry("directory", path, m, 0, Absent, Absent, Absent, Absent)
symlink_entry(path, m, target) ==
    payload_entry("symlink", path, m, 0, target, Absent, Absent, Absent)
LinkWithoutTarget(path, m, target) ==
    payload_entry("hardlink", path, m, 0, Absent, Absent, Absent, Absent)
hardlink_entry(path, m, target) ==
    payload_entry("hardlink", path, m, 0, Absent, target, Absent, Absent)
fifo_entry(path, m) ==
    payload_entry("fifo", path, m, 0, Absent, Absent, Absent, Absent)
character_device_entry(path, m, device) ==
    payload_entry("character_device", path, m, 0, Absent, Absent, device, Absent)
block_device_entry(path, m, device) ==
    payload_entry("block_device", path, m, 0, Absent, Absent, device, Absent)

require_line_safe(text) ==
    text # <<>> /\ \A i \in DOMAIN text : text[i] \notin Forbidden

AtMostASecond(time) == time.nanoseconds <= NanosecondsPerSecond
WithinASecond(time) == time.nanoseconds < NanosecondsPerSecond

\* The reason for which a factory throws instead of returning e, or "not refused".
Refused(e) ==
    IF e.type = "symlink" /\ ~require_line_safe(e.symlink_target)
    THEN "target not line-safe"
    ELSE IF e.mode > MaxMode THEN "mode too large"
    ELSE IF ~WithinASecond(e.modification_time) THEN "time out of range"
    ELSE "not refused"

-----------------------------------------------------------------------------
(* The entries there can be *)

OnlyFor(types, e, part) == e.type \in types <=> part # Absent

Entry ==
    {e \in [path : Path, type : EntryType, mode : Mode, uid : Uid, gid : Gid,
            size : Size, modification_time : Time,
            symlink_target : Target \cup {Absent},
            hardlink_target : Path \cup {Absent}, device : Device \cup {Absent},
            regular_content : Digest \cup {Absent}] :
        /\ OnlyFor({"symlink"}, e, e.symlink_target)
        /\ OnlyFor({"hardlink"}, e, e.hardlink_target)
        /\ OnlyFor({"character_device", "block_device"}, e, e.device)
        /\ OnlyFor({"regular"}, e, e.regular_content)
        /\ e.type # "regular" => e.size = 0
        /\ e.type = "symlink" => require_line_safe(e.symlink_target)
        /\ e.mode <= MaxMode
        /\ e.modification_time.nanoseconds < NanosecondsPerSecond}

-----------------------------------------------------------------------------
(* Comparisons *)

\* operator< of two values of payload_time.
Earlier(s, t) ==
    \/ s.seconds < t.seconds
    \/ s.seconds = t.seconds /\ s.nanoseconds < t.nanoseconds

\* operator== of two values of payload_time.
SameTime(s, t) == s.seconds = t.seconds /\ s.nanoseconds = t.nanoseconds

\* operator== of two entries.
IgnoresContent(a, b) ==
    /\ \A part \in {"path", "type", "mode", "uid", "gid", "size",
                   "symlink_target", "hardlink_target", "device"} :
            a[part] = b[part]
    /\ SameTime(a.modification_time, b.modification_time)
SameEntry(a, b) ==
    /\ \A part \in {"path", "type", "mode", "uid", "gid", "size",
                   "symlink_target", "hardlink_target", "device", "regular_content"} :
            a[part] = b[part]
    /\ SameTime(a.modification_time, b.modification_time)

=============================================================================
