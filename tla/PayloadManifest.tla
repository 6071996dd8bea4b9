--------------------------- MODULE PayloadManifest ---------------------------
(***************************************************************************)
(* payload_manifest::seal of src/model.cpp: one pass over the entries of a *)
(* package payload that refuses a path listed twice and a hard link without*)
(* an earlier regular anchor of the same inode metadata.                   *)
(*                                                                         *)
(* One behaviour is one call; an action is one iteration of the loop.  A   *)
(* path, a mode, an owner and a time are compared and never looked into.   *)
(* The size, the content digest, the symbolic-link target and the device   *)
(* of an entry are retained by the manifest and read by nothing in seal.   *)
(*                                                                         *)
(* SameModeAndUser, AlreadyRegular, EmplacedAtIndex and EmplacedUnlessLink *)
(* are not used here: each is a definition after it with one mistake, which*)
(* the properties are known to notice (PROJECT.json, "mutants").           *)
(***************************************************************************)
EXTENDS PayloadEntry

CONSTANT Manifests      \* the vectors of entries passed to seal

Reason ==
    {"duplicate path", "link to itself", "no earlier regular anchor",
     "metadata differs", "digest failure"}

Pending == [verdict |-> "pending"]
Refusal == [verdict : {"refused"}, reason : Reason]
Sealed == [verdict : {"sealed"}, entries : Seq(Entry)]

ASSUME ManifestsAssumption == Manifests \subseteq Seq(Entry)

VARIABLES
    entries,    \* argument of the call
    position,   \* number of entries the loop has accepted
    seen,       \* set of their paths
    regular,    \* map from the paths of the regular ones to their positions
    outcome     \* Pending, a refusal (exception) or the sealed manifest

vars == <<entries, position, seen, regular, outcome>>

Init ==
    /\ entries \in Manifests
    /\ position = 0
    /\ seen = {}
    /\ regular = [p \in {} |-> 0]
    /\ outcome = Pending

Scanning == outcome = Pending /\ position < Len(entries)
entry == entries[position + 1]

Refuse(reason) ==
    /\ outcome' = [verdict |-> "refused", reason |-> reason]
    /\ UNCHANGED <<entries, position, seen, regular>>

SameModeAndUser(a, b) ==
    /\ a.mode = b.mode
    /\ a.uid = b.uid
    /\ a.modification_time = b.modification_time

\* The four comparisons of a link with its anchor.
SameMetadata(a, b) ==
    /\ a.mode = b.mode
    /\ a.uid = b.uid
    /\ a.gid = b.gid
    /\ a.modification_time = b.modification_time

AlreadyRegular == entry.path \in DOMAIN regular

\* seen.insert fails.
AlreadySeen == entry.path \in seen

RefuseDuplicate ==
    /\ Scanning
    /\ AlreadySeen
    /\ Refuse("duplicate path")

\* A link that reaches these checks is not itself in "regular".  The throw for
\* a link without a target cannot happen (see Entry).
RefuseLink ==
    /\ Scanning
    /\ ~AlreadySeen
    /\ entry.type = "hardlink"
    /\ \/ /\ entry.path = entry.hardlink_target
          /\ Refuse("link to itself")
       \/ /\ entry.path # entry.hardlink_target
          /\ entry.hardlink_target \notin DOMAIN regular
          /\ Refuse("no earlier regular anchor")
       \/ /\ entry.path # entry.hardlink_target
          /\ entry.hardlink_target \in DOMAIN regular
          /\ ~SameMetadata(entry, entries[regular[entry.hardlink_target]])
          /\ Refuse("metadata differs")

\* The link found its anchor.
Anchored ==
    /\ entry.path # entry.hardlink_target
    /\ entry.hardlink_target \in DOMAIN regular
    /\ SameMetadata(entry, entries[regular[entry.hardlink_target]])

EmplacedAtIndex ==
    IF entry.type = "regular"
    THEN [p \in DOMAIN regular \cup {entry.path} |->
            IF p = entry.path THEN position ELSE regular[p]]
    ELSE regular

EmplacedUnlessLink ==
    IF entry.type # "hardlink"
    THEN [p \in DOMAIN regular \cup {entry.path} |->
            IF p = entry.path THEN position + 1 ELSE regular[p]]
    ELSE regular

\* The map after regular.emplace.
Emplaced ==
    IF entry.type = "regular"
    THEN [p \in DOMAIN regular \cup {entry.path} |->
            IF p = entry.path THEN position + 1 ELSE regular[p]]
    ELSE regular

AcceptEntry ==
    /\ Scanning
    /\ ~AlreadySeen
    /\ entry.type = "hardlink" => Anchored
    /\ seen' = seen \cup {entry.path}
    /\ regular' = Emplaced
    /\ position' = position + 1
    /\ UNCHANGED <<entries, outcome>>

Seal ==
    /\ outcome = Pending
    /\ position = Len(entries)
    /\ outcome' = [verdict |-> "sealed", entries |-> entries]
    /\ UNCHANGED <<entries, position, seen, regular>>

\* manifest_id throws.
DigestFails ==
    /\ outcome = Pending
    /\ position = Len(entries)
    /\ Refuse("digest failure")

\* The call has returned or thrown.
Done == outcome # Pending /\ UNCHANGED vars

Next ==
    \/ RefuseDuplicate
    \/ RefuseLink
    \/ AcceptEntry
    \/ Seal
    \/ DigestFails
    \/ Done

Spec == Init /\ [][Next]_vars

-----------------------------------------------------------------------------
(* Properties *)

\* The variables hold the values their C++ types allow.
TypeOK ==
    /\ entries \in Seq(Entry)
    /\ position \in 0..Len(entries)
    /\ seen \subseteq Path
    /\ DOMAIN regular \subseteq Path
    /\ \A p \in DOMAIN regular : regular[p] \in 1..Len(entries)
    /\ outcome \in {Pending} \cup Refusal \cup Sealed

\* Two entries can be two names of one inode.
AgreeOnInode(a, b) ==
    <<a.mode, a.uid, a.gid, a.modification_time>>
        = <<b.mode, b.uid, b.gid, b.modification_time>>

Repeated(n) == \E j \in 1..n - 1 : entries[j].path = entries[n].path

\* Entry j is the anchor of the hard link at n.
Anchors(j, n) ==
    /\ j < n
    /\ entries[j].type = "regular"
    /\ entries[j].path = entries[n].hardlink_target
    /\ AgreeOnInode(entries[j], entries[n])

Defective(n) ==
    \/ Repeated(n)
    \/ entries[n].type = "hardlink" /\ ~\E j \in DOMAIN entries : Anchors(j, n)

\* seal accepts exactly the vectors without a defect, and unchanged; the map of
\* regular entries and the set of paths are as good as the entries themselves.
SealIsExact ==
    /\ outcome.verdict = "sealed" =>
            /\ outcome.entries = entries
            /\ \A n \in DOMAIN entries : ~Defective(n)
    /\ outcome.verdict = "refused" /\ outcome.reason # "digest failure" =>
            \E n \in DOMAIN entries : Defective(n)

\* The reason of the refusal is a defect of entry n.
Blamed(n) ==
    LET before == {entries[j] : j \in 1..n - 1}
        target == entries[n].hardlink_target
        anchors == {e \in before : e.type = "regular" /\ e.path = target}
    IN \/ outcome.reason = "duplicate path" /\ Repeated(n)
       \/ outcome.reason = "link to itself" /\ target = entries[n].path
       \/ outcome.reason = "no earlier regular anchor" /\ anchors = {}
       \/ /\ outcome.reason = "metadata differs"
          /\ \E e \in anchors : ~AgreeOnInode(e, entries[n])

\* A refusal is for the first defective entry and names a defect it has.
BlamesFirstDefect ==
    outcome.verdict = "refused" /\ outcome.reason # "digest failure" =>
        \E n \in DOMAIN entries :
            Defective(n) /\ Blamed(n) /\ \A j \in 1..n - 1 : ~Defective(j)

\* The anchor of a sealed name: itself, or what its target names.
AnchorPath(e) == IF e.type = "hardlink" THEN e.hardlink_target ELSE e.path

\* In a sealed manifest all names of one inode agree on its mode, owner and
\* time, exactly one of them is not a hard link, and it comes before the others:
\* the links can be made in the order of the entries, and never through a link.
InodesAreConsistent ==
    outcome.verdict = "sealed" =>
        \A m, n \in DOMAIN outcome.entries :
            LET a == outcome.entries[m] b == outcome.entries[n] IN
            AnchorPath(a) = AnchorPath(b) =>
                /\ AgreeOnInode(a, b)
                /\ a.type # "hardlink" /\ b.type # "hardlink" => m = n
                /\ a.type # "hardlink" => m <= n
                /\ b.type = "hardlink" =>
                     \E k \in 1..n - 1 : outcome.entries[k].type = "regular"
                                        /\ outcome.entries[k].path = AnchorPath(b)

=============================================================================
