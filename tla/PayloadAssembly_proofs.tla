----------------------- MODULE PayloadAssembly_proofs -----------------------
(***************************************************************************)
(* Proofs about payload_manifest::seal, for payloads of every length, and  *)
(* about the payloads that the factories of payload_entry can fill, for all*)
(* arguments.                                                              *)
(***************************************************************************)
EXTENDS PayloadAssembly, SequenceTheorems, TLAPS

(* The loop of seal *)

\* What the two containers of the loop stand for.
SeenIsPrefix == seen = {entries[j].path : j \in 1..position}

RegularIsPrefix ==
    /\ \A j \in 1..position :
            entries[j].type = "regular" => entries[j].path \in DOMAIN regular
    /\ \A p \in DOMAIN regular :
            /\ regular[p] \in 1..position
            /\ entries[regular[p]].type = "regular"
            /\ entries[regular[p]].path = p

PrefixIsSound == \A n \in 1..position : ~Defective(n)

Verdict ==
    /\ outcome.verdict = "sealed" => outcome.entries = entries /\ position = Len(entries)
    /\ outcome.verdict = "refused" /\ outcome.reason # "digest failure" =>
            position < Len(entries) /\ Defective(position + 1) /\ Blamed(position + 1)

\* The inductive invariant.
LoopInv == SeenIsPrefix /\ RegularIsPrefix /\ PrefixIsSound /\ Verdict
Inv == TypeOK /\ LoopInv

-----------------------------------------------------------------------------

\* At an entry the loop looks at, the sets of the code mean what the
\* definitions of a defect say.
LEMMA EntryIsTyped ==
    ASSUME TypeOK, position < Len(entries)
    PROVE  /\ position \in Nat /\ Len(entries) \in Nat
           /\ position + 1 \in DOMAIN entries
           /\ (position + 1) - 1 = position
           /\ entry \in Entry
           /\ entry = entries[position + 1]
           /\ \A j \in 1..position : j \in DOMAIN entries /\ entries[j] \in Entry
BY DEF TypeOK, entry

\* A path is in the set of seen paths exactly if an earlier entry has it.
LEMMA SeenMeansRepeated ==
    ASSUME Inv, position < Len(entries)
    PROVE  entry.path \in seen <=> Repeated(position + 1)
<1>1. (position + 1) - 1 = position
    BY EntryIsTyped DEF Inv
<1> QED
    BY <1>1 DEF Inv, LoopInv, SeenIsPrefix, Repeated, entry

\* The only regular entry of the prefix with a path is the one in the map.
LEMMA RegularMeansAnchor ==
    ASSUME Inv, position < Len(entries), NEW j \in 1..position,
           entries[j].type = "regular"
    PROVE  entries[j].path \in DOMAIN regular /\ regular[entries[j].path] = j
<1> DEFINE p == entries[j].path
           r == regular[p]
<1>1. p \in DOMAIN regular /\ r \in 1..position /\ entries[r].path = p
    BY DEF Inv, LoopInv, RegularIsPrefix
<1>2. position \in Nat /\ r \in Nat /\ j \in Nat
    BY <1>1, EntryIsTyped DEF Inv
<1>3. ~Repeated(j) /\ ~Repeated(r)
    BY <1>1 DEF Inv, LoopInv, PrefixIsSound, Defective
<1>4. ~(r < j)
    BY <1>1, <1>2, <1>3 DEF Repeated
<1>5. ~(j < r)
    BY <1>1, <1>2, <1>3 DEF Repeated
<1> QED
    BY <1>1, <1>2, <1>4, <1>5

\* The checks on a link pass exactly if an earlier entry anchors it.
LEMMA AnchoredMeansAnchors ==
    ASSUME Inv, position < Len(entries), entry.type = "hardlink",
           entry.path \notin seen
    PROVE  Anchored <=> \E j \in DOMAIN entries : Anchors(j, position + 1)
<1> DEFINE t == entry.hardlink_target
<1>1. /\ position \in Nat /\ Len(entries) \in Nat
      /\ entry = entries[position + 1]
      /\ DOMAIN entries = 1..Len(entries)
    BY EntryIsTyped DEF Inv, TypeOK
<1>2. ASSUME Anchored PROVE \E j \in DOMAIN entries : Anchors(j, position + 1)
    <2>1. t \in DOMAIN regular /\ SameMetadata(entry, entries[regular[t]])
        BY <1>2 DEF Anchored
    <2>2. /\ regular[t] \in 1..position
          /\ entries[regular[t]].type = "regular"
          /\ entries[regular[t]].path = t
        BY <2>1 DEF Inv, LoopInv, RegularIsPrefix
    <2>3. AgreeOnInode(entries[regular[t]], entry)
        BY <2>1 DEF SameMetadata, AgreeOnInode
    <2>4. Anchors(regular[t], position + 1)
        BY <1>1, <2>2, <2>3 DEF Anchors
    <2> QED
        BY <1>1, <2>2, <2>4
<1>3. ASSUME NEW j \in DOMAIN entries, Anchors(j, position + 1) PROVE Anchored
    <2>1. /\ j \in 1..position /\ entries[j].type = "regular"
          /\ entries[j].path = t /\ AgreeOnInode(entries[j], entry)
        BY <1>1, <1>3 DEF Anchors
    <2>2. t \in DOMAIN regular /\ regular[t] = j
        BY <2>1, RegularMeansAnchor
    <2>3. entry.path # t
        BY <2>1 DEF Inv, LoopInv, SeenIsPrefix
    <2>4. SameMetadata(entry, entries[j])
        BY <2>1 DEF AgreeOnInode, SameMetadata
    <2> QED
        BY <2>2, <2>3, <2>4 DEF Anchored
<1> QED
    BY <1>2, <1>3

-----------------------------------------------------------------------------

\* The loop starts with empty containers.
LEMMA InitInv == Init => Inv
<1> SUFFICES ASSUME Init PROVE Inv
    OBVIOUS
<1>1. entries \in Seq(Entry) /\ Len(entries) \in Nat
    BY ManifestsAssumption DEF Init
<1>2. TypeOK
    BY <1>1 DEF Init, TypeOK
<1>3. LoopInv
    BY DEF Init, LoopInv, SeenIsPrefix, RegularIsPrefix, PrefixIsSound, Verdict, Pending
<1> QED
    BY <1>2, <1>3 DEF Inv

\* Whether an entry is defective depends on the entries alone.
LEMMA DefectIsFixed ==
    ASSUME UNCHANGED entries, NEW n
    PROVE  Defective(n)' <=> Defective(n)
BY DEF Defective, Repeated, Anchors, AgreeOnInode

\* The call ends: nothing but the outcome changes.
LEMMA EndInv ==
    ASSUME Inv, UNCHANGED <<entries, position, seen, regular>>,
           outcome' \in {Pending} \cup Refusal \cup Sealed, Verdict'
    PROVE  Inv'
<1>1. TypeOK'
    BY DEF Inv, TypeOK
<1>2. SeenIsPrefix'
    BY DEF Inv, LoopInv, SeenIsPrefix
<1>3. RegularIsPrefix'
    BY DEF Inv, LoopInv, RegularIsPrefix
<1>4. PrefixIsSound'
    BY DefectIsFixed DEF Inv, LoopInv, PrefixIsSound
<1> QED
    BY <1>1, <1>2, <1>3, <1>4 DEF Inv, LoopInv

\* The call throws for the entry the loop is at.
LEMMA RefuseInv ==
    ASSUME Inv, NEW reason \in Reason, Refuse(reason), position < Len(entries),
           Defective(position + 1), Blamed(position + 1)'
    PROVE  Inv'
<1>1. outcome' \in Refusal /\ outcome'.verdict = "refused"
    BY DEF Refuse, Refusal
<1>2. UNCHANGED <<entries, position, seen, regular>>
    BY DEF Refuse
<1>3. Defective(position + 1)' /\ (position < Len(entries))'
    BY <1>2, DefectIsFixed
<1>4. Blamed(position + 1)' /\ position' = position
    BY <1>2
<1>5. Verdict'
    BY <1>1, <1>3, <1>4 DEF Verdict
<1> QED
    BY <1>1, <1>2, <1>5, EndInv

\* A duplicate path is a defect of the entry the loop is at.
LEMMA RefuseDuplicateInv == ASSUME Inv, RefuseDuplicate PROVE Inv'
<1>1. position < Len(entries) /\ Refuse("duplicate path") /\ "duplicate path" \in Reason
    BY DEF RefuseDuplicate, Scanning, Reason
<1>2. Repeated(position + 1)
    BY <1>1, SeenMeansRepeated DEF RefuseDuplicate, AlreadySeen
<1>3. Blamed(position + 1)'
    BY <1>1, <1>2 DEF Blamed, Refuse, Repeated
<1> QED
    BY <1>1, <1>2, <1>3, RefuseInv DEF Defective

\* Each throw for a link names a defect of the entry the loop is at.
LEMMA RefuseLinkInv == ASSUME Inv, RefuseLink PROVE Inv'
<1> DEFINE t == entry.hardlink_target
           before == {entries[j] : j \in 1..position}
           anchors == {e \in before : e.type = "regular" /\ e.path = t}
<1>1. /\ position < Len(entries)
      /\ entry.path \notin seen
      /\ entry.type = "hardlink"
    BY DEF RefuseLink, Scanning, AlreadySeen
<1>2. position \in Nat /\ (position + 1) - 1 = position /\ entry = entries[position + 1]
    BY <1>1, EntryIsTyped DEF Inv
<1>3. ~Anchored
    BY DEF RefuseLink, Anchored
<1>4. Defective(position + 1)
    BY <1>1, <1>2, <1>3, AnchoredMeansAnchors DEF Defective
<1>5. CASE entry.path = t /\ Refuse("link to itself")
    <2>1. Blamed(position + 1)'
        BY <1>2, <1>5 DEF Blamed, Refuse
    <2> QED
        BY <1>1, <1>4, <1>5, <2>1, RefuseInv DEF Reason
<1>6. CASE t \notin DOMAIN regular /\ Refuse("no earlier regular anchor")
    <2>1. anchors = {}
        <3>1. \A j \in 1..position : ~(entries[j].type = "regular" /\ entries[j].path = t)
            BY <1>6 DEF Inv, LoopInv, RegularIsPrefix
        <3> QED
            BY <3>1
    <2>2. Blamed(position + 1)'
        BY <1>2, <1>6, <2>1 DEF Blamed, Refuse
    <2> QED
        BY <1>1, <1>4, <1>6, <2>2, RefuseInv DEF Reason
<1>7. CASE /\ t \in DOMAIN regular
           /\ ~SameMetadata(entry, entries[regular[t]])
           /\ Refuse("metadata differs")
    <2>1. entries[regular[t]] \in anchors
        BY <1>7 DEF Inv, LoopInv, RegularIsPrefix
    <2>2. ~AgreeOnInode(entries[regular[t]], entry)
        BY <1>7 DEF AgreeOnInode, SameMetadata
    <2>3. \E e \in anchors : ~AgreeOnInode(e, entry)
        BY <2>1, <2>2
    <2>4. Blamed(position + 1)'
        BY <1>2, <1>7, <2>3 DEF Blamed, Refuse, AgreeOnInode
    <2> QED
        BY <1>1, <1>4, <1>7, <2>4, RefuseInv DEF Reason
<1> QED
    BY <1>5, <1>6, <1>7 DEF RefuseLink

\* After the loop no entry is defective.
LEMMA EndingsInv == ASSUME Inv, Seal \/ DigestFails PROVE Inv'
<1>1. CASE Seal
    <2>1. outcome' \in Sealed /\ Verdict'
        BY <1>1 DEF Seal, Sealed, Verdict, Inv, TypeOK
    <2> QED
        BY <1>1, <2>1, EndInv DEF Seal
<1>2. CASE DigestFails
    <2>1. outcome' \in Refusal /\ Verdict'
        BY <1>2 DEF DigestFails, Refuse, Refusal, Reason, Verdict
    <2> QED
        BY <1>2, <2>1, EndInv DEF DigestFails, Refuse
<1> QED
    BY <1>1, <1>2

\* An accepted entry is not defective and extends both containers.
LEMMA AcceptEntryInv == ASSUME Inv, AcceptEntry PROVE Inv'
<1>1. /\ position < Len(entries) /\ outcome = Pending
      /\ entry.path \notin seen
      /\ entry.type = "hardlink" => Anchored
      /\ seen' = seen \cup {entry.path}
      /\ position' = position + 1
      /\ UNCHANGED <<entries, outcome>>
    BY DEF AcceptEntry, Scanning, AlreadySeen
<1>2. /\ position \in Nat /\ Len(entries) \in Nat
      /\ 1..position' = 1..position \cup {position + 1}
      /\ position' \in 0..Len(entries)
      /\ entry = entries[position + 1] /\ entry \in Entry
    BY <1>1, EntryIsTyped DEF Inv, TypeOK
<1>3. entry.path \in Path
    BY <1>2 DEF Entry
<1>4. /\ DOMAIN regular' = DOMAIN regular \cup
            (IF entry.type = "regular" THEN {entry.path} ELSE {})
      /\ \A p \in DOMAIN regular' : regular'[p] =
            IF entry.type = "regular" /\ p = entry.path THEN position + 1 ELSE regular[p]
    <2>1. CASE entry.type = "regular"
        BY <2>1 DEF AcceptEntry, Emplaced
    <2>2. CASE entry.type # "regular"
        BY <2>2 DEF AcceptEntry, Emplaced
    <2> QED
        BY <2>1, <2>2
<1>5. ~Defective(position + 1)
    <2>1. ~Repeated(position + 1)
        BY <1>1, SeenMeansRepeated
    <2> QED
        BY <1>1, <1>2, <2>1, AnchoredMeansAnchors DEF Defective
<1>6. TypeOK'
    <2>1. DOMAIN regular' \subseteq Path
        BY <1>3, <1>4 DEF Inv, TypeOK
    <2>2. \A p \in DOMAIN regular' : regular'[p] \in 1..Len(entries)
        BY <1>1, <1>2, <1>4 DEF Inv, TypeOK
    <2> QED
        BY <1>1, <1>2, <1>3, <2>1, <2>2 DEF Inv, TypeOK
<1>7. SeenIsPrefix'
    BY <1>1, <1>2 DEF Inv, LoopInv, SeenIsPrefix
<1>8. RegularIsPrefix'
    <2>1. \A j \in 1..position' :
            entries[j].type = "regular" => entries[j].path \in DOMAIN regular'
        BY <1>2, <1>4 DEF Inv, LoopInv, RegularIsPrefix
    <2>2. ASSUME NEW p \in DOMAIN regular'
          PROVE  /\ regular'[p] \in 1..position'
                 /\ entries[regular'[p]].type = "regular"
                 /\ entries[regular'[p]].path = p
        <3>1. CASE entry.type = "regular" /\ p = entry.path
            BY <1>2, <1>4, <3>1
        <3>2. CASE ~(entry.type = "regular" /\ p = entry.path)
            <4>1. p \in DOMAIN regular /\ regular'[p] = regular[p]
                BY <1>4, <3>2
            <4> QED
                BY <1>2, <4>1 DEF Inv, LoopInv, RegularIsPrefix
        <3> QED
            BY <3>1, <3>2
    <2> QED
        BY <1>1, <2>1, <2>2 DEF RegularIsPrefix
<1>9. PrefixIsSound'
    <2>1. \A n \in 1..position' : ~Defective(n)
        BY <1>2, <1>5 DEF Inv, LoopInv, PrefixIsSound
    <2> QED
        BY <1>1, <2>1, DefectIsFixed DEF PrefixIsSound
<1>10. Verdict'
    BY <1>1 DEF Verdict, Pending
<1> QED
    BY <1>6, <1>7, <1>8, <1>9, <1>10 DEF Inv, LoopInv

\* Every step keeps the invariant.
LEMMA NextInv == Inv /\ [Next]_vars => Inv'
<1> SUFFICES ASSUME Inv, [Next]_vars PROVE Inv'
    OBVIOUS
<1>1. CASE RefuseDuplicate
    BY <1>1, RefuseDuplicateInv
<1>2. CASE RefuseLink
    BY <1>2, RefuseLinkInv
<1>3. CASE AcceptEntry
    BY <1>3, AcceptEntryInv
<1>4. CASE Seal \/ DigestFails
    BY <1>4, EndingsInv
<1>5. CASE UNCHANGED vars
    <2>1. Verdict'
        <3>1. Blamed(position + 1)' <=> Blamed(position + 1)
            BY <1>5 DEF vars, Blamed, Repeated, AgreeOnInode
        <3>2. Defective(position + 1)' <=> Defective(position + 1)
            BY <1>5 DEF vars, Defective, Repeated, Anchors, AgreeOnInode
        <3> QED
            BY <1>5, <3>1, <3>2 DEF vars, Inv, LoopInv, Verdict
    <2>2. outcome' \in {Pending} \cup Refusal \cup Sealed
        BY <1>5 DEF vars, Inv, TypeOK
    <2> QED
        BY <1>5, <2>1, <2>2, EndInv DEF vars
<1>6. CASE Done
    BY <1>5, <1>6 DEF Done
<1> QED
    BY <1>1, <1>2, <1>3, <1>4, <1>5, <1>6 DEF Next

-----------------------------------------------------------------------------

\* The loop of seal keeps its type invariant and what its containers stand for.
THEOREM LoopCorrect == Spec => []Inv
BY InitInv, NextInv, PTL DEF Spec

\* Every state of every call is typed: the map holds positions of entries.
THEOREM ManifestTypeCorrect == Spec => []TypeOK
<1>1. Inv => TypeOK
    BY DEF Inv
<1> QED
    BY <1>1, LoopCorrect, PTL

\* A payload of any length is sealed, unchanged, if and only if no entry has a
\* defect (a failure of the digest apart).
THEOREM SealIsExactHolds == Spec => []SealIsExact
<1>1. Inv => SealIsExact
    <2> SUFFICES ASSUME Inv PROVE SealIsExact
        OBVIOUS
    <2>1. position \in Nat /\ Len(entries) \in Nat /\ DOMAIN entries = 1..Len(entries)
        BY DEF Inv, TypeOK
    <2>2. outcome.verdict = "sealed" => \A n \in DOMAIN entries : ~Defective(n)
        BY <2>1 DEF Inv, LoopInv, Verdict, PrefixIsSound
    <2>3. outcome.verdict = "refused" /\ outcome.reason # "digest failure"
            => \E n \in DOMAIN entries : Defective(n)
        <3> SUFFICES ASSUME outcome.verdict = "refused",
                            outcome.reason # "digest failure"
                     PROVE  \E n \in DOMAIN entries : Defective(n)
            OBVIOUS
        <3>1. position < Len(entries) /\ Defective(position + 1)
            BY DEF Inv, LoopInv, Verdict
        <3>2. position + 1 \in DOMAIN entries
            BY <3>1, EntryIsTyped DEF Inv
        <3> QED
            BY <3>1, <3>2
    <2> QED
        BY <2>2, <2>3 DEF Inv, LoopInv, Verdict, SealIsExact
<1> QED
    BY <1>1, LoopCorrect, PTL

\* A refused payload of any length is refused at its first defective entry, for
\* a defect of that entry.
THEOREM BlameIsFirst == Spec => []BlamesFirstDefect
<1>1. Inv => BlamesFirstDefect
    <2> SUFFICES ASSUME Inv, outcome.verdict = "refused",
                        outcome.reason # "digest failure"
                 PROVE  BlamesFirstDefect
        BY DEF BlamesFirstDefect
    <2>1. Defective(position + 1) /\ Blamed(position + 1) /\ position < Len(entries)
        BY DEF Inv, LoopInv, Verdict
    <2>2. position + 1 \in DOMAIN entries /\ (position + 1) - 1 = position
        BY <2>1, EntryIsTyped DEF Inv
    <2>3. \A j \in 1..(position + 1) - 1 : ~Defective(j)
        BY <2>2 DEF Inv, LoopInv, PrefixIsSound
    <2> QED
        BY <2>1, <2>2, <2>3 DEF BlamesFirstDefect, Blamed
<1> QED
    BY <1>1, LoopCorrect, PTL

\* In a vector without defects, an entry with a given anchor path has its
\* metadata and comes no earlier than the entry that is not a link.
LEMMA AnchorIsFirst ==
    ASSUME TypeOK, \A n \in DOMAIN entries : ~Defective(n),
           NEW n \in DOMAIN entries
    PROVE  \E k \in 1..n :
              /\ entries[k].type # "hardlink"
              /\ entries[k].path = AnchorPath(entries[n])
              /\ AgreeOnInode(entries[k], entries[n])
              /\ entries[n].type = "hardlink" => k < n /\ entries[k].type = "regular"
              /\ entries[n].type # "hardlink" => k = n
<1>1. n \in Nat /\ n >= 1 /\ DOMAIN entries = 1..Len(entries)
    BY DEF TypeOK
<1>2. CASE entries[n].type = "hardlink"
    <2>1. PICK j \in DOMAIN entries : Anchors(j, n)
        BY <1>2 DEF Defective
    <2> QED
        BY <1>1, <1>2, <2>1 DEF Anchors, AnchorPath
<1>3. CASE entries[n].type # "hardlink"
    BY <1>1, <1>3 DEF AnchorPath, AgreeOnInode
<1> QED
    BY <1>2, <1>3

\* Two entries of a sealed manifest have different paths.
LEMMA PathsAreDistinct ==
    ASSUME TypeOK, \A n \in DOMAIN entries : ~Defective(n),
           NEW j \in DOMAIN entries, NEW k \in DOMAIN entries,
           entries[j].path = entries[k].path
    PROVE  j = k
<1>1. j \in Nat /\ k \in Nat /\ j >= 1 /\ k >= 1
    BY DEF TypeOK
<1>2. ~(j < k)
    BY <1>1 DEF Defective, Repeated
<1>3. ~(k < j)
    BY <1>1 DEF Defective, Repeated
<1> QED
    BY <1>1, <1>2, <1>3

\* In a sealed payload of any length the names of an inode agree on its
\* metadata, and the one that is not a link comes first.
THEOREM InodesAreConsistentHolds == Spec => []InodesAreConsistent
<1>1. Inv /\ SealIsExact => InodesAreConsistent
    <2> SUFFICES ASSUME Inv, SealIsExact, outcome.verdict = "sealed",
                        NEW m \in DOMAIN entries, NEW n \in DOMAIN entries,
                        AnchorPath(entries[m]) = AnchorPath(entries[n])
                 PROVE  LET a == entries[m] b == entries[n] IN
                        /\ AgreeOnInode(a, b)
                        /\ a.type # "hardlink" /\ b.type # "hardlink" => m = n
                        /\ a.type # "hardlink" => m <= n
                        /\ b.type = "hardlink" =>
                             \E k \in 1..n - 1 : entries[k].type = "regular"
                                               /\ entries[k].path = AnchorPath(b)
        BY DEF SealIsExact, InodesAreConsistent
    <2>1. TypeOK /\ \A x \in DOMAIN entries : ~Defective(x)
        BY DEF Inv, SealIsExact
    <2>2. m \in Nat /\ n \in Nat /\ DOMAIN entries = 1..Len(entries) /\ Len(entries) \in Nat
        BY <2>1 DEF TypeOK
    <2>3. PICK j \in 1..m :
              /\ entries[j].path = AnchorPath(entries[m])
              /\ AgreeOnInode(entries[j], entries[m])
              /\ entries[m].type # "hardlink" => j = m
        BY <2>1, AnchorIsFirst
    <2>4. PICK k \in 1..n :
              /\ entries[k].path = AnchorPath(entries[n])
              /\ AgreeOnInode(entries[k], entries[n])
              /\ entries[n].type = "hardlink" => k < n /\ entries[k].type = "regular"
              /\ entries[n].type # "hardlink" => k = n
        BY <2>1, AnchorIsFirst
    <2>5. j = k
        <3>1. j \in DOMAIN entries /\ k \in DOMAIN entries
            BY <2>2
        <3> QED
            BY <2>1, <2>3, <2>4, <3>1, PathsAreDistinct
    <2>6. AgreeOnInode(entries[m], entries[n])
        BY <2>3, <2>4, <2>5 DEF AgreeOnInode
    <2> QED
        BY <2>2, <2>3, <2>4, <2>5, <2>6
<1> QED
    BY <1>1, LoopCorrect, SealIsExactHolds, PTL

-----------------------------------------------------------------------------
(* The factories *)

\* The metadata of a call are typed, one field at a time.
LEMMA MetadataIsTyped ==
    ASSUME NEW m \in Metadata
    PROVE  /\ m.mode \in Mode /\ m.uid \in Uid /\ m.gid \in Gid
           /\ m.modification_time \in Time
BY MetadataAssumption

\* A mode that is not above the bound of valid_mode is below it.
LEMMA AtMostMaxMode == \A n \in Nat : ~(n > MaxMode) => n <= MaxMode
BY DEF MaxMode

\* push_back keeps a vector a vector of what it holds.
LEMMA AppendKeepsType ==
    ASSUME NEW S, NEW s \in Seq(S), NEW x \in S
    PROVE  Append(s, x) \in Seq(S)
OBVIOUS

\* What the constructor makes of the arguments of a factory, and does not refuse,
\* is an entry, if the optional parts are those of the type.
LEMMA ConstructorMakesEntry ==
    ASSUME NEW type \in EntryType, NEW path \in Path, NEW m \in Metadata, NEW size \in Size,
           NEW symlink \in Target \cup {Absent}, NEW hardlink \in Path \cup {Absent},
           NEW device \in Device \cup {Absent}, NEW content \in Digest \cup {Absent},
           type = "symlink" <=> symlink # Absent,
           type = "hardlink" <=> hardlink # Absent,
           type \in {"character_device", "block_device"} <=> device # Absent,
           type = "regular" <=> content # Absent,
           type # "regular" => size = 0,
           Refused(payload_entry(type, path, m, size, symlink, hardlink, device, content)) = "not refused"
    PROVE  payload_entry(type, path, m, size, symlink, hardlink, device, content) \in Entry
<1> DEFINE e == payload_entry(type, path, m, size, symlink, hardlink, device, content)
<1>1. /\ e.path = path /\ e.type = type /\ e.mode = m.mode /\ e.size = size
      /\ e.modification_time = m.modification_time
      /\ e.symlink_target = symlink /\ e.hardlink_target = hardlink
      /\ e.device = device /\ e.regular_content = content
    BY DEF payload_entry
<1>2. e \in [path : Path, type : EntryType, mode : Mode, uid : Uid, gid : Gid,
             size : Size, modification_time : Time,
             symlink_target : Target \cup {Absent},
             hardlink_target : Path \cup {Absent}, device : Device \cup {Absent},
             regular_content : Digest \cup {Absent}]
    BY MetadataIsTyped DEF payload_entry
<1> HIDE DEF e
<1>3. Refused(e) = "not refused"
    BY DEF e
<1>4. ~(e.type = "symlink" /\ ~require_line_safe(e.symlink_target))
    BY <1>3 DEF Refused
<1>5. e.mode \in Nat /\ e.modification_time.nanoseconds \in Nat
    BY <1>2, ArgumentsAssumption
<1>6. ~(e.mode > MaxMode) /\ WithinASecond(e.modification_time)
    BY <1>3, <1>4 DEF Refused
<1>7. e.mode <= MaxMode /\ e.modification_time.nanoseconds < NanosecondsPerSecond
    BY <1>5, <1>6, AtMostMaxMode, Zenon DEF WithinASecond
<1>8. /\ OnlyFor({"symlink"}, e, e.symlink_target)
      /\ OnlyFor({"hardlink"}, e, e.hardlink_target)
      /\ OnlyFor({"character_device", "block_device"}, e, e.device)
      /\ OnlyFor({"regular"}, e, e.regular_content)
      /\ e.type # "regular" => e.size = 0
    BY <1>1 DEF OnlyFor
<1>9. e \in Entry
    BY <1>2, <1>4, <1>7, <1>8 DEF Entry
<1> QED
    BY <1>9 DEF e

\* Every factory returns an entry or throws.
LEMMA FactoriesMakeEntries ==
    ASSUME NEW e, Refused(e) = "not refused", NEW path \in Path, NEW m \in Metadata,
           \/ \E size \in Size, content \in Digest : e = regular_entry(path, m, size, content)
           \/ e = directory_entry(path, m)
           \/ \E target \in Target : e = symlink_entry(path, m, target)
           \/ \E target \in Path : e = hardlink_entry(path, m, target)
           \/ e = fifo_entry(path, m)
           \/ \E device \in Device : e = character_device_entry(path, m, device)
           \/ \E device \in Device : e = block_device_entry(path, m, device)
    PROVE  e \in Entry
<1>0. /\ 0 \in Size
      /\ \A t \in Target : t # Absent
      /\ \A p \in Path : p # Absent
      /\ \A d \in Device : d # Absent
      /\ \A d \in Digest : d # Absent
      /\ \A type \in {"regular", "directory", "symlink", "hardlink", "fifo",
                      "character_device", "block_device"} : type \in EntryType
    BY ArgumentsAssumption, AbsentAssumption DEF EntryType
<1>1. CASE \E size \in Size, content \in Digest : e = regular_entry(path, m, size, content)
    BY <1>0, <1>1, ConstructorMakesEntry DEF regular_entry
<1>2. CASE e = directory_entry(path, m)
    BY <1>0, <1>2, ConstructorMakesEntry DEF directory_entry
<1>3. CASE \E target \in Target : e = symlink_entry(path, m, target)
    BY <1>0, <1>3, ConstructorMakesEntry DEF symlink_entry
<1>4. CASE \E target \in Path : e = hardlink_entry(path, m, target)
    BY <1>0, <1>4, ConstructorMakesEntry DEF hardlink_entry
<1>5. CASE e = fifo_entry(path, m)
    BY <1>0, <1>5, ConstructorMakesEntry DEF fifo_entry
<1>6. CASE \E device \in Device : e = character_device_entry(path, m, device)
    BY <1>0, <1>6, ConstructorMakesEntry DEF character_device_entry
<1>7. CASE \E device \in Device : e = block_device_entry(path, m, device)
    BY <1>0, <1>7, ConstructorMakesEntry DEF block_device_entry
<1> QED
    BY <1>1, <1>2, <1>3, <1>4, <1>5, <1>6, <1>7

\* A call appends an entry or changes nothing but the reason.
LEMMA CallKeepsType ==
    ASSUME AssemblyTypeOK, NEW e, Call(e), Refused(e) = "not refused" => e \in Entry
    PROVE  AssemblyTypeOK'
<1>1. Refused(e) \in {"not refused", "target not line-safe", "mode too large", "time out of range"}
    BY DEF Refused
<1>2. CASE Refused(e) = "not refused"
    <2>1. entries \in Seq(Entry) /\ e \in Entry
        BY <1>2 DEF AssemblyTypeOK
    <2>2. Append(entries, e) \in Seq(Entry)
        BY <2>1, AppendKeepsType, Zenon
    <2>3. entries' = Append(entries, e) /\ thrown' = "not refused"
        BY <1>2 DEF Call
    <2> QED
        BY <2>2, <2>3 DEF AssemblyTypeOK
<1>3. CASE Refused(e) # "not refused"
    BY <1>1, <1>3 DEF Call, AssemblyTypeOK
<1> QED
    BY <1>2, <1>3

\* The loop of seal reads the entries and does not change them.
LEMMA SealingKeepsEntries == Sealing => UNCHANGED <<entries, thrown>>
BY DEF Sealing, Next, RefuseDuplicate, RefuseLink, AcceptEntry, Seal, DigestFails, Done,
       Refuse, vars

\* Every vector that seal can get from a client is typed: payload_manifest::seal
\* may take the shape and the ranges of its entries for granted.
THEOREM AssemblyTypeCorrect == AssemblySpec => []AssemblyTypeOK
<1>1. AssemblyInit => AssemblyTypeOK
    <2>1. <<>> \in Seq(Entry)
        OBVIOUS
    <2> QED
        BY <2>1 DEF AssemblyInit, AssemblyTypeOK
<1>2. AssemblyTypeOK /\ [AssemblyNext]_assemblyVars => AssemblyTypeOK'
    <2> SUFFICES ASSUME AssemblyTypeOK, [AssemblyNext]_assemblyVars
                 PROVE  AssemblyTypeOK'
        OBVIOUS
    <2>1. CASE CallRegular
        BY <2>1, CallKeepsType, FactoriesMakeEntries DEF CallRegular
    <2>2. CASE CallDirectory
        BY <2>2, CallKeepsType, FactoriesMakeEntries DEF CallDirectory
    <2>3. CASE CallSymlink
        BY <2>3, CallKeepsType, FactoriesMakeEntries DEF CallSymlink
    <2>4. CASE CallHardlink
        BY <2>4, CallKeepsType, FactoriesMakeEntries DEF CallHardlink
    <2>5. CASE CallFifo
        BY <2>5, CallKeepsType, FactoriesMakeEntries DEF CallFifo
    <2>6. CASE CallDevice
        BY <2>6, CallKeepsType, FactoriesMakeEntries DEF CallDevice
    <2>7. CASE CallSeal
        BY <2>7 DEF CallSeal, AssemblyTypeOK
    <2>8. CASE Sealing
        BY <2>8, SealingKeepsEntries DEF AssemblyTypeOK
    <2>9. CASE UNCHANGED assemblyVars
        BY <2>9 DEF assemblyVars, vars, AssemblyTypeOK
    <2> QED
        BY <2>1, <2>2, <2>3, <2>4, <2>5, <2>6, <2>7, <2>8, <2>9 DEF AssemblyNext
<1> QED
    BY <1>1, <1>2, PTL DEF AssemblySpec

\* Two times within a second of their seconds are ordered and told apart as the
\* instants are.
LEMMA InstantsOrder ==
    ASSUME NEW s \in [seconds : Int, nanoseconds : Nat],
           NEW t \in [seconds : Int, nanoseconds : Nat],
           s.nanoseconds < NanosecondsPerSecond, t.nanoseconds < NanosecondsPerSecond
    PROVE  /\ Earlier(s, t) <=> Instant(s) < Instant(t)
           /\ SameTime(s, t) <=> Instant(s) = Instant(t)
BY DEF Earlier, SameTime, Instant, NanosecondsPerSecond

\* In every payload a client can assemble, times are instants.
THEOREM TimesAreInstantsHolds == AssemblySpec => []TimesAreInstants
<1>1. AssemblyTypeOK => TimesAreInstants
    <2> SUFFICES ASSUME AssemblyTypeOK, NEW m \in DOMAIN entries, NEW n \in DOMAIN entries
                 PROVE  LET s == entries[m].modification_time
                            t == entries[n].modification_time
                        IN  /\ Earlier(s, t) <=> Instant(s) < Instant(t)
                            /\ SameTime(s, t) <=> Instant(s) = Instant(t)
        BY DEF TimesAreInstants
    <2>1. entries[m] \in Entry /\ entries[n] \in Entry
        <3>1. entries \in Seq(Entry)
            BY DEF AssemblyTypeOK
        <3> QED
            BY <3>1
    <2>2. \A e \in Entry :
            /\ e.modification_time \in [seconds : Int, nanoseconds : Nat]
            /\ e.modification_time.nanoseconds < NanosecondsPerSecond
        BY ArgumentsAssumption DEF Entry
    <2> QED
        BY <2>1, <2>2, InstantsOrder
<1> QED
    BY <1>1, AssemblyTypeCorrect, PTL

-----------------------------------------------------------------------------
(* What an entry is hashed as *)

\* The proofs about the records, for the entries here: those of a writer that has
\* nothing to name yet.
Hashed ==
    INSTANCE IdentityWriter_proofs
    WITH Records <- {}, MaxNamed <- 0, stage <- "outside", record <- Absent,
         todo <- <<>>, stream <- <<>>, context <- "null", allocated <- 0, named <- {}

\* The numbers of a record are those the proofs are about.
LEMMA SamePowers == Identity!power = Hashed!power
BY Zenon DEF Identity!power, Hashed!power

\* The texts and numbers of a record are those the proofs are about.
LEMMA SameSets ==
    /\ Identity!Modulus = Hashed!Modulus /\ Identity!Byte = Hashed!Byte
    /\ Identity!Text = Hashed!Text /\ Identity!Unsigned = Hashed!Unsigned
    /\ Identity!Signed = Hashed!Signed
<1>1. Identity!Modulus = Hashed!Modulus /\ Identity!Byte = Hashed!Byte
    BY SamePowers, Zenon DEF Identity!Modulus, Hashed!Modulus, Identity!Byte, Hashed!Byte
<1> QED
    BY <1>1, Zenon DEF Identity!Text, Hashed!Text, Identity!Unsigned, Hashed!Unsigned,
       Identity!Signed, Hashed!Signed

\* Each field is written as in the proofs.
LEMMA SameFields ==
    /\ \A n : Identity!number(n) = Hashed!number(n)
    /\ \A v : Identity!text(v) = Hashed!text(v)
    /\ \A b : Identity!boolean(b) = Hashed!boolean(b)
    /\ \A v : Identity!optional(v) = Hashed!optional(v)
    /\ \A v : Identity!enumerator(v) = Hashed!enumerator(v)
<1>1. \A n : Identity!number(n) = Hashed!number(n)
    BY SamePowers, SameSets, Zenon DEF Identity!number, Hashed!number
<1>2. \A v : Identity!text(v) = Hashed!text(v)
    BY <1>1, Zenon DEF Identity!text, Hashed!text
<1>3. \A b : Identity!boolean(b) = Hashed!boolean(b)
    BY <1>1, Zenon DEF Identity!boolean, Hashed!boolean
<1>4. \A v : Identity!optional(v) = Hashed!optional(v)
    BY <1>2, <1>3, Zenon DEF Identity!optional, Hashed!optional
<1> QED
    BY <1>1, <1>2, <1>3, <1>4, Zenon DEF Identity!enumerator, Hashed!enumerator

\* An entry is written as in the proofs.
LEMMA SameRecord ==
    ASSUME NEW e
    PROVE  Identity!write_payload_entry(e) = Hashed!write_payload_entry(e)
BY SameFields, Zenon DEF Identity!write_payload_entry, Hashed!write_payload_entry

\* Its bytes are those of the proofs.
LEMMA SameBytes ==
    ASSUME NEW e
    PROVE  Identity!entry_bytes(e) = Hashed!entry_bytes(e)
<1>1. \A s : Identity!FlattenSeq(s) = Hashed!FlattenSeq(s)
    BY Zenon DEF Identity!FlattenSeq, Hashed!FlattenSeq
<1> QED
    BY <1>1, SameRecord, Zenon DEF Identity!entry_bytes, Hashed!entry_bytes

\* What the proofs take for granted of the names is true of them here.
LEMMA SameNames == Hashed!NamesAreDistinct
BY RecordsAssumption, SameSets, Zenon
   DEF Identity!NamesAreDistinct, Hashed!NamesAreDistinct, Identity!Spellable, Hashed!Spellable,
       Identity!Protocols, Hashed!Protocols, Identity!EntryTypes, Hashed!EntryTypes,
       Identity!Compressions, Hashed!Compressions, Identity!Scopes, Hashed!Scopes,
       Identity!Outcomes, Hashed!Outcomes, Identity!Fixed, Hashed!Fixed

\* An entry has the parts of a record that is hashed.
LEMMA EntryIsRecord == \A e \in Entry : e \in Hashed!payload_entry
<1> TAKE e \in Entry
<1>1. /\ e \in [path : Path, type : EntryType, mode : Mode, uid : Uid, gid : Gid,
                size : Size, modification_time : Time,
                symlink_target : Target \cup {Absent},
                hardlink_target : Path \cup {Absent}, device : Device \cup {Absent},
                regular_content : Digest \cup {Absent}]
    BY DEF Entry
<1>2. /\ Path \subseteq Hashed!Text /\ Target \subseteq Hashed!Text
      /\ Digest \subseteq Hashed!Text
      /\ Mode \subseteq Hashed!Unsigned /\ Uid \subseteq Hashed!Unsigned
      /\ Gid \subseteq Hashed!Unsigned /\ Size \subseteq Hashed!Unsigned
      /\ Device \subseteq Hashed!Unsigned \X Hashed!Unsigned
      /\ Time \subseteq [seconds : Hashed!Signed, nanoseconds : Hashed!Unsigned]
    BY RecordsAssumption, SameSets
<1>3. EntryType = Hashed!EntryTypes
    BY DEF EntryType, Hashed!EntryTypes
<1> QED
    BY <1>1, <1>2, <1>3 DEF Hashed!payload_entry, Hashed!Optional

\* Entries are hashed as the same bytes only if they are the same.
LEMMA EntriesDiffer ==
    ASSUME NEW a \in Entry, NEW b \in Entry,
           Identity!entry_bytes(a) = Identity!entry_bytes(b)
    PROVE  a = b
<1>1. Hashed!entry_bytes(a) = Hashed!entry_bytes(b)
    BY SameBytes
<1>2. a \in Hashed!payload_entry /\ b \in Hashed!payload_entry
    BY EntryIsRecord
<1>3. Base \in Nat \ {0, 1} /\ Width \in Nat \ {0}
    BY RecordsAssumption
<1> QED
    BY <1>1, <1>2, <1>3, SameNames, Hashed!EntryBytesCoded

\* The comparison of entries leaves out none of their parts.
LEMMA SameEntryIsEqual ==
    ASSUME NEW a \in Entry, NEW b \in Entry
    PROVE  SameEntry(a, b) <=> a = b
<1>1. a = b => SameEntry(a, b)
    BY DEF SameEntry, SameTime
<1>2. ASSUME SameEntry(a, b) PROVE a = b
    <2>1. /\ a.path = b.path /\ a.type = b.type /\ a.mode = b.mode /\ a.uid = b.uid
          /\ a.gid = b.gid /\ a.size = b.size /\ a.symlink_target = b.symlink_target
          /\ a.hardlink_target = b.hardlink_target /\ a.device = b.device
          /\ a.regular_content = b.regular_content
        BY <1>2 DEF SameEntry
    <2>2. a.modification_time \in Time /\ b.modification_time \in Time
        BY DEF Entry
    <2>3. a.modification_time = b.modification_time
        BY <1>2, <2>2, ArgumentsAssumption DEF SameEntry, SameTime
    <2> QED
        BY <2>1, <2>3 DEF Entry
<1> QED
    BY <1>1, <1>2

\* In every payload a client can assemble, of any length, entries compare equal
\* exactly if they are hashed as the same bytes.
THEOREM EqualityIsOfRecordsHolds == AssemblySpec => []EqualityIsOfRecords
<1>1. AssemblyTypeOK => EqualityIsOfRecords
    <2> SUFFICES ASSUME AssemblyTypeOK, NEW n \in DOMAIN entries, NEW m \in 1..n - 1
                 PROVE  SameEntry(entries[m], entries[n])
                            <=> Identity!entry_bytes(entries[m]) = Identity!entry_bytes(entries[n])
        BY DEF EqualityIsOfRecords
    <2>1. entries[m] \in Entry /\ entries[n] \in Entry
        <3>1. PICK s \in Seq(Entry), l \in Nat : s = entries /\ l = Len(s) /\ DOMAIN s = 1..l
            BY LenProperties DEF AssemblyTypeOK
        <3>2. n \in 1..l /\ m \in 1..l
            BY <3>1
        <3> QED
            BY <3>1, <3>2
    <2>2. PICK a \in Entry, b \in Entry : a = entries[m] /\ b = entries[n]
        BY <2>1
    <2>3. a = b => Identity!entry_bytes(a) = Identity!entry_bytes(b)
        OBVIOUS
    <2> QED
        BY <2>2, <2>3, EntriesDiffer, SameEntryIsEqual
<1> QED
    BY <1>1, AssemblyTypeCorrect, PTL

=============================================================================
