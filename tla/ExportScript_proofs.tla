------------------------- MODULE ExportScript_proofs -------------------------
(***************************************************************************)
(* Proofs that the exit status of the script generator tells a good list   *)
(* from the others, that a good list is exported as it is, and what a      *)
(* refused one leaves, for lists of any length and any symbols.            *)
(***************************************************************************)
EXTENDS ExportScript, SequenceTheorems, FiniteSetTheorems, TLAPS

-----------------------------------------------------------------------------
(* Lists of symbols *)

\* A list of no lines has no symbols.
LEMMA ListsNone == ASSUME NEW lines PROVE Lists(<<>>, lines, 0)
<1> DEFINE place == [k \in 1..0 |-> k]
<1>1. place \in [1..Len(<<>>) -> 1..0] /\ DOMAIN place = {} /\ 1..0 = {}
    OBVIOUS
<1>2. <<>> = [k \in DOMAIN place |-> lines[place[k]]]
    BY <1>1
<1> HIDE DEF place
<1>3. {place[k] : k \in DOMAIN place} = {i \in 1..0 : lines[i] \in Symbol}
    BY <1>1
<1>4. \A k, l \in DOMAIN place : k < l => place[k] < place[l]
    BY <1>1
<1> QED
    BY <1>1, <1>2, <1>3, <1>4, Zenon DEF Lists

\* A line that is no symbol adds none.
LEMMA ListsSkip ==
    ASSUME NEW lines, NEW n \in Nat, NEW exported, Lists(exported, lines, n),
           lines[n + 1] \notin Symbol
    PROVE  Lists(exported, lines, n + 1)
<1>1. PICK place \in [1..Len(exported) -> 1..n] :
        /\ \A k, l \in DOMAIN place : k < l => place[k] < place[l]
        /\ {place[k] : k \in DOMAIN place} = {i \in 1..n : lines[i] \in Symbol}
        /\ exported = [k \in DOMAIN place |-> lines[place[k]]]
    BY DEF Lists
<1>2. 1..n + 1 = (1..n) \cup {n + 1}
    OBVIOUS
<1>3. {i \in 1..n + 1 : lines[i] \in Symbol} = {i \in 1..n : lines[i] \in Symbol}
    BY <1>2
<1>4. place \in [1..Len(exported) -> 1..n + 1]
    BY <1>1, <1>2
<1> QED
    BY <1>1, <1>3, <1>4, Zenon DEF Lists

\* A symbol is exported after those before it.
LEMMA ListsSymbol ==
    ASSUME NEW lines, NEW n \in Nat, NEW exported \in Seq(Symbol),
           Lists(exported, lines, n), lines[n + 1] \in Symbol
    PROVE  Lists(Append(exported, lines[n + 1]), lines, n + 1)
<1>1. PICK place \in [1..Len(exported) -> 1..n] :
        /\ \A k, l \in DOMAIN place : k < l => place[k] < place[l]
        /\ {place[k] : k \in DOMAIN place} = {i \in 1..n : lines[i] \in Symbol}
        /\ exported = [k \in DOMAIN place |-> lines[place[k]]]
    BY DEF Lists
<1>2. PICK m \in Nat : m = Len(exported)
    BY LenProperties
<1> DEFINE next == [k \in 1..m + 1 |-> IF k = m + 1 THEN n + 1 ELSE place[k]]
<1>3. 1..m + 1 = (1..m) \cup {m + 1} /\ m + 1 \notin 1..m /\ 1..n + 1 = (1..n) \cup {n + 1}
    BY <1>2
<1>4. DOMAIN place = 1..m /\ \A k \in 1..m : place[k] \in 1..n
    BY <1>1, <1>2
<1>5. DOMAIN next = 1..m + 1 /\ next[m + 1] = n + 1 /\ \A k \in 1..m : next[k] = place[k]
    BY <1>3
<1>6. next \in [1..m + 1 -> 1..n + 1]
    BY <1>3, <1>4
<1> HIDE DEF next
<1>7. \A k, l \in DOMAIN next : k < l => next[k] < next[l]
    <2> SUFFICES ASSUME NEW k \in 1..m + 1, NEW l \in 1..m + 1, k < l
                 PROVE  next[k] < next[l]
        BY <1>5
    <2>1. k \in 1..m
        BY <1>2
    <2>2. CASE l = m + 1
        BY <2>1, <2>2, <1>4, <1>5
    <2>3. CASE l \in 1..m
        BY <2>1, <2>3, <1>1, <1>4, <1>5
    <2> QED
        BY <1>3, <2>2, <2>3
<1>8. {next[k] : k \in DOMAIN next} = {i \in 1..n + 1 : lines[i] \in Symbol}
    <2>1. {next[k] : k \in DOMAIN next} = {place[k] : k \in DOMAIN place} \cup {n + 1}
        BY <1>3, <1>4, <1>5
    <2>2. {i \in 1..n + 1 : lines[i] \in Symbol}
            = {i \in 1..n : lines[i] \in Symbol} \cup {n + 1}
        BY <1>3
    <2> QED
        BY <1>1, <2>1, <2>2
<1>9. PICK longer \in Seq(Symbol) : longer = Append(exported, lines[n + 1])
    <2>1. Append(exported, lines[n + 1]) \in Seq(Symbol)
        BY AppendProperties
    <2> QED
        BY <2>1
<1>10. Len(longer) = m + 1 /\ DOMAIN longer = 1..m + 1
       /\ longer = [k \in 1..m + 1 |-> longer[k]]
    BY <1>2, <1>9, LenProperties
<1>11. longer = [k \in DOMAIN next |-> lines[next[k]]]
    <2>1. ASSUME NEW k \in 1..m + 1 PROVE longer[k] = lines[next[k]]
        <3>1. CASE k = m + 1
            BY <3>1, <1>2, <1>5, <1>9
        <3>2. CASE k \in 1..m
            <4>1. longer[k] = exported[k]
                BY <3>2, <1>2, <1>9
            <4>2. exported[k] = lines[place[k]]
                BY <3>2, <1>1, <1>4
            <4> QED
                BY <3>2, <4>1, <4>2, <1>5
        <3> QED
            BY <1>3, <3>1, <3>2
    <2> QED
        BY <2>1, <1>5, <1>10, Zenon
<1>12. next \in [1..Len(longer) -> 1..n + 1]
    BY <1>6, <1>10
<1>13. Lists(longer, lines, n + 1)
    BY <1>7, <1>8, <1>11, <1>12, Zenon DEF Lists
<1> QED
    BY <1>9, <1>13

\* Without a symbol there is nothing to export.
LEMMA ListsEmpty ==
    ASSUME NEW lines, NEW n \in Nat, NEW exported \in Seq(Symbol),
           Lists(exported, lines, n), ~HasSymbol(lines, n)
    PROVE  exported = <<>>
<1>1. PICK place \in [1..Len(exported) -> 1..n] :
        {place[k] : k \in DOMAIN place} = {i \in 1..n : lines[i] \in Symbol}
    BY DEF Lists
<1>2. DOMAIN place = {}
    BY <1>1 DEF HasSymbol
<1>3. 1..Len(exported) = {} /\ Len(exported) \in Nat
    BY <1>1, <1>2, LenProperties
<1>4. Len(exported) = 0
    BY <1>3, 1 \in 1..Len(exported) \/ Len(exported) = 0
<1> QED
    BY <1>4, EmptySeq

\* What a script is printed from: the words and, among them, the symbols.
Word == Symbol \cup {"{", "global:", "local:", "*;", "};"}

\* Symbols are words, and so are the other lines of a script.
LEMMA Words ==
    /\ Seq(Symbol) \subseteq Seq(Word)
    /\ <<"{", "global:">> \in Seq(Word) /\ <<"local:", "*;", "};">> \in Seq(Word)
<1>1. PICK W : W = Word
    OBVIOUS
<1>2. Symbol \subseteq W /\ {"{", "global:", "local:", "*;", "};"} \subseteq W
    BY <1>1 DEF Word
<1>3. Seq(Symbol) \subseteq Seq(W)
    BY <1>2, SeqMonotonic
<1>4. \A a, b, c \in W : <<a, b>> \in Seq(W) /\ <<a, b, c>> \in Seq(W)
    OBVIOUS
<1> QED
    BY <1>1, <1>2, <1>3, <1>4

\* The parts of a joined list.
LEMMA Joined ==
    ASSUME NEW W, NEW u \in Seq(W), NEW v \in Seq(W)
    PROVE  /\ u \o v \in Seq(W) /\ Len(u \o v) = Len(u) + Len(v)
           /\ \A i \in 1..Len(u) : (u \o v)[i] = u[i]
           /\ \A i \in 1..Len(v) : (u \o v)[Len(u) + i] = v[i]
<1>1. PICK m \in Nat, n \in Nat : m = Len(u) /\ n = Len(v)
    BY LenProperties
<1>2. PICK s : s = u \o v
    OBVIOUS
<1>3. /\ s \in Seq(W) /\ Len(s) = Len(u) + Len(v)
      /\ \A i \in 1..Len(u) + Len(v) : s[i] = IF i <= Len(u) THEN u[i] ELSE v[i - Len(u)]
    BY ONLY u \in Seq(W), v \in Seq(W), <1>2, ConcatProperties
<1>4. \A i \in 1..m + n : s[i] = IF i <= m THEN u[i] ELSE v[i - m]
    BY <1>1, <1>3
<1>5. ASSUME NEW i \in 1..m PROVE s[i] = u[i]
    <2>1. i \in 1..m + n /\ i <= m
        OBVIOUS
    <2> QED
        BY <1>4, <2>1
<1>6. ASSUME NEW i \in 1..n PROVE s[m + i] = v[i]
    <2>1. m + i \in 1..m + n /\ ~(m + i <= m) /\ (m + i) - m = i
        OBVIOUS
    <2>2. s[m + i] = v[(m + i) - m]
        BY <1>4, <2>1
    <2> QED
        BY <2>1, <2>2
<1> QED
    BY <1>1, <1>2, <1>3, <1>5, <1>6, Zenon

\* The middle of a list that starts with two words and ends in three.
LEMMA Middle ==
    ASSUME NEW W, NEW e \in Seq(W), NEW h \in Seq(W), Len(h) = 2, NEW t \in Seq(W), Len(t) = 3
    PROVE  /\ (h \o e) \o t \in Seq(W)
           /\ SubSeq((h \o e) \o t, 3, Len((h \o e) \o t) - 3) = e
<1>1. PICK m \in Nat : m = Len(e)
    BY LenProperties
<1>2. PICK l : l = h \o e
    OBVIOUS
<1>3. l \in Seq(W) /\ Len(l) = m + 2 /\ \A i \in 1..m : l[2 + i] = e[i]
    <2>1. /\ l \in Seq(W) /\ Len(l) = Len(h) + Len(e)
          /\ \A i \in 1..Len(e) : l[Len(h) + i] = e[i]
        BY ONLY h \in Seq(W), e \in Seq(W), <1>2, Joined
    <2>2. l \in Seq(W) /\ Len(l) = m + 2
        BY <1>1, <2>1
    <2>3. ASSUME NEW i \in 1..m PROVE l[2 + i] = e[i]
        <3>1. l[Len(h) + i] = e[i]
            BY ONLY i \in 1..m, <1>1, <2>1
        <3> QED
            BY <3>1
    <2> QED
        BY <2>2, <2>3
<1>4. PICK s : s = l \o t
    OBVIOUS
<1>5. s \in Seq(W) /\ Len(s) = m + 5 /\ \A i \in 1..m + 2 : s[i] = l[i]
    <2>1. /\ s \in Seq(W) /\ Len(s) = Len(l) + Len(t)
          /\ \A i \in 1..Len(l) : s[i] = l[i]
        BY ONLY <1>3, t \in Seq(W), <1>4, Joined
    <2> QED
        BY <1>3, <2>1
<1>6. ASSUME NEW i \in 1..m PROVE s[2 + i] = e[i]
    <2>1. 2 + i \in 1..m + 2
        OBVIOUS
    <2> QED
        BY <1>3, <1>5, <2>1
<1>7. PICK u : u = SubSeq(s, 3, m + 2)
    OBVIOUS
<1>8. u \in Seq(W) /\ Len(u) = m /\ \A i \in 1..m : u[i] = s[2 + i]
    <2>1. ASSUME NEW i \in 3..m + 2 PROVE s[i] \in W
        <3>1. i \in 1..Len(s)
            BY <1>5
        <3> QED
            BY ONLY <1>5, <3>1, ElementOfSeq
    <2>2. 3 \in Int /\ m + 2 \in Int
        OBVIOUS
    <2>3. /\ u \in Seq(W)
          /\ Len(u) = IF 3 <= m + 2 THEN m + 2 - 3 + 1 ELSE 0
          /\ \A i \in 1..m + 2 - 3 + 1 : u[i] = s[3 + i - 1]
        BY ONLY <1>7, <2>1, <2>2, SubSeqProperties
    <2>4. Len(u) = m
        BY <2>3
    <2>5. ASSUME NEW i \in 1..m PROVE u[i] = s[2 + i]
        <3>1. i \in 1..m + 2 - 3 + 1 /\ 3 + i - 1 = 2 + i
            OBVIOUS
        <3>2. u[i] = s[3 + i - 1]
            BY <2>3, <3>1
        <3> QED
            BY <3>1, <3>2
    <2> QED
        BY <2>3, <2>4, <2>5
<1>9. u = e
    <2>1. Len(u) = Len(e) /\ \A k \in 1..Len(u) : u[k] = e[k]
        BY <1>1, <1>6, <1>8
    <2> QED
        BY <1>8, <2>1, SeqEqual
<1>10. Len(s) - 3 = m + 2
    BY <1>5
<1>11. s \in Seq(W) /\ SubSeq(s, 3, Len(s) - 3) = e /\ s = (h \o e) \o t
    BY <1>2, <1>4, <1>5, <1>7, <1>9, <1>10
<1> QED
    BY <1>11

\* A complete script tells what it exports.
LEMMA ExportedOf ==
    ASSUME NEW exported \in Seq(Symbol), NEW script,
           script = <<"{", "global:">> \o exported \o <<"local:", "*;", "};">>
    PROVE  script \in Seq(Word) /\ SubSeq(script, 3, Len(script) - 3) = exported
<1>1. Len(<<"{", "global:">>) = 2 /\ Len(<<"local:", "*;", "};">>) = 3
    OBVIOUS
<1>2. exported \in Seq(Word)
    BY Words
<1>3. PICK h \in Seq(Word), t \in Seq(Word) :
        h = <<"{", "global:">> /\ t = <<"local:", "*;", "};">>
    BY Words
<1>4. Len(h) = 2 /\ Len(t) = 3 /\ script = (h \o exported) \o t
    BY <1>1, <1>3
<1>5. PICK W : W = Word
    OBVIOUS
<1>6. exported \in Seq(W) /\ h \in Seq(W) /\ t \in Seq(W) /\ Len(h) = 2 /\ Len(t) = 3
    BY <1>2, <1>4, <1>5
<1>7. /\ (h \o exported) \o t \in Seq(W)
      /\ SubSeq((h \o exported) \o t, 3, Len((h \o exported) \o t) - 3) = exported
    BY ONLY <1>6, Middle
<1> QED
    BY <1>4, <1>5, <1>7

-----------------------------------------------------------------------------
(* The invariant *)

Message == {"invalid symbol", "duplicate symbol", "no symbols"}

\* TypeOK apart from the texts that are printed.
ScalarsOK ==
    /\ manifest \in Manifests
    /\ rule \in {"BEGIN", "line", "END", "exited"}
    /\ record \in 1..Len(manifest) + 1
    /\ seen \subseteq Symbol
    /\ symbols = Cardinality(seen)
    /\ status \in {0, 1}

TextsOK == output \in Seq(Word) /\ errors \in Seq(Message)

\* How many lines have been read and accepted.
Read == record - 1

\* The array holds the symbols that were read, each of them once.
ReadInv ==
    /\ IsFiniteSet(seen)
    /\ seen = {manifest[i] : i \in {k \in 1..Read : manifest[k] \in Symbol}}
    /\ Flawless(manifest, Read)

\* The output is the head of a script and the symbols that were read, then the tail,
\* unless no symbol was read.
OutputInv ==
    /\ rule = "BEGIN" => record = 1 /\ output = <<>>
    /\ rule # "BEGIN" =>
        \E exported \in Seq(Symbol) :
            /\ Lists(exported, manifest, Read)
            /\ output = IF rule = "exited" /\ symbols # 0
                        THEN <<"{", "global:">> \o exported \o <<"local:", "*;", "};">>
                        ELSE <<"{", "global:">> \o exported

\* The next line is one to refuse.
Refused == record <= Len(manifest) /\ ~Flawless(manifest, record)

\* The status is set with the first message; END is reached after the last line or
\* from a line to refuse.
StatusInv ==
    /\ status = 0 <=> errors = <<>>
    /\ rule \in {"BEGIN", "line"} => status = 0
    /\ rule = "END" => IF status = 0 THEN Read = Len(manifest) ELSE Refused
    /\ rule = "exited" => IF status = 0 THEN Read = Len(manifest) /\ symbols # 0
                          ELSE Refused \/ (Read = Len(manifest) /\ symbols = 0)

Inv == ScalarsOK /\ TextsOK /\ ReadInv /\ OutputInv /\ StatusInv

\* Nothing is read yet.
LEMMA InitInv == Init => Inv
<1> SUFFICES ASSUME Init PROVE Inv
    OBVIOUS
<1>1. manifest \in Seq(Line) /\ Len(manifest) \in Nat /\ record = 1 /\ Read = 0 /\ 1..0 = {}
    BY LinesAssumption, LenProperties DEF Init, Read
<1>2. ScalarsOK /\ TextsOK
    BY <1>1, FS_EmptySet, EmptySeq DEF Init, ScalarsOK, TextsOK
<1>3. ReadInv
    BY <1>1, FS_EmptySet DEF Init, ReadInv, Flawless
<1>4. OutputInv /\ StatusInv
    BY DEF Init, OutputInv, StatusInv
<1> QED
    BY <1>2, <1>3, <1>4 DEF Inv

\* The head is printed before anything is read.
LEMMA BeginInv == ASSUME Inv, Begin PROVE Inv'
<1> USE DEF Inv, Begin
<1>1. manifest' = manifest /\ record' = record /\ Read' = Read /\ record = 1 /\ Read = 0
    <2>1. rule = "BEGIN" => record = 1
        BY DEF OutputInv
    <2>2. manifest' = manifest /\ record' = record /\ record = 1
        BY <2>1
    <2> QED
        BY ONLY <2>2 DEF Read
<1>2. ScalarsOK' /\ TextsOK'
    BY Words DEF ScalarsOK, TextsOK
<1>3. ReadInv'
    BY <1>1 DEF ReadInv
<1>4. OutputInv'
    <2>1. Lists(<<>>, manifest', Read')
        BY <1>1, ListsNone
    <2>2. output' = <<"{", "global:">> \o <<>>
        BY Words, ConcatEmptySeq
    <2>3. <<>> \in Seq(Symbol) /\ rule' = "line"
        BY EmptySeq
    <2> QED
        BY <2>1, <2>2, <2>3 DEF OutputInv
<1> QED
    BY <1>2, <1>3, <1>4 DEF StatusInv

\* What holds of the lines that are read when one more is, that is not to be refused.
LEMMA FlawlessNext ==
    ASSUME NEW lines, NEW n \in Nat, Flawless(lines, n), lines[n + 1] # "malformed",
           \A i \in 1..n : lines[i] = lines[n + 1] => lines[n + 1] \notin Symbol
    PROVE  Flawless(lines, n + 1)
<1>1. 1..n + 1 = (1..n) \cup {n + 1}
    OBVIOUS
<1> QED
    BY <1>1 DEF Flawless

\* The number of the current line, while lines are read.
LEMMA ReadingLine ==
    ASSUME Inv, Reading
    PROVE  /\ Read \in Nat /\ Read + 1 = record /\ record \in 1..Len(manifest)
           /\ Len(manifest) \in Nat /\ manifest \in Seq(Line) /\ current \in Line
           /\ rule = "line" /\ status = 0 /\ errors = <<>>
<1>1. manifest \in Seq(Line) /\ Len(manifest) \in Nat
    BY LinesAssumption, LenProperties DEF Inv, ScalarsOK
<1>2. record \in 1..Len(manifest) /\ Read \in Nat /\ Read + 1 = record
    BY <1>1 DEF Inv, ScalarsOK, Reading, Read
<1>3. current \in Line
    BY <1>1, <1>2, ElementOfSeq DEF current
<1> QED
    BY <1>1, <1>2, <1>3 DEF Inv, StatusInv, Reading

\* A comment is read and leaves everything else alone.
LEMMA SkipInv == ASSUME Inv, Skip PROVE Inv'
<1>1. /\ Read \in Nat /\ Read + 1 = record /\ record \in 1..Len(manifest)
      /\ Len(manifest) \in Nat /\ rule = "line" /\ current = manifest[record]
      /\ current = "comment"
    BY ReadingLine DEF Skip, current
<1>2. /\ manifest' = manifest /\ record' = record + 1 /\ rule' = "line" /\ seen' = seen
      /\ symbols' = symbols /\ output' = output /\ errors' = errors /\ status' = status
      /\ Read' = Read + 1
    BY <1>1 DEF Skip, Read
<1>3. manifest[Read + 1] \notin Symbol /\ manifest[Read + 1] # "malformed"
    BY <1>1, LinesAssumption
<1>4. ScalarsOK' /\ TextsOK'
    BY <1>1, <1>2 DEF Inv, ScalarsOK, TextsOK
<1>5. ReadInv'
    <2>1. {k \in 1..Read + 1 : manifest[k] \in Symbol} = {k \in 1..Read : manifest[k] \in Symbol}
        <3>1. 1..Read + 1 = (1..Read) \cup {Read + 1}
            BY <1>1
        <3> QED
            BY <1>3, <3>1
    <2>2. Flawless(manifest, Read + 1)
        BY <1>1, <1>3, FlawlessNext DEF Inv, ReadInv
    <2> QED
        BY <1>2, <2>1, <2>2 DEF Inv, ReadInv
<1>6. OutputInv'
    <2>1. PICK exported \in Seq(Symbol) :
            Lists(exported, manifest, Read) /\ output = <<"{", "global:">> \o exported
        BY <1>1 DEF Inv, OutputInv
    <2>2. Lists(exported, manifest, Read + 1)
        BY <1>1, <1>3, <2>1, ListsSkip
    <2> QED
        BY <1>2, <2>1, <2>2 DEF OutputInv
<1>7. StatusInv'
    BY <1>1, <1>2 DEF Inv, StatusInv
<1> QED
    BY <1>4, <1>5, <1>6, <1>7 DEF Inv

\* A new symbol goes to the array, to the output and to the counter.
LEMMA PrintSymbolInv == ASSUME Inv, PrintSymbol PROVE Inv'
<1>1. /\ Read \in Nat /\ Read + 1 = record /\ record \in 1..Len(manifest)
      /\ Len(manifest) \in Nat /\ rule = "line" /\ current = manifest[record]
      /\ current \in Symbol /\ current \notin seen
    BY ReadingLine DEF PrintSymbol, current, AlreadySeen
<1>2. PICK line \in Symbol : line = current
    BY <1>1
<1>3. /\ manifest' = manifest /\ record' = record + 1 /\ rule' = "line"
      /\ seen' = seen \cup {line} /\ symbols' = symbols + 1
      /\ output' = Append(output, line) /\ errors' = errors /\ status' = status
      /\ Read' = Read + 1
    BY <1>1, <1>2 DEF PrintSymbol, Read
<1>4. manifest[Read + 1] = line /\ line # "malformed"
    BY <1>1, <1>2, LinesAssumption
<1>5. ScalarsOK' /\ TextsOK'
    <2>1. /\ Cardinality(seen \cup {line}) = symbols + 1 /\ seen \cup {line} \subseteq Symbol
        BY <1>1, <1>2, FS_AddElement DEF Inv, ScalarsOK, ReadInv
    <2>2. Append(output, line) \in Seq(Word)
        BY AppendProperties DEF Inv, TextsOK, Word
    <2> QED
        BY <1>1, <1>3, <2>1, <2>2 DEF Inv, ScalarsOK, TextsOK
<1>6. ReadInv'
    <2>1. 1..Read + 1 = (1..Read) \cup {Read + 1}
        BY <1>1
    <2>2. {manifest[i] : i \in {k \in 1..Read + 1 : manifest[k] \in Symbol}}
            = {manifest[i] : i \in {k \in 1..Read : manifest[k] \in Symbol}} \cup {line}
        BY <1>4, <2>1
    <2>3. IsFiniteSet(seen \cup {line})
        BY FS_AddElement DEF Inv, ReadInv
    <2>4. Flawless(manifest, Read + 1)
        <3>1. \A i \in 1..Read : manifest[i] # line
            BY <1>1, <1>2 DEF Inv, ReadInv
        <3> QED
            BY <1>1, <1>4, <3>1, FlawlessNext DEF Inv, ReadInv
    <2> QED
        BY <1>3, <2>2, <2>3, <2>4 DEF Inv, ReadInv
<1>7. OutputInv'
    <2>1. PICK exported \in Seq(Symbol) :
            Lists(exported, manifest, Read) /\ output = <<"{", "global:">> \o exported
        BY <1>1 DEF Inv, OutputInv
    <2>2. PICK longer \in Seq(Symbol) : longer = Append(exported, line)
        <3>1. Append(exported, line) \in Seq(Symbol)
            BY AppendProperties
        <3> QED
            BY <3>1
    <2>3. Lists(longer, manifest, Read + 1)
        BY <1>1, <1>4, <2>1, <2>2, ListsSymbol
    <2>4. Append(output, line) = <<"{", "global:">> \o longer
        <3>1. PICK h \in Seq(Word), e \in Seq(Word), x \in Word :
                h = <<"{", "global:">> /\ e = exported /\ x = line
            <4>1. line \in Word /\ exported \in Seq(Word)
                BY Words DEF Word
            <4> QED
                BY <4>1, Words
        <3>2. h \o e \in Seq(Word)
            BY ConcatProperties
        <3>3. Append(h \o e, x) = (h \o e) \o <<x>> /\ Append(e, x) = e \o <<x>>
            BY <3>2, AppendIsConcat
        <3>4. (h \o e) \o <<x>> = h \o (e \o <<x>>)
            <4>1. <<x>> \in Seq(Word)
                BY EmptySeq, AppendProperties, AppendIsConcat, ConcatEmptySeq
            <4> QED
                BY <4>1, ConcatAssociative
        <3> QED
            BY <2>1, <2>2, <3>1, <3>3, <3>4
    <2> QED
        BY <1>3, <2>2, <2>3, <2>4 DEF OutputInv
<1>8. StatusInv'
    BY <1>1, <1>3 DEF Inv, StatusInv
<1> QED
    BY <1>5, <1>6, <1>7, <1>8 DEF Inv

\* The array knows every symbol that was read: what it knows already is a repetition.
LEMMA SeenRepeats ==
    ASSUME Inv, Reading, current \in seen
    PROVE  ~Flawless(manifest, record)
<1>1. PICK i \in 1..Read : manifest[i] \in Symbol /\ manifest[i] = current
    BY DEF Inv, ReadInv
<1>2. Read \in Nat /\ Read + 1 = record /\ manifest[record] = current
    BY ReadingLine DEF current
<1>3. i \in 1..record /\ record \in 1..record /\ i # record
    BY <1>1, <1>2
<1> QED
    BY <1>1, <1>2, <1>3 DEF Flawless

\* A refusal keeps what was read and printed, reports the line and goes on to END.
LEMMA RefuseInv ==
    ASSUME Inv, RefuseMalformed \/ RefuseDuplicate
    PROVE  Inv'
<1>1. /\ Reading /\ UNCHANGED <<manifest, record, seen, symbols, output>>
      /\ \E message \in Message : fail(message)
    BY DEF RefuseMalformed, RefuseDuplicate, Message
<1>2. PICK message \in Message : fail(message)
    BY <1>1
<1>3. /\ Read \in Nat /\ Read + 1 = record /\ record \in 1..Len(manifest)
      /\ Len(manifest) \in Nat /\ rule = "line" /\ status = 0 /\ errors = <<>>
    BY <1>1, ReadingLine
<1>4. /\ manifest' = manifest /\ record' = record /\ seen' = seen /\ symbols' = symbols
      /\ output' = output /\ rule' = "END" /\ status' = 1 /\ Read' = Read
      /\ errors' = Append(errors, message)
    BY <1>1, <1>2, <1>3 DEF fail, AfterExit, ExitStatus, Read
<1>5. errors' \in Seq(Message) /\ errors' # <<>>
    BY <1>4, AppendProperties DEF Inv, TextsOK
<1>6. ~Flawless(manifest, record)
    <2>1. CASE RefuseMalformed
        <3>1. manifest[record] = "malformed"
            BY <2>1 DEF RefuseMalformed, current
        <3>2. record \in 1..record
            BY <1>3
        <3> QED
            BY <3>1, <3>2 DEF Flawless
    <2>2. CASE RefuseDuplicate
        BY <2>2, <1>1, SeenRepeats DEF RefuseDuplicate, AlreadySeen
    <2> QED
        BY <2>1, <2>2
<1>7. ScalarsOK' /\ TextsOK'
    BY <1>4, <1>5 DEF Inv, ScalarsOK, TextsOK
<1>8. ReadInv'
    BY <1>4 DEF Inv, ReadInv
<1>9. OutputInv'
    BY <1>3, <1>4 DEF Inv, OutputInv
<1>10. StatusInv'
    BY <1>3, <1>4, <1>5, <1>6 DEF StatusInv, Refused
<1> QED
    BY <1>7, <1>8, <1>9, <1>10 DEF Inv

\* END is also reached when there are no more lines.
LEMMA EndOfManifestInv == ASSUME Inv, EndOfManifest PROVE Inv'
<1>1. /\ manifest' = manifest /\ record' = record /\ seen' = seen /\ symbols' = symbols
      /\ output' = output /\ errors' = errors /\ status' = status /\ rule' = "END"
      /\ rule = "line" /\ record > Len(manifest) /\ Read' = Read
    BY DEF EndOfManifest, Read
<1>2. Len(manifest) \in Nat
    BY LinesAssumption, LenProperties DEF Inv, ScalarsOK
<1>3. Read = Len(manifest) /\ status = 0
    BY <1>1, <1>2 DEF Inv, ScalarsOK, StatusInv, Read
<1>4. ScalarsOK' /\ TextsOK'
    BY <1>1 DEF Inv, ScalarsOK, TextsOK
<1>5. ReadInv'
    BY <1>1 DEF Inv, ReadInv
<1>6. OutputInv'
    BY <1>1 DEF Inv, OutputInv
<1>7. StatusInv'
    BY <1>1, <1>3 DEF Inv, StatusInv
<1> QED
    BY <1>4, <1>5, <1>6, <1>7 DEF Inv

\* Without a symbol the program ends with the head of the script only.
LEMMA RefuseEmptyInv == ASSUME Inv, RefuseEmpty PROVE Inv'
<1>1. /\ manifest' = manifest /\ record' = record /\ seen' = seen /\ symbols' = symbols
      /\ output' = output /\ errors' = Append(errors, "no symbols") /\ status' = 1
      /\ rule' = "exited" /\ rule = "END" /\ symbols = 0 /\ Read' = Read
    BY DEF RefuseEmpty, fail, AfterExit, ExitStatus, Read
<1>2. errors' \in Seq(Message) /\ errors' # <<>>
    <2>1. "no symbols" \in Message
        BY DEF Message
    <2> QED
        BY <1>1, <2>1, AppendProperties DEF Inv, TextsOK
<1>3. ScalarsOK' /\ TextsOK'
    BY <1>1, <1>2 DEF Inv, ScalarsOK, TextsOK
<1>4. ReadInv'
    BY <1>1 DEF Inv, ReadInv
<1>5. OutputInv'
    BY <1>1 DEF Inv, OutputInv
<1>6. Refused' <=> Refused
    BY <1>1 DEF Refused
<1>7. Refused' \/ (Read' = Len(manifest') /\ symbols' = 0)
    <2>1. Refused \/ Read = Len(manifest)
        BY <1>1 DEF Inv, StatusInv
    <2> QED
        BY <1>1, <1>6, <2>1
<1>8. StatusInv'
    <2>1. rule' = "exited" /\ status' = 1 /\ errors' # <<>>
        BY <1>1, <1>2
    <2> QED
        BY ONLY <1>7, <2>1 DEF StatusInv
<1> QED
    BY <1>3, <1>4, <1>5, <1>8 DEF Inv

\* The tail is printed after a symbol, whatever the status.
LEMMA CompleteInv == ASSUME Inv, Complete PROVE Inv'
<1>1. /\ manifest' = manifest /\ record' = record /\ seen' = seen /\ symbols' = symbols
      /\ output' = output \o <<"local:", "*;", "};">> /\ errors' = errors
      /\ status' = status /\ rule' = "exited" /\ rule = "END" /\ symbols # 0 /\ Read' = Read
    <2>1. symbols > 0 => symbols # 0
        BY FS_CardinalityType DEF Inv, ScalarsOK, ReadInv
    <2>2. record' = record /\ Read' = Read
        BY DEF Complete, Read
    <2> QED
        BY <2>1, <2>2 DEF Complete
<1>2. output' \in Seq(Word)
    BY <1>1, Words, ConcatProperties DEF Inv, TextsOK
<1>3. ScalarsOK' /\ TextsOK'
    BY <1>1, <1>2 DEF Inv, ScalarsOK, TextsOK
<1>4. ReadInv'
    BY <1>1 DEF Inv, ReadInv
<1>5. OutputInv'
    BY <1>1 DEF Inv, OutputInv
<1>6. Refused' <=> Refused
    BY <1>1 DEF Refused
<1>7. StatusInv'
    BY <1>1, <1>6 DEF Inv, StatusInv
<1> QED
    BY <1>3, <1>4, <1>5, <1>7 DEF Inv

\* Every step keeps the invariant.
LEMMA NextInv == Inv /\ [Next]_vars => Inv'
<1> SUFFICES ASSUME Inv, [Next]_vars PROVE Inv'
    OBVIOUS
<1>1. CASE UNCHANGED vars
    <2>1. /\ manifest' = manifest /\ record' = record /\ seen' = seen /\ symbols' = symbols
          /\ output' = output /\ errors' = errors /\ status' = status /\ rule' = rule
          /\ Read' = Read
        BY <1>1 DEF vars, Read
    <2>2. ScalarsOK' /\ TextsOK' /\ ReadInv' /\ OutputInv'
        BY <2>1 DEF Inv, ScalarsOK, TextsOK, ReadInv, OutputInv
    <2>3. Refused' <=> Refused
        BY <2>1 DEF Refused
    <2>4. StatusInv'
        BY <2>1, <2>3 DEF Inv, StatusInv
    <2> QED
        BY <2>2, <2>4 DEF Inv
<1>2. CASE Exited
    BY <1>1, <1>2 DEF Exited
<1> QED
    BY <1>1, <1>2, BeginInv, SkipInv, RefuseInv, PrintSymbolInv, EndOfManifestInv, RefuseEmptyInv,
       CompleteInv DEF Next

\* The invariant holds in every state.
LEMMA InvHolds == Spec => []Inv
BY InitInv, NextInv, PTL DEF Spec

-----------------------------------------------------------------------------
(* Theorems *)

\* The variables keep their types, and the counter counts the array, for lists of
\* any length.
THEOREM ScriptTypeCorrect == Spec => []TypeOK
<1>1. Inv => TypeOK
    BY DEF Inv, ScalarsOK, TextsOK, Word, Message, TypeOK
<1> QED
    BY <1>1, InvHolds, PTL

\* The counter is zero exactly if no symbol was read.
LEMMA CounterIs == ASSUME Inv PROVE symbols # 0 <=> HasSymbol(manifest, Read)
<1>1. symbols = 0 <=> seen = {}
    BY FS_EmptySet DEF Inv, ScalarsOK, ReadInv
<1>2. seen # {} <=> \E i \in 1..Read : manifest[i] \in Symbol
    BY DEF Inv, ReadInv
<1> QED
    BY <1>1, <1>2 DEF HasSymbol

\* What the program leaves behind: the script of the symbols it read, or its head.
LEMMA Leaves ==
    ASSUME Inv, rule = "exited"
    PROVE  /\ Read \in 0..Len(manifest) /\ Len(manifest) \in Nat /\ Read + 1 = record
           /\ Flawless(manifest, Read)
           /\ IF HasSymbol(manifest, Read) THEN Exports(Read) ELSE output = <<"{", "global:">>
<1>1. Len(manifest) \in Nat
    BY LinesAssumption, LenProperties DEF Inv, ScalarsOK
<1>2. Read \in 0..Len(manifest) /\ Read + 1 = record
    BY <1>1 DEF Inv, ScalarsOK, Read
<1>3. PICK exported \in Seq(Symbol) :
        /\ Lists(exported, manifest, Read)
        /\ output = IF symbols # 0
                    THEN <<"{", "global:">> \o exported \o <<"local:", "*;", "};">>
                    ELSE <<"{", "global:">> \o exported
    BY DEF Inv, OutputInv
<1>4. CASE HasSymbol(manifest, Read)
    <2>1. output = <<"{", "global:">> \o exported \o <<"local:", "*;", "};">>
        BY <1>3, <1>4, CounterIs
    <2>2. SubSeq(output, 3, Len(output) - 3) = exported
        BY <2>1, ExportedOf
    <2>3. Exports(Read)
        BY <1>3, <2>1, <2>2, Zenon DEF Exports
    <2> QED
        BY <1>1, <1>2, <1>4, <2>3 DEF Inv, ReadInv
<1>5. CASE ~HasSymbol(manifest, Read)
    <2>1. exported = <<>>
        <3>1. PICK n \in Nat : n = Read
            BY <1>1, <1>2
        <3>2. Lists(exported, manifest, n) /\ ~HasSymbol(manifest, n)
            BY <1>3, <1>5, <3>1
        <3> QED
            BY ONLY exported \in Seq(Symbol), <3>1, <3>2, ListsEmpty
    <2>2. output = <<"{", "global:">>
        BY <1>3, <1>5, <2>1, CounterIs, Words, ConcatEmptySeq
    <2> QED
        BY <1>1, <1>2, <1>5, <2>2 DEF Inv, ReadInv
<1> QED
    BY <1>4, <1>5

\* A list with a refused line is not acceptable, however it goes on.
LEMMA FlawlessPrefix ==
    ASSUME NEW lines, NEW n \in Nat, NEW m \in 0..n, Flawless(lines, n)
    PROVE  Flawless(lines, m)
BY DEF Flawless

\* The exit status is zero exactly for the acceptable lists, of any length, and then
\* the script exports the symbols of the list in their order: the exit in a rule,
\* which still runs END, cannot be lost.
THEOREM StatusIsTheVerdictHolds == Spec => []StatusIsTheVerdict
<1>1. Inv => StatusIsTheVerdict
    <2> SUFFICES ASSUME Inv, rule = "exited"
                 PROVE  /\ status = 0 <=> Acceptable
                        /\ status = 0 <=> errors = <<>>
                        /\ status = 0 => Exports(Len(manifest))
        BY DEF StatusIsTheVerdict
    <2>1. status = 0 <=> errors = <<>>
        BY DEF Inv, StatusInv
    <2>2. CASE status = 0
        <3>1. Read = Len(manifest) /\ symbols # 0
            BY <2>2 DEF Inv, StatusInv
        <3>2. HasSymbol(manifest, Len(manifest)) /\ Flawless(manifest, Len(manifest))
              /\ Exports(Len(manifest))
            BY <3>1, CounterIs, Leaves
        <3> QED
            BY <2>1, <2>2, <3>2 DEF Acceptable
    <2>3. CASE status # 0
        <3>1. Refused \/ (Read = Len(manifest) /\ symbols = 0)
            BY <2>3 DEF Inv, StatusInv
        <3>2. CASE Refused
            <4>1. Read \in 0..Len(manifest) /\ Len(manifest) \in Nat /\ Read + 1 = record
                BY Leaves
            <4>2. record <= Len(manifest) /\ ~Flawless(manifest, record)
                BY <3>2 DEF Refused
            <4>3. record \in 0..Len(manifest)
                BY <4>1, <4>2
            <4>4. ~Flawless(manifest, Len(manifest))
                BY <4>1, <4>2, <4>3, FlawlessPrefix
            <4> QED
                BY <2>1, <2>3, <4>4 DEF Acceptable
        <3>3. CASE Read = Len(manifest) /\ symbols = 0
            <4>1. ~HasSymbol(manifest, Len(manifest))
                BY <3>3, CounterIs
            <4> QED
                BY <2>1, <2>3, <4>1 DEF Acceptable
        <3> QED
            BY <3>1, <3>2, <3>3
    <2> QED
        BY <2>2, <2>3
<1> QED
    BY <1>1, InvHolds, PTL

\* Whatever list is refused, what is left of the script exports the symbols before the
\* refused line, and is unfinished only if there are none.
THEOREM RefusedScriptIsAPrefixHolds == Spec => []RefusedScriptIsAPrefix
<1>1. Inv => RefusedScriptIsAPrefix
    <2> SUFFICES ASSUME Inv, rule = "exited", status = 1
                 PROVE  \E n \in 0..Len(manifest) :
                            /\ Flawless(manifest, n)
                            /\ n = Len(manifest) \/ ~Flawless(manifest, n + 1)
                            /\ IF HasSymbol(manifest, n) THEN Exports(n)
                               ELSE output = <<"{", "global:">>
        BY DEF RefusedScriptIsAPrefix
    <2>1. Read = Len(manifest) \/ ~Flawless(manifest, Read + 1)
        <3>1. Refused \/ Read = Len(manifest)
            BY DEF Inv, StatusInv
        <3> QED
            BY <3>1, Leaves DEF Refused
    <2> QED
        BY <2>1, Leaves
<1> QED
    BY <1>1, InvHolds, PTL

=============================================================================
