---------------------------- MODULE ExportScript ----------------------------
(***************************************************************************)
(* tools/generate-elf-export-script.sh: an awk program that turns the list *)
(* of exported symbols into a linker version script.                       *)
(*                                                                         *)
(* A line of the manifest is a symbol (it matches ^_Z[A-Za-z0-9_]+$), a    *)
(* comment (also a blank line) or malformed; a printed line is a symbol or *)
(* one of the five fixed ones.                                             *)
(*                                                                         *)
(* StatusZero, NeverSeen and StopsAtOnce are not used here: each is the    *)
(* definition after it with one mistake, which the properties are known to *)
(* notice (PROJECT.json, "mutants").                                       *)
(***************************************************************************)
EXTENDS Naturals, Sequences, FiniteSets

CONSTANTS
    Symbol,
    Manifests       \* the manifests: sequences of lines

Line == Symbol \cup {"comment", "malformed"}

ASSUME LinesAssumption ==
    Manifests \subseteq Seq(Line) /\ Symbol \cap {"comment", "malformed"} = {}

VARIABLES
    manifest,
    rule,       \* "BEGIN", "line", "END", or "exited"
    record,     \* NR of the next line
    seen,       \* the array of the symbols
    symbols,    \* the counter "count"
    output,     \* printed lines
    errors,     \* messages on the standard error
    status      \* the exit status that awk will have

vars == <<manifest, rule, record, seen, symbols, output, errors, status>>

Init ==
    /\ manifest \in Manifests
    /\ rule = "BEGIN"
    /\ record = 1
    /\ seen = {} /\ symbols = 0
    /\ output = <<>> /\ errors = <<>>
    /\ status = 0

StatusZero == 0
ExitStatus == 1

\* exit in the rule of a line still runs END; exit in END ends the program.
StopsAtOnce == "exited"
AfterExit == IF rule = "END" THEN "exited" ELSE "END"

fail(message) ==
    /\ errors' = Append(errors, message)
    /\ status' = ExitStatus
    /\ rule' = AfterExit

Begin ==
    /\ rule = "BEGIN"
    /\ output' = <<"{", "global:">>
    /\ rule' = "line"
    /\ UNCHANGED <<manifest, record, seen, symbols, errors, status>>

Reading == rule = "line" /\ record <= Len(manifest)
current == manifest[record]

Skip ==
    /\ Reading
    /\ current = "comment"
    /\ record' = record + 1
    /\ UNCHANGED <<manifest, rule, seen, symbols, output, errors, status>>

RefuseMalformed ==
    /\ Reading
    /\ current = "malformed"
    /\ fail("invalid symbol")
    /\ UNCHANGED <<manifest, record, seen, symbols, output>>

NeverSeen == FALSE
AlreadySeen == current \in seen

RefuseDuplicate ==
    /\ Reading
    /\ current \in Symbol
    /\ AlreadySeen
    /\ fail("duplicate symbol")
    /\ UNCHANGED <<manifest, record, seen, symbols, output>>

PrintSymbol ==
    /\ Reading
    /\ current \in Symbol
    /\ ~AlreadySeen
    /\ seen' = seen \cup {current}
    /\ output' = Append(output, current)
    /\ symbols' = symbols + 1
    /\ record' = record + 1
    /\ UNCHANGED <<manifest, rule, errors, status>>

EndOfManifest ==
    /\ rule = "line"
    /\ record > Len(manifest)
    /\ rule' = "END"
    /\ UNCHANGED <<manifest, record, seen, symbols, output, errors, status>>

RefuseEmpty ==
    /\ rule = "END"
    /\ symbols = 0
    /\ fail("no symbols")
    /\ UNCHANGED <<manifest, record, seen, symbols, output>>

\* The status is that of an earlier exit, if there was one.
Complete ==
    /\ rule = "END"
    /\ symbols > 0
    /\ output' = output \o <<"local:", "*;", "};">>
    /\ rule' = "exited"
    /\ UNCHANGED <<manifest, record, seen, symbols, errors, status>>

Exited == rule = "exited" /\ UNCHANGED vars

Next ==
    \/ Begin
    \/ Skip
    \/ RefuseMalformed
    \/ RefuseDuplicate
    \/ PrintSymbol
    \/ EndOfManifest
    \/ RefuseEmpty
    \/ Complete
    \/ Exited

Spec == Init /\ [][Next]_vars

-----------------------------------------------------------------------------
(* Properties *)

\* The variables hold values of their types; the counter counts the array.
TypeOK ==
    /\ manifest \in Manifests
    /\ rule \in {"BEGIN", "line", "END", "exited"}
    /\ record \in 1..Len(manifest) + 1
    /\ seen \subseteq Symbol
    /\ symbols = Cardinality(seen)
    /\ output \in Seq(Symbol \cup {"{", "global:", "local:", "*;", "};"})
    /\ errors \in Seq({"invalid symbol", "duplicate symbol", "no symbols"})
    /\ status \in {0, 1}

\* None of the first n lines is malformed, and none is a symbol of an earlier one.
Flawless(lines, n) ==
    /\ \A i \in 1..n : lines[i] # "malformed"
    /\ \A i, j \in 1..n : lines[i] = lines[j] /\ lines[i] \in Symbol => i = j

HasSymbol(lines, n) == \E i \in 1..n : lines[i] \in Symbol

\* What the linker should be told to export.
Acceptable == Flawless(manifest, Len(manifest)) /\ HasSymbol(manifest, Len(manifest))

\* exported lists the symbols of the first n lines, in the order of their places.
Lists(exported, lines, n) ==
    \E place \in [1..Len(exported) -> 1..n] :
        /\ \A k, l \in DOMAIN place : k < l => place[k] < place[l]
        /\ {place[k] : k \in DOMAIN place} = {i \in 1..n : lines[i] \in Symbol}
        /\ exported = [k \in DOMAIN place |-> lines[place[k]]]

\* The script is complete and exports the symbols of the first n lines.
Exports(n) ==
    LET exported == SubSeq(output, 3, Len(output) - 3) IN
        /\ output = <<"{", "global:">> \o exported \o <<"local:", "*;", "};">>
        /\ Lists(exported, manifest, n)

\* The status alone tells a good script: it is zero only for a list without a
\* malformed line and a duplicate and with a symbol, and then the script exports
\* exactly the symbols of the list, in its order, and nothing was reported.
StatusIsTheVerdict ==
    rule = "exited" =>
        /\ status = 0 <=> Acceptable
        /\ status = 0 <=> errors = <<>>
        /\ status = 0 => Exports(Len(manifest))

\* A refused list leaves a script that looks complete and exports the symbols before
\* the refused line, none of them twice; only without any it is left unfinished.
RefusedScriptIsAPrefix ==
    rule = "exited" /\ status = 1 =>
        \E n \in 0..Len(manifest) :
            /\ Flawless(manifest, n)
            /\ n = Len(manifest) \/ ~Flawless(manifest, n + 1)
            /\ IF HasSymbol(manifest, n) THEN Exports(n) ELSE output = <<"{", "global:">>

=============================================================================
