---------------------------- MODULE PayloadPath ----------------------------
(***************************************************************************)
(* payload_path::parse of src/model.cpp: a path given by a caller is cut at*)
(* its slashes, empty and "." parts are dropped, ".." and the bytes that   *)
(* end a line are refused, and the remaining parts are joined again.       *)
(*                                                                         *)
(* One behaviour is one call; an action is one iteration of the loop.  The *)
(* code tells apart the slash, the dot, the forbidden bytes ("LF" stands   *)
(* for NUL, line feed and carriage return) and all others (Letter).        *)
(*                                                                         *)
(* OnlyLeads, KeepsDots, CutStays and SkippedByte are not used here: each is *)
(* a definition after it with one mistake, which the properties are known  *)
(* to notice (PROJECT.json, "mutants").                                    *)
(***************************************************************************)
EXTENDS Naturals, Sequences, FiniteSets, SequencesExt

CONSTANTS
    Letter,     \* the bytes the function does not look for
    Inputs      \* the strings passed to parse

Byte == {"/", ".", "LF"} \cup Letter

Reason ==
    {"empty or absolute", "forbidden byte", "escapes the root", "nothing left"}

Pending == [verdict |-> "pending"]
Refusal == [verdict : {"refused"}, reason : Reason]
Parsed == [verdict : {"parsed"}, value : Seq(Byte)]

ASSUME LetterAssumption == Letter \cap {"/", ".", "LF"} = {}
ASSUME InputsAssumption == Inputs \subseteq Seq(Byte)

VARIABLES
    input,      \* argument of the call
    begin,      \* number of bytes before the next part
    parts,      \* the parts kept so far
    pc,         \* "check", "loop", "join", "done"
    outcome     \* Pending, a refusal (exception) or the normalized path

vars == <<input, begin, parts, pc, outcome>>

Init ==
    /\ input \in Inputs
    /\ begin = 0
    /\ parts = <<>>
    /\ pc = "check"
    /\ outcome = Pending

Refuse(reason) ==
    /\ outcome' = [verdict |-> "refused", reason |-> reason]
    /\ pc' = "done"
    /\ UNCHANGED <<input, begin, parts>>

-----------------------------------------------------------------------------
(* The first check *)

IsRelative == input # <<>> /\ input[1] # "/"

RefuseStart == pc = "check" /\ ~IsRelative /\ Refuse("empty or absolute")

AcceptStart ==
    /\ pc = "check"
    /\ IsRelative
    /\ pc' = "loop"
    /\ UNCHANGED <<input, begin, parts, outcome>>

-----------------------------------------------------------------------------
(* The loop: one part between two slashes *)

\* The part that starts at begin ends before the next slash, or with the input.
EndsPart(end) ==
    /\ \A i \in begin + 1..end : input[i] # "/"
    /\ end < Len(input) => input[end + 1] = "/"

IsForbidden(part) == \E i \in DOMAIN part : part[i] = "LF"

OnlyLeads(part) == part = <<".", ".">> /\ parts = <<>>
Escapes(part) == part = <<".", ".">>

KeepsDots(part) == part # <<>>
IsName(part) == part # <<>> /\ part # <<".">>

CutStays(end) == end
SkippedByte(end) == end + 2
\* The start of the next part, right after the slash.
NextBegin(end) == end + 1

RefusePart ==
    /\ pc = "loop"
    /\ \E end \in begin..Len(input) : LET part == SubSeq(input, begin + 1, end) IN
        /\ EndsPart(end)
        /\ \/ IsForbidden(part) /\ Refuse("forbidden byte")
           \/ ~IsForbidden(part) /\ Escapes(part) /\ Refuse("escapes the root")

TakePart ==
    /\ pc = "loop"
    /\ \E end \in begin..Len(input) : LET part == SubSeq(input, begin + 1, end) IN
        /\ EndsPart(end)
        /\ ~IsForbidden(part)
        /\ ~Escapes(part)
        /\ parts' = IF IsName(part) THEN Append(parts, part) ELSE parts
        /\ \/ /\ end = Len(input)
              /\ pc' = "join"
              /\ UNCHANGED begin
           \/ /\ end < Len(input)
              /\ begin' = NextBegin(end)
              /\ UNCHANGED pc
    /\ UNCHANGED <<input, outcome>>

-----------------------------------------------------------------------------
(* The normalized path *)

Joined(names) == Tail(FlattenSeq([i \in DOMAIN names |-> <<"/">> \o names[i]]))

RefuseNothing == pc = "join" /\ parts = <<>> /\ Refuse("nothing left")

Join ==
    /\ pc = "join"
    /\ parts # <<>>
    /\ outcome' = [verdict |-> "parsed", value |-> Joined(parts)]
    /\ pc' = "done"
    /\ UNCHANGED <<input, begin, parts>>

\* The call has returned or thrown.
Done == pc = "done" /\ UNCHANGED vars

Next ==
    \/ RefuseStart
    \/ AcceptStart
    \/ RefusePart
    \/ TakePart
    \/ RefuseNothing
    \/ Join
    \/ Done

\* The caller's thread runs the function to its end.
Spec == Init /\ [][Next]_vars /\ WF_vars(Next)

-----------------------------------------------------------------------------
(* What the spelling of a path means, without a loop *)

\* The components of a string: its longest stretches without a slash, as the
\* positions of their first and last byte.
Components(s) ==
    {c \in (1..Len(s) + 1) \X (0..Len(s)) :
        /\ c[1] <= c[2] + 1
        /\ \A k \in c[1]..c[2] : s[k] # "/"
        /\ c[1] = 1 \/ s[c[1] - 1] = "/"
        /\ c[2] = Len(s) \/ s[c[2] + 1] = "/"}
Word(s, c) == SubSeq(s, c[1], c[2])

\* The components that name something, and which of them is k-th.
Named(s) == {c \in Components(s) : Word(s, c) \notin {<<>>, <<".">>}}
Nth(s, k) ==
    CHOOSE c \in Named(s) : Cardinality({d \in Named(s) : d[1] <= c[1]}) = k

\* The directories a string walks through, in order.
Names(s) == [k \in 1..Cardinality(Named(s)) |-> Word(s, Nth(s, k))]

\* A relative path to something below the package root, on one line.
Admissible(s) ==
    /\ s # <<>>
    /\ s[1] # "/"
    /\ \A i \in DOMAIN s : s[i] # "LF"
    /\ \A c \in Components(s) : Word(s, c) # <<".", ".">>
    /\ Names(s) # <<>>

\* Every component is the name of something.
Canonical(s) ==
    Admissible(s) /\ \A c \in Components(s) : Word(s, c) \notin {<<>>, <<".">>}

-----------------------------------------------------------------------------
(* Properties *)

\* The variables hold the values their C++ types allow.
TypeOK ==
    /\ input \in Seq(Byte)
    /\ begin \in 0..Len(input)
    /\ parts \in Seq(Seq(Byte))
    /\ pc \in {"check", "loop", "join", "done"}
    /\ outcome \in {Pending} \cup Refusal \cup Parsed

\* parse accepts exactly the admissible strings, and returns the one canonical
\* spelling of the same walk: a path is equal to another as a value if and only
\* if both name the same object below the root.
ParseIsExact ==
    /\ outcome.verdict = "parsed" =>
            /\ Admissible(input)
            /\ Canonical(outcome.value)
            /\ Names(outcome.value) = Names(input)
    /\ outcome.verdict = "refused" => ~Admissible(input)

\* The parts kept so far are names of things below the root, each on one line and
\* without a slash, and the next part starts right after a slash.
PartsAreNames ==
    /\ \A k \in DOMAIN parts :
          /\ parts[k] \notin {<<>>, <<".">>, <<".", ".">>}
          /\ \A i \in DOMAIN parts[k] : parts[k][i] \notin {"/", "LF"}
    /\ begin = 0 \/ input[begin] = "/"
    /\ outcome.verdict = "parsed" => parts # <<>>

\* The loop ends for every input: each iteration moves past a slash or leaves.
Terminates == <>(pc = "done")

=============================================================================
