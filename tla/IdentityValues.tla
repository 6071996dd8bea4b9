---------------------------- MODULE IdentityValues ----------------------------
(***************************************************************************)
(* The values that hold a SHA-256 digest: the end of identity_writer::     *)
(* finish, which spells a digest in hexadecimal, require_sha256_hex, which *)
(* every from_sha256 and the constructor of sha256_digest call, and the    *)
(* comparisons of the values, which are those of their strings.            *)
(*                                                                         *)
(* A value is made of the bytes of a digest, by way of finish, or of a     *)
(* text that a client has.  A character is its ASCII code.                 *)
(*                                                                         *)
(* Unfilled, NotTooLong and ByFirstByte are not used here: each is the     *)
(* definition after it with one mistake, which the properties are known to *)
(* notice (PROJECT.json, "mutants").                                       *)
(***************************************************************************)
EXTENDS Naturals, Sequences, FiniteSets

CONSTANTS
    DigestSize,     \* 32 in the code
    Digests,        \* digests that finish spells
    Texts,          \* texts that clients pass
    MaxValues,      \* bound: how many values are made
    NoDigest        \* the text does not come from finish

Byte == 0..255

ASSUME SizeAssumption == DigestSize \in Nat
ASSUME DigestsAssumption ==
    Digests \subseteq [1..DigestSize -> Byte] /\ NoDigest \notin Digests
ASSUME TextsAssumption == Texts \subseteq Seq(Byte)

VARIABLES
    stage,      \* "outside", "finish" or "require"
    digest,     \* the bytes finish spells
    text,       \* the string so far, then the argument of require_sha256_hex
    index,      \* of the loop that runs
    refused,    \* the last call threw, and for which reason, or "no"
    values      \* the strings of the values made so far

vars == <<stage, digest, text, index, refused, values>>

Init ==
    /\ stage = "outside"
    /\ digest = NoDigest
    /\ text = <<>> /\ index = 0
    /\ refused = "no"
    /\ values = {}

-----------------------------------------------------------------------------
(* finish *)

Call(next, d, t) ==
    /\ stage = "outside"
    /\ Cardinality(values) < MaxValues
    /\ stage' = next
    /\ digest' = d
    /\ text' = t
    /\ index' = 0
    /\ refused' = "no"
    /\ UNCHANGED values

Finish == \E d \in Digests : Call("finish", d, <<>>)

\* A digit under std::hex.
hex(d) == IF d < 10 THEN 48 + d ELSE 87 + d

Unfilled(b) == IF b < 16 THEN <<hex(b)>> ELSE <<hex(b \div 16), hex(b % 16)>>
\* std::setw(2) and std::setfill('0').
Spelled(b) == <<hex(b \div 16), hex(b % 16)>>

AppendByte ==
    /\ stage = "finish"
    /\ index < DigestSize
    /\ text' = text \o Spelled(digest[index + 1])
    /\ index' = index + 1
    /\ UNCHANGED <<stage, digest, refused, values>>

\* The string is the argument of from_sha256.
ReturnText ==
    /\ stage = "finish"
    /\ index = DigestSize
    /\ stage' = "require"
    /\ index' = 0
    /\ UNCHANGED <<digest, text, refused, values>>

-----------------------------------------------------------------------------
(* require_sha256_hex *)

FromText == \E t \in Texts : Call("require", NoDigest, t)

NotTooLong == Len(text) <= 2 * DigestSize
RightWidth == Len(text) = 2 * DigestSize
Canonical(c) == c \in 48..57 \/ c \in 97..102

Refuse(reason) ==
    /\ stage = "require"
    /\ stage' = "outside"
    /\ refused' = reason
    /\ UNCHANGED <<digest, text, index, values>>

RefuseWidth == ~RightWidth /\ Refuse("width")

AcceptByte ==
    /\ stage = "require"
    /\ RightWidth
    /\ index < Len(text)
    /\ Canonical(text[index + 1])
    /\ index' = index + 1
    /\ UNCHANGED <<stage, digest, text, refused, values>>

RefuseByte ==
    /\ RightWidth
    /\ index < Len(text)
    /\ ~Canonical(text[index + 1])
    /\ Refuse("character")

from_sha256 ==
    /\ stage = "require"
    /\ RightWidth
    /\ index = Len(text)
    /\ stage' = "outside"
    /\ values' = values \cup {text}
    /\ UNCHANGED <<digest, text, index, refused>>

Stop == stage = "outside" /\ Cardinality(values) = MaxValues /\ UNCHANGED vars

Next ==
    \/ Finish
    \/ AppendByte
    \/ ReturnText
    \/ FromText
    \/ RefuseWidth
    \/ AcceptByte
    \/ RefuseByte
    \/ from_sha256
    \/ Stop

Spec == Init /\ [][Next]_vars

ByFirstByte(u, v) == u # <<>> /\ v # <<>> /\ u[1] < v[1]
\* operator< of two values.
Before(u, v) ==
    \E i \in DOMAIN u \cap DOMAIN v :
        u[i] < v[i] /\ \A j \in 1..i - 1 : u[j] = v[j]

-----------------------------------------------------------------------------
(* Properties *)

\* The variables hold values of their types.
TypeOK ==
    /\ stage \in {"outside", "finish", "require"}
    /\ digest \in Digests \cup {NoDigest}
    /\ text \in Seq(Byte)
    /\ index \in 0..2 * DigestSize
    /\ refused \in {"no", "width", "character"}
    /\ \A v \in values : Len(v) = 2 * DigestSize

\* The digits in the order of their values: 0123456789abcdef.
Digits == <<48, 49, 50, 51, 52, 53, 54, 55, 56, 57, 97, 98, 99, 100, 101, 102>>

IsSpelling(t) ==
    Len(t) = 2 * DigestSize /\ \A i \in DOMAIN t : \E d \in 1..16 : t[i] = Digits[d]

ValueOf(c) == (CHOOSE d \in 1..16 : Digits[d] = c) - 1
DigestOf(t) ==
    [i \in 1..DigestSize |-> 16 * ValueOf(t[2 * i - 1]) + ValueOf(t[2 * i])]

\* What finish returns is accepted by from_sha256, every byte of it, and is the
\* digest that was computed; of what clients pass, the spellings of digests are
\* accepted and nothing else: a value and a digest are the same thing.
ValuesAreDigests ==
    /\ \A v \in values : IsSpelling(v)
    /\ refused # "no" => digest = NoDigest /\ ~IsSpelling(text)
    /\ digest # NoDigest /\ stage = "outside" => text \in values /\ DigestOf(text) = digest

DigestBefore(a, b) ==
    \E i \in 1..DigestSize : a[i] < b[i] /\ \A j \in 1..i - 1 : a[j] = b[j]

\* The order and the equality of values are those of their digests, however the
\* characters are coded: sorted inputs are sorted by digest.
OrderIsOfDigests ==
    \A u, v \in values :
        /\ Before(u, v) <=> DigestBefore(DigestOf(u), DigestOf(v))
        /\ u = v <=> DigestOf(u) = DigestOf(v)

=============================================================================
