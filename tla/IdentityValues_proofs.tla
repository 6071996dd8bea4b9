------------------------ MODULE IdentityValues_proofs ------------------------
(***************************************************************************)
(* Proofs about the values that hold a digest, for digests of every size   *)
(* and every text that a client passes.                                    *)
(***************************************************************************)
EXTENDS IdentityValues, SequenceTheorems, TLAPS

-----------------------------------------------------------------------------
(* Digits *)

Nibble == 0..15

\* The digits are the sixteen characters that hex gives, in their order.
LEMMA DigitsAreHex ==
    /\ \A d \in Nibble : hex(d) \in Byte /\ Canonical(hex(d))
    /\ \A c : Canonical(c) => \E d \in Nibble : c = hex(d)
    /\ \A d, e \in Nibble : hex(d) < hex(e) <=> d < e
    /\ \A d, e \in Nibble : hex(d) = hex(e) => d = e
<1>1. \A d \in Nibble : hex(d) \in Byte /\ Canonical(hex(d))
    BY DEF Nibble, hex, Byte, Canonical
<1>2. ASSUME NEW c, Canonical(c) PROVE \E d \in Nibble : c = hex(d)
    <2>1. CASE c \in 48..57
        <3>1. c - 48 \in Nibble /\ hex(c - 48) = c
            BY <2>1 DEF Nibble, hex
        <3> QED
            BY <3>1
    <2>2. CASE c \in 97..102
        <3>1. c - 87 \in Nibble /\ hex(c - 87) = c
            BY <2>2 DEF Nibble, hex
        <3> QED
            BY <3>1
    <2> QED
        BY <1>2, <2>1, <2>2 DEF Canonical
<1>3. \A d, e \in Nibble : hex(d) < hex(e) <=> d < e
    BY DEF Nibble, hex
<1>4. \A d, e \in Nibble : hex(d) = hex(e) => d = e
    BY DEF Nibble, hex
<1> QED
    BY <1>1, <1>2, <1>3, <1>4

LEMMA DigitsInOrder == \A d \in 1..16 : d - 1 \in Nibble /\ Digits[d] = hex(d - 1)
<1> TAKE d \in 1..16
<1>1. d - 1 \in Nibble
    BY DEF Nibble
<1>2. /\ Digits[1] = 48 /\ Digits[2] = 49 /\ Digits[3] = 50 /\ Digits[4] = 51
      /\ Digits[5] = 52 /\ Digits[6] = 53 /\ Digits[7] = 54 /\ Digits[8] = 55
    BY DEF Digits
<1>3. /\ Digits[9] = 56 /\ Digits[10] = 57 /\ Digits[11] = 97 /\ Digits[12] = 98
      /\ Digits[13] = 99 /\ Digits[14] = 100 /\ Digits[15] = 101 /\ Digits[16] = 102
    BY DEF Digits
<1>4. CASE d \in 1..8
    <2>1. d = 1 \/ d = 2 \/ d = 3 \/ d = 4 \/ d = 5 \/ d = 6 \/ d = 7 \/ d = 8
        BY <1>4
    <2> QED
        BY <1>1, <1>2, <2>1 DEF hex
<1>5. CASE d \in 9..16
    <2>1. d = 9 \/ d = 10 \/ d = 11 \/ d = 12 \/ d = 13 \/ d = 14 \/ d = 15 \/ d = 16
        BY <1>5
    <2> QED
        BY <1>1, <1>3, <2>1 DEF hex
<1> QED
    BY <1>4, <1>5

\* The value of a digit is the one it was spelled from.
LEMMA ValueOfHex == \A d \in Nibble : ValueOf(hex(d)) = d
<1> TAKE d \in Nibble
<1>1. d + 1 \in 1..16 /\ (d + 1) - 1 = d
    BY DEF Nibble
<1>2. Digits[d + 1] = hex(d)
    BY <1>1, DigitsInOrder
<1>3. \A e \in 1..16 : Digits[e] = hex(d) => e = d + 1
    <2> TAKE e \in 1..16
    <2> HAVE Digits[e] = hex(d)
    <2>1. hex(e - 1) = hex(d) /\ e - 1 \in Nibble
        BY DigitsInOrder
    <2>2. e - 1 = d
        BY <2>1, DigitsAreHex
    <2> QED
        BY <2>2
<1>4. PICK c : c = hex(d)
    OBVIOUS
<1>5. (CHOOSE e \in 1..16 : Digits[e] = c) = d + 1
    BY <1>1, <1>2, <1>3, <1>4
<1> QED
    BY <1>1, <1>4, <1>5 DEF ValueOf

LEMMA ValueOfCanonical ==
    ASSUME NEW c, Canonical(c) PROVE ValueOf(c) \in Nibble /\ c = hex(ValueOf(c))
BY DigitsAreHex, ValueOfHex

\* A byte is two digits.
LEMMA Halves ==
    ASSUME NEW b \in Byte
    PROVE  /\ b \div 16 \in Nibble /\ b % 16 \in Nibble
           /\ 16 * (b \div 16) + (b % 16) = b
<1>1. PICK q \in Nat, r \in 0..15 : b = 16 * q + r /\ q = b \div 16 /\ r = b % 16
    BY DEF Byte
<1>2. q \in 0..15
    BY <1>1 DEF Byte
<1>3. 16 * q + r = b
    BY <1>1
<1> QED
    BY <1>1, <1>2, <1>3, Zenon DEF Nibble

LEMMA PairsCompare ==
    \A h, l, m, n \in Nibble :
        /\ 16 * h + l = 16 * m + n <=> h = m /\ l = n
        /\ 16 * h + l < 16 * m + n <=> h < m \/ (h = m /\ l < n)
BY DEF Nibble

\* A character of a text belongs to a byte.
LEMMA CharacterOfByte ==
    /\ \A i \in 1..2 * DigestSize : \E k \in 1..DigestSize : i = 2 * k - 1 \/ i = 2 * k
    /\ \A k \in 1..DigestSize : 2 * k - 1 \in 1..2 * DigestSize /\ 2 * k \in 1..2 * DigestSize
<1>1. DigestSize \in Nat
    BY SizeAssumption
<1>2. ASSUME NEW i \in 1..2 * DigestSize
      PROVE  \E k \in 1..DigestSize : i = 2 * k - 1 \/ i = 2 * k
    <2>1. i \in Nat /\ i >= 1 /\ i <= 2 * DigestSize
        BY <1>1
    <2>2. PICK k \in Nat : i = 2 * k - 1 \/ i = 2 * k
        <3>1. (i + 1) \div 2 \in Nat /\ (i = 2 * ((i + 1) \div 2) - 1 \/ i = 2 * ((i + 1) \div 2))
            BY <2>1
        <3> QED
            BY <3>1
    <2>3. k \in 1..DigestSize
        BY <1>1, <2>1, <2>2
    <2> QED
        BY <2>2, <2>3
<1>3. \A k \in 1..DigestSize : 2 * k - 1 \in 1..2 * DigestSize /\ 2 * k \in 1..2 * DigestSize
    BY <1>1
<1> QED
    BY <1>2, <1>3

-----------------------------------------------------------------------------
(* Spellings *)

\* A text of the right length whose characters are all canonical.
CanonicalText(t) ==
    /\ t \in Seq(Byte) /\ Len(t) = 2 * DigestSize
    /\ \A i \in 1..2 * DigestSize : Canonical(t[i])

\* The first n bytes of a text spell those of a digest.
Spells(t, d, n) ==
    \A k \in 1..n : t[2 * k - 1] = hex(d[k] \div 16) /\ t[2 * k] = hex(d[k] % 16)

LEMMA SpellingIsCanonical ==
    ASSUME NEW t \in Seq(Byte) PROVE IsSpelling(t) <=> CanonicalText(t)
<1>1. \A c : Canonical(c) <=> \E d \in 1..16 : c = Digits[d]
    <2>1. \A d \in 1..16 : Canonical(Digits[d])
        BY DigitsInOrder, DigitsAreHex
    <2>2. ASSUME NEW c, Canonical(c) PROVE \E d \in 1..16 : c = Digits[d]
        <3>1. PICK e \in Nibble : c = hex(e)
            BY <2>2, DigitsAreHex
        <3>2. e + 1 \in 1..16 /\ (e + 1) - 1 = e
            BY DEF Nibble
        <3>3. c = Digits[e + 1]
            BY <3>1, <3>2, DigitsInOrder
        <3> QED
            BY <3>2, <3>3
    <2> QED
        BY <2>1, <2>2
<1>2. DOMAIN t = 1..Len(t)
    OBVIOUS
<1> QED
    BY <1>1, <1>2 DEF IsSpelling, CanonicalText

\* What spells a digest is canonical, and is read back as that digest.
LEMMA SpelledDigest ==
    ASSUME NEW d \in [1..DigestSize -> Byte], NEW t \in Seq(Byte),
           Len(t) = 2 * DigestSize, Spells(t, d, DigestSize)
    PROVE  CanonicalText(t) /\ DigestOf(t) = d
<1>1. \A k \in 1..DigestSize :
        /\ d[k] \in Byte
        /\ d[k] \div 16 \in Nibble /\ d[k] % 16 \in Nibble
        /\ 16 * (d[k] \div 16) + (d[k] % 16) = d[k]
    BY Halves
<1>2. \A k \in 1..DigestSize : Canonical(t[2 * k - 1]) /\ Canonical(t[2 * k])
    BY <1>1, DigitsAreHex DEF Spells
<1>3. CanonicalText(t)
    BY <1>2, CharacterOfByte DEF CanonicalText
<1>4. \A k \in 1..DigestSize :
        ValueOf(t[2 * k - 1]) = d[k] \div 16 /\ ValueOf(t[2 * k]) = d[k] % 16
    BY <1>1, ValueOfHex DEF Spells
<1>5. \A k \in 1..DigestSize : 16 * ValueOf(t[2 * k - 1]) + ValueOf(t[2 * k]) = d[k]
    BY <1>1, <1>4, Zenon
<1>6. DigestOf(t) = [k \in 1..DigestSize |-> d[k]]
    BY <1>5 DEF DigestOf
<1> QED
    BY <1>3, <1>6

\* The digits that a canonical text has for a byte, and the byte they stand for.
LEMMA DigitsOfByte ==
    ASSUME NEW t, CanonicalText(t), NEW k \in 1..DigestSize
    PROVE  /\ ValueOf(t[2 * k - 1]) \in Nibble /\ t[2 * k - 1] = hex(ValueOf(t[2 * k - 1]))
           /\ ValueOf(t[2 * k]) \in Nibble /\ t[2 * k] = hex(ValueOf(t[2 * k]))
           /\ DigestOf(t)[k] = 16 * ValueOf(t[2 * k - 1]) + ValueOf(t[2 * k])
<1>1. 2 * k - 1 \in 1..2 * DigestSize /\ 2 * k \in 1..2 * DigestSize
    BY CharacterOfByte
<1>2. Canonical(t[2 * k - 1]) /\ Canonical(t[2 * k])
    BY <1>1 DEF CanonicalText
<1> QED
    BY <1>2, ValueOfCanonical DEF DigestOf

\* Bytes compare as their two digits do, and these as their characters.
LEMMA BytesCompare ==
    ASSUME NEW u, NEW v, CanonicalText(u), CanonicalText(v), NEW k \in 1..DigestSize
    PROVE  /\ DigestOf(u)[k] = DigestOf(v)[k]
                <=> u[2 * k - 1] = v[2 * k - 1] /\ u[2 * k] = v[2 * k]
           /\ DigestOf(u)[k] < DigestOf(v)[k]
                <=> \/ u[2 * k - 1] < v[2 * k - 1]
                    \/ u[2 * k - 1] = v[2 * k - 1] /\ u[2 * k] < v[2 * k]
<1>1. PICK h, l \in Nibble :
        /\ u[2 * k - 1] = hex(h) /\ u[2 * k] = hex(l) /\ DigestOf(u)[k] = 16 * h + l
    BY DigitsOfByte
<1>2. PICK m, n \in Nibble :
        /\ v[2 * k - 1] = hex(m) /\ v[2 * k] = hex(n) /\ DigestOf(v)[k] = 16 * m + n
    BY DigitsOfByte
<1>3. /\ 16 * h + l = 16 * m + n <=> h = m /\ l = n
      /\ 16 * h + l < 16 * m + n <=> h < m \/ (h = m /\ l < n)
    BY PairsCompare
<1>4. /\ hex(h) < hex(m) <=> h < m
      /\ hex(l) < hex(n) <=> l < n
      /\ hex(h) = hex(m) <=> h = m
      /\ hex(l) = hex(n) <=> l = n
    BY DigitsAreHex
<1> QED
    BY <1>1, <1>2, <1>3, <1>4

\* A text comes before another exactly if its digest does.
LEMMA OrderOfSpellings ==
    ASSUME NEW u, NEW v, CanonicalText(u), CanonicalText(v)
    PROVE  Before(u, v) <=> DigestBefore(DigestOf(u), DigestOf(v))
<1>1. /\ DOMAIN u = 1..2 * DigestSize /\ DOMAIN v = 1..2 * DigestSize
      /\ DigestSize \in Nat
    BY SizeAssumption DEF CanonicalText
<1>2. ASSUME Before(u, v) PROVE DigestBefore(DigestOf(u), DigestOf(v))
    <2>1. PICK i \in 1..2 * DigestSize : u[i] < v[i] /\ \A j \in 1..i - 1 : u[j] = v[j]
        BY <1>1, <1>2 DEF Before
    <2>2. PICK k \in 1..DigestSize : i = 2 * k - 1 \/ i = 2 * k
        BY CharacterOfByte
    <2>3. \A m \in 1..k - 1 : DigestOf(u)[m] = DigestOf(v)[m]
        <3> TAKE m \in 1..k - 1
        <3>1. m \in 1..DigestSize /\ 2 * m - 1 \in 1..i - 1 /\ 2 * m \in 1..i - 1
            BY <1>1, <2>2
        <3> QED
            BY <2>1, <3>1, BytesCompare
    <2>4. DigestOf(u)[k] < DigestOf(v)[k]
        <3>1. CASE i = 2 * k - 1
            BY <2>1, <3>1, BytesCompare
        <3>2. CASE i = 2 * k
            <4>1. 2 * k - 1 \in 1..i - 1
                BY <1>1, <3>2
            <4> QED
                BY <2>1, <3>2, <4>1, BytesCompare
        <3> QED
            BY <2>2, <3>1, <3>2
    <2> QED
        BY <2>3, <2>4 DEF DigestBefore
<1>3. ASSUME DigestBefore(DigestOf(u), DigestOf(v)) PROVE Before(u, v)
    <2>1. PICK k \in 1..DigestSize :
            /\ DigestOf(u)[k] < DigestOf(v)[k]
            /\ \A m \in 1..k - 1 : DigestOf(u)[m] = DigestOf(v)[m]
        BY <1>3 DEF DigestBefore
    <2>2. \A m \in 1..k - 1 : u[2 * m - 1] = v[2 * m - 1] /\ u[2 * m] = v[2 * m]
        <3> TAKE m \in 1..k - 1
        <3>1. m \in 1..DigestSize
            BY <1>1
        <3> QED
            BY <2>1, <3>1, BytesCompare
    <2>3. \A j \in 1..2 * k - 2 : u[j] = v[j]
        <3> TAKE j \in 1..2 * k - 2
        <3>1. j \in 1..2 * DigestSize
            BY <1>1
        <3>2. PICK m \in 1..DigestSize : j = 2 * m - 1 \/ j = 2 * m
            BY <3>1, CharacterOfByte
        <3>3. m \in 1..k - 1
            BY <1>1, <3>2
        <3> QED
            BY <2>2, <3>2, <3>3
    <2>4. 2 * k - 1 \in 1..2 * DigestSize /\ 2 * k \in 1..2 * DigestSize
        BY CharacterOfByte
    <2>5. CASE u[2 * k - 1] < v[2 * k - 1]
        <3>1. (2 * k - 1) - 1 = 2 * k - 2
            BY <1>1
        <3> QED
            BY <1>1, <2>3, <2>4, <2>5, <3>1 DEF Before
    <2>6. CASE u[2 * k - 1] = v[2 * k - 1] /\ u[2 * k] < v[2 * k]
        <3>1. \A j \in 1..2 * k - 1 : j \in 1..2 * k - 2 \/ j = 2 * k - 1
            BY <1>1
        <3>2. \A j \in 1..2 * k - 1 : u[j] = v[j]
            BY <2>3, <2>6, <3>1
        <3> QED
            BY <1>1, <2>4, <2>6, <3>2 DEF Before
    <2> QED
        BY <2>1, <2>5, <2>6, BytesCompare
<1> QED
    BY <1>2, <1>3

\* A text is determined by the digest it spells.
LEMMA EqualSpellings ==
    ASSUME NEW u, NEW v, CanonicalText(u), CanonicalText(v)
    PROVE  u = v <=> DigestOf(u) = DigestOf(v)
<1>1. ASSUME DigestOf(u) = DigestOf(v) PROVE u = v
    <2>1. \A i \in 1..2 * DigestSize : u[i] = v[i]
        <3> TAKE i \in 1..2 * DigestSize
        <3>1. PICK k \in 1..DigestSize : i = 2 * k - 1 \/ i = 2 * k
            BY CharacterOfByte
        <3>2. u[2 * k - 1] = v[2 * k - 1] /\ u[2 * k] = v[2 * k]
            BY <1>1, BytesCompare
        <3> QED
            BY <3>1, <3>2
    <2>2. u \in Seq(Byte) /\ v \in Seq(Byte) /\ Len(u) = 2 * DigestSize /\ Len(v) = 2 * DigestSize
        BY DEF CanonicalText
    <2> QED
        BY <2>1, <2>2, SeqEqual
<1> QED
    BY <1>1

-----------------------------------------------------------------------------
(* The invariant *)

\* finish has spelled a prefix of its digest; the argument of require_sha256_hex
\* is canonical so far, and spells the digest it was made from.
Inv ==
    /\ stage \in {"outside", "finish", "require"}
    /\ digest \in Digests \cup {NoDigest}
    /\ text \in Seq(Byte)
    /\ index \in 0..2 * DigestSize
    /\ refused \in {"no", "width", "character"}
    /\ stage = "finish" =>
            /\ digest \in Digests
            /\ index <= DigestSize /\ Len(text) = 2 * index
            /\ Spells(text, digest, index)
    /\ stage = "require" =>
            /\ index > 0 => RightWidth
            /\ \A i \in 1..index : Canonical(text[i])
    /\ stage # "finish" /\ digest # NoDigest => RightWidth /\ Spells(text, digest, DigestSize)
    /\ stage = "outside" /\ digest # NoDigest => text \in values
    /\ refused # "no" => stage = "outside" /\ digest = NoDigest /\ ~IsSpelling(text)
    /\ \A v \in values : CanonicalText(v)

LEMMA InitInv == Init => Inv
<1> SUFFICES ASSUME Init PROVE Inv
    OBVIOUS
<1>1. <<>> \in Seq(Byte)
    OBVIOUS
<1> QED
    BY <1>1, SizeAssumption DEF Init, Inv

\* A call begins.
LEMMA FinishInv == ASSUME Inv, Finish PROVE Inv'
<1>1. PICK d \in Digests : Call("finish", d, <<>>)
    BY DEF Finish
<1>2. d # NoDigest /\ <<>> \in Seq(Byte) /\ Len(<<>>) = 2 * 0 /\ 0 <= DigestSize /\ 0 \in 0..2 * DigestSize
    BY DigestsAssumption, SizeAssumption
<1>3. Spells(<<>>, d, 0)
    BY DEF Spells
<1> QED
    BY <1>1, <1>2, <1>3 DEF Inv, Call, Spells

LEMMA FromTextInv == ASSUME Inv, FromText PROVE Inv'
<1>1. PICK t \in Texts : Call("require", NoDigest, t)
    BY DEF FromText
<1>2. t \in Seq(Byte) /\ 0 \in 0..2 * DigestSize
    BY TextsAssumption, SizeAssumption
<1> QED
    BY <1>1, <1>2 DEF Inv, Call

\* finish spells one more byte.
LEMMA AppendByteInv == ASSUME Inv, AppendByte PROVE Inv'
<1>1. /\ DigestSize \in Nat /\ index \in Nat /\ index + 1 \in 1..DigestSize
      /\ digest \in Digests /\ digest \in [1..DigestSize -> Byte] /\ digest # NoDigest
      /\ text \in Seq(Byte) /\ Len(text) = 2 * index /\ Spells(text, digest, index)
    BY SizeAssumption, DigestsAssumption DEF Inv, AppendByte
<1>2. PICK b \in Byte : b = digest[index + 1]
    BY <1>1
<1>3. PICK c \in Byte, e \in Byte : c = hex(b \div 16) /\ e = hex(b % 16)
    BY Halves, DigitsAreHex
<1>4. text' = text \o <<c, e>> /\ index' = index + 1
    BY <1>2, <1>3 DEF AppendByte, Spelled
<1>5. <<c, e>> \in Seq(Byte) /\ Len(<<c, e>>) = 2
    OBVIOUS
<1>6. /\ text' \in Seq(Byte) /\ Len(text') = 2 * index + 2
      /\ \A i \in 1..2 * index : text'[i] = text[i]
      /\ text'[2 * index + 1] = c /\ text'[2 * index + 2] = e
    <2>1. PICK n \in Nat : n = 2 * index
        BY <1>1
    <2>2. PICK s \in Seq(Byte) : s = <<c, e>> /\ Len(s) = 2 /\ s[1] = c /\ s[2] = e
        BY <1>5
    <2>3. Len(text) = n /\ text' = text \o s
        BY <1>1, <1>4, <2>1, <2>2
    <2>4. /\ text' \in Seq(Byte) /\ Len(text') = n + 2
          /\ \A i \in 1..n : text'[i] = text[i]
          /\ text'[n + 1] = s[1] /\ text'[n + 2] = s[2]
        <3>1. /\ text' \in Seq(Byte) /\ Len(text') = Len(text) + Len(s)
              /\ \A i \in 1..Len(text) + Len(s) :
                    text'[i] = IF i <= Len(text) THEN text[i] ELSE s[i - Len(text)]
            BY <1>1, <2>2, <2>3, ConcatProperties
        <3>2. /\ text' \in Seq(Byte) /\ Len(text') = n + 2
              /\ \A i \in 1..n + 2 : text'[i] = IF i <= n THEN text[i] ELSE s[i - n]
            BY <2>2, <2>3, <3>1
        <3>3. \A i \in 1..n : i \in 1..n + 2 /\ i <= n
            BY <2>1
        <3>4. /\ n + 1 \in 1..n + 2 /\ ~(n + 1 <= n) /\ (n + 1) - n = 1
              /\ n + 2 \in 1..n + 2 /\ ~(n + 2 <= n) /\ (n + 2) - n = 2
            BY <2>1
        <3>5. \A i \in 1..n : text'[i] = text[i]
            BY <3>2, <3>3, Zenon
        <3>6. text'[n + 1] = s[(n + 1) - n] /\ text'[n + 2] = s[(n + 2) - n]
            BY <3>2, <3>4, Zenon
        <3> QED
            BY <3>2, <3>4, <3>5, <3>6
    <2> QED
        BY <2>1, <2>2, <2>4
<1>7. Spells(text', digest, index + 1)
    <2> SUFFICES ASSUME NEW k \in 1..index + 1
                 PROVE  /\ text'[2 * k - 1] = hex(digest[k] \div 16)
                        /\ text'[2 * k] = hex(digest[k] % 16)
        BY DEF Spells
    <2>1. CASE k \in 1..index
        <3>1. 2 * k - 1 \in 1..2 * index /\ 2 * k \in 1..2 * index
            BY <1>1, <2>1
        <3> QED
            BY <1>1, <1>6, <2>1, <3>1 DEF Spells
    <2>2. CASE k = index + 1
        <3>1. 2 * k - 1 = 2 * index + 1 /\ 2 * k = 2 * index + 2
            BY <1>1, <2>2
        <3> QED
            BY <1>2, <1>3, <1>6, <2>2, <3>1
    <2> QED
        BY <1>1, <2>1, <2>2
<1>8. /\ index + 1 \in 0..2 * DigestSize /\ index + 1 <= DigestSize
      /\ 2 * index + 2 = 2 * (index + 1)
    BY <1>1
<1>9. UNCHANGED <<stage, digest, refused, values>> /\ stage = "finish"
    BY DEF AppendByte
<1> QED
    BY <1>1, <1>4, <1>6, <1>7, <1>8, <1>9 DEF Inv, Spells

\* finish returns the spelling of its digest.
LEMMA ReturnTextInv == ASSUME Inv, ReturnText PROVE Inv'
<1>1. /\ RightWidth /\ Spells(text, digest, DigestSize)
      /\ 0 \in 0..2 * DigestSize
    BY SizeAssumption DEF Inv, ReturnText, RightWidth
<1> QED
    BY <1>1 DEF Inv, ReturnText, RightWidth, Spells

\* A text is refused only if it spells nothing.
LEMMA RefuseInv ==
    ASSUME Inv, NEW reason \in {"width", "character"}, Refuse(reason), ~IsSpelling(text)
    PROVE  Inv'
<1>1. digest = NoDigest
    <2> SUFFICES ASSUME digest # NoDigest PROVE FALSE
        OBVIOUS
    <2>1. digest \in [1..DigestSize -> Byte] /\ Len(text) = 2 * DigestSize
          /\ Spells(text, digest, DigestSize) /\ text \in Seq(Byte)
        BY DigestsAssumption DEF Inv, Refuse, RightWidth
    <2>2. CanonicalText(text)
        BY <2>1, SpelledDigest
    <2> QED
        BY <2>1, <2>2, SpellingIsCanonical
<1> QED
    BY <1>1 DEF Inv, Refuse

LEMMA RefuseWidthInv == ASSUME Inv, RefuseWidth PROVE Inv'
<1>1. ~IsSpelling(text)
    BY DEF RefuseWidth, RightWidth, IsSpelling
<1> QED
    BY <1>1, RefuseInv DEF RefuseWidth

LEMMA RefuseByteInv == ASSUME Inv, RefuseByte PROVE Inv'
<1>1. index + 1 \in 1..2 * DigestSize
    BY SizeAssumption DEF Inv, RefuseByte, RightWidth
<1>2. ~CanonicalText(text)
    BY <1>1 DEF RefuseByte, CanonicalText
<1>3. ~IsSpelling(text)
    BY <1>2, SpellingIsCanonical DEF Inv
<1> QED
    BY <1>3, RefuseInv DEF RefuseByte

LEMMA AcceptByteInv == ASSUME Inv, AcceptByte PROVE Inv'
<1>1. /\ DigestSize \in Nat /\ index \in Nat /\ index + 1 \in 0..2 * DigestSize
      /\ RightWidth /\ Canonical(text[index + 1]) /\ \A i \in 1..index : Canonical(text[i])
    BY SizeAssumption DEF Inv, AcceptByte, RightWidth
<1>2. \A i \in 1..index + 1 : Canonical(text[i])
    <2>1. \A i \in 1..index + 1 : i \in 1..index \/ i = index + 1
        BY <1>1
    <2> QED
        BY <1>1, <2>1
<1> QED
    BY <1>1, <1>2 DEF Inv, AcceptByte, RightWidth, Spells

\* A text that was accepted to its end is the spelling of a digest.
LEMMA FromSha256Inv == ASSUME Inv, from_sha256 PROVE Inv'
<1>1. CanonicalText(text)
    BY DEF Inv, from_sha256, RightWidth, CanonicalText
<1> QED
    BY <1>1 DEF Inv, from_sha256, RightWidth, Spells

LEMMA NextInv == Inv /\ [Next]_vars => Inv'
<1> SUFFICES ASSUME Inv, [Next]_vars PROVE Inv'
    OBVIOUS
<1>1. CASE UNCHANGED vars
    BY <1>1 DEF vars, Inv, RightWidth, Spells
<1>2. CASE Stop
    BY <1>1, <1>2 DEF Stop
<1> QED
    BY <1>1, <1>2, FinishInv, FromTextInv, AppendByteInv, ReturnTextInv, RefuseWidthInv,
       RefuseByteInv, AcceptByteInv, FromSha256Inv DEF Next

LEMMA InvHolds == Spec => []Inv
<1>1. Init => Inv
    BY InitInv
<1>2. Inv /\ [Next]_vars => Inv'
    BY NextInv
<1> QED
    BY <1>1, <1>2, PTL DEF Spec

-----------------------------------------------------------------------------
(* The properties *)

\* The variables hold values of their types, and every value has the width of a
\* digest.
THEOREM ValuesTypeCorrect == Spec => []TypeOK
<1>1. Inv => TypeOK
    BY DEF Inv, TypeOK, CanonicalText
<1> QED
    BY <1>1, InvHolds, PTL

\* from_sha256 accepts what finish spells and nothing but spellings of digests,
\* and the value stands for the digest that was computed.
THEOREM ValuesAreDigestsHolds == Spec => []ValuesAreDigests
<1>1. ASSUME Inv PROVE ValuesAreDigests
    <2>1. \A v \in values : IsSpelling(v)
        BY <1>1, SpellingIsCanonical DEF Inv, CanonicalText
    <2>2. refused # "no" => digest = NoDigest /\ ~IsSpelling(text)
        BY <1>1 DEF Inv
    <2>3. ASSUME digest # NoDigest, stage = "outside"
          PROVE  text \in values /\ DigestOf(text) = digest
        <3>1. /\ digest \in [1..DigestSize -> Byte] /\ text \in Seq(Byte) /\ text \in values
              /\ Len(text) = 2 * DigestSize /\ Spells(text, digest, DigestSize)
            BY <1>1, <2>3, DigestsAssumption DEF Inv, RightWidth
        <3> QED
            BY <3>1, SpelledDigest
    <2> QED
        BY <2>1, <2>2, <2>3 DEF ValuesAreDigests
<1> QED
    BY <1>1, InvHolds, PTL

\* Values are ordered and equal as their digests are, byte by byte.
THEOREM OrderIsOfDigestsHolds == Spec => []OrderIsOfDigests
<1>1. Inv => OrderIsOfDigests
    BY OrderOfSpellings, EqualSpellings DEF Inv, OrderIsOfDigests
<1> QED
    BY <1>1, InvHolds, PTL

=============================================================================
