------------------------- MODULE PayloadPath_proofs -------------------------
(***************************************************************************)
(* Proofs about payload_path::parse for input strings of any length.       *)
(*                                                                         *)
(* The loop walks through the components of the input from left to right;  *)
(* ExactInv says that it has kept, in order, the words of the named ones   *)
(* that start before the next byte (Walked).  The path it returns is joined*)
(* by FlattenSeq, whose value is unfolded by induction over the number of  *)
(* parts (Spelled); both sides then list the same words (Lists).           *)
(***************************************************************************)
EXTENDS PayloadPath, SequenceTheorems, FiniteSetTheorems, TLAPS

\* The part between two positions of the input is a string without a slash.
LEMMA PartIsCut ==
    ASSUME input \in Seq(Byte), begin \in 0..Len(input),
           NEW end \in begin..Len(input), EndsPart(end),
           NEW part, part = SubSeq(input, begin + 1, end)
    PROVE  part \in Seq(Byte) /\ \A i \in DOMAIN part : part[i] # "/"
<1>1. begin \in Nat /\ end \in Nat /\ end <= Len(input) /\ begin <= end /\ Len(input) \in Nat
    OBVIOUS
<1>2. \A i \in begin + 1..end : i \in 1..Len(input) /\ input[i] \in Byte /\ input[i] # "/"
    BY <1>1 DEF EndsPart
<1>3. /\ part \in Seq(Byte)
      /\ Len(part) = IF begin + 1 <= end THEN end - (begin + 1) + 1 ELSE 0
      /\ \A i \in 1..end - (begin + 1) + 1 : part[i] = input[(begin + 1) + i - 1]
    BY <1>1, <1>2, begin + 1 \in Int, end \in Int, SubSeqProperties
<1>4. ASSUME NEW i \in DOMAIN part PROVE part[i] # "/"
    <2>1. i \in 1..end - (begin + 1) + 1 /\ (begin + 1) + i - 1 \in begin + 1..end
        BY <1>1, <1>3, <1>4, LenProperties
    <2> QED
        BY <1>2, <1>3, <2>1
<1> QED
    BY <1>3, <1>4

\* The inductive invariant: the types of what the loop works on, and what it keeps.
Inv ==
    /\ input \in Seq(Byte)
    /\ begin \in 0..Len(input)
    /\ parts \in Seq(Seq(Byte))
    /\ pc # "done" => outcome = Pending
    /\ PartsAreNames

\* The call starts before the first byte with nothing kept.
LEMMA InitInv == Init => Inv
<1> SUFFICES ASSUME Init PROVE Inv
    OBVIOUS
<1>1. input \in Seq(Byte)
    BY InputsAssumption DEF Init
<1> QED
    BY <1>1 DEF Init, Inv, PartsAreNames, Pending

\* A throw keeps what was kept.
LEMMA RefuseInv ==
    ASSUME Inv, NEW reason \in Reason, Refuse(reason)
    PROVE  Inv'
BY DEF Refuse, Inv, PartsAreNames

\* One iteration keeps a name or drops a part that names nothing.
LEMMA TakePartInv == ASSUME Inv, TakePart PROVE Inv'
<1>1. PICK end \in begin..Len(input) :
        /\ EndsPart(end)
        /\ ~IsForbidden(SubSeq(input, begin + 1, end))
        /\ ~Escapes(SubSeq(input, begin + 1, end))
        /\ parts' = IF IsName(SubSeq(input, begin + 1, end))
                    THEN Append(parts, SubSeq(input, begin + 1, end)) ELSE parts
        /\ \/ end = Len(input) /\ pc' = "join" /\ begin' = begin
           \/ end < Len(input) /\ begin' = NextBegin(end) /\ pc' = pc
    BY DEF TakePart
<1> DEFINE part == SubSeq(input, begin + 1, end)
<1>2. UNCHANGED <<input, outcome>> /\ pc = "loop" /\ PartsAreNames /\ outcome = Pending
      /\ input \in Seq(Byte) /\ begin \in 0..Len(input) /\ parts \in Seq(Seq(Byte))
    BY DEF TakePart, Inv
<1>3. part \in Seq(Byte) /\ \A i \in DOMAIN part : part[i] # "/"
    BY <1>1, <1>2, PartIsCut
<1>4. parts' = (IF IsName(part) THEN Append(parts, part) ELSE parts)
    BY <1>1
<1>5. /\ \A i \in DOMAIN part : part[i] # "LF"
      /\ part # <<".", ".">>
    BY <1>1 DEF IsForbidden, Escapes
<1> HIDE DEF part
<1>6. parts' \in Seq(Seq(Byte))
    BY <1>2, <1>3, <1>4
<1>7. /\ \A k \in DOMAIN parts' :
            /\ parts'[k] \notin {<<>>, <<".">>, <<".", ".">>}
            /\ \A i \in DOMAIN parts'[k] : parts'[k][i] \notin {"/", "LF"}
    <2>1. CASE ~IsName(part)
        BY <1>2, <1>4, <2>1 DEF PartsAreNames
    <2>2. CASE IsName(part)
        <3>1. parts' = Append(parts, part) /\ parts \in Seq(Seq(Byte))
            BY <1>2, <1>4, <2>2
        <3>2. \A k \in DOMAIN parts' : parts'[k] = part \/ (k \in DOMAIN parts /\ parts'[k] = parts[k])
            BY <1>3, <3>1
        <3> QED
            BY <1>2, <1>3, <1>5, <2>2, <3>2 DEF PartsAreNames, IsName
    <2> QED
        BY <2>1, <2>2
<1>8. begin' \in 0..Len(input') /\ (begin' = 0 \/ input'[begin'] = "/")
    <2>1. CASE end = Len(input) /\ begin' = begin
        BY <1>2, <2>1 DEF PartsAreNames
    <2>2. CASE end < Len(input) /\ begin' = NextBegin(end)
        <3>1. end \in Nat /\ Len(input) \in Nat
            BY <1>1, <1>2
        <3>2. begin' = end + 1 /\ input[end + 1] = "/"
            BY <1>1, <2>2 DEF NextBegin, EndsPart
        <3> QED
            BY <1>2, <2>2, <3>1, <3>2
    <2> QED
        BY <1>1, <2>1, <2>2
<1>9. pc' # "done" /\ outcome' = Pending
    BY <1>1, <1>2
<1> QED
    BY <1>2, <1>6, <1>7, <1>8, <1>9 DEF Inv, PartsAreNames, Pending

\* Every step keeps the invariant.
LEMMA NextInv == Inv /\ [Next]_vars => Inv'
<1> SUFFICES ASSUME Inv, [Next]_vars PROVE Inv'
    OBVIOUS
<1>1. CASE RefuseStart
    BY <1>1, RefuseInv DEF RefuseStart, Reason
<1>2. CASE AcceptStart
    BY <1>2 DEF AcceptStart, Inv, PartsAreNames
<1>3. CASE RefusePart
    <2>1. Refuse("forbidden byte") \/ Refuse("escapes the root")
        BY <1>3 DEF RefusePart
    <2> QED
        BY <2>1, RefuseInv DEF Reason
<1>4. CASE TakePart
    BY <1>4, TakePartInv
<1>5. CASE RefuseNothing
    BY <1>5, RefuseInv DEF RefuseNothing, Reason
<1>6. CASE Join
    BY <1>6 DEF Join, Inv, PartsAreNames
<1>7. CASE UNCHANGED vars
    BY <1>7 DEF vars, Inv, PartsAreNames
<1> QED
    BY <1>1, <1>2, <1>3, <1>4, <1>5, <1>6, <1>7 DEF Next, Done

\* For every input, what parse keeps of it are names below the root, and it returns
\* only when there is one: no normalized path is empty, climbs or spans lines.
THEOREM PartsAreNamesHolds == Spec => []PartsAreNames
<1>1. Inv => PartsAreNames
    BY DEF Inv
<1> QED
    BY <1>1, InitInv, NextInv, PTL DEF Spec


-----------------------------------------------------------------------------
(* Induction over the natural numbers *)

LEMMA Induction ==
    ASSUME NEW S \in SUBSET Nat, 0 \in S, \A n \in S : n + 1 \in S
    PROVE  S = Nat
<1> SUFFICES ASSUME NEW n \in Nat, n \notin S PROVE FALSE
    OBVIOUS
<1> DEFINE A == S \cap (0..n)
           f == [i \in A |-> i + 1]
<1>0. 0 \in A
    OBVIOUS
<1>1. IsFiniteSet(A)
    BY FS_Interval, FS_Subset, 0 \in Int, n \in Int
<1>2. \A i \in A : i + 1 \in A /\ i + 1 # 0
    OBVIOUS
<1>3. IsFiniteSet(A \ {0}) /\ Cardinality(A \ {0}) = Cardinality(A) - 1 /\ 0 \in A
    BY <1>1, <1>0, FS_RemoveElement
<1>4. Cardinality(A) \in Nat
    BY <1>1, FS_CardinalityType
<1>5. f \in [A -> A \ {0}]
    BY <1>2
<1>6. \A i, j \in A : f[i] = f[j] => i = j
    OBVIOUS
<1> HIDE DEF A, f
<1>7. PICK x, y \in A : x # y /\ f[x] = f[y]
    BY <1>1, <1>3, <1>4, <1>5, FS_PigeonHole
<1> QED
    BY <1>6, <1>7

Unfolds(g, s, n) == g = [i \in 1..n |-> IF i = 1 THEN s[i] ELSE g[i - 1] \o s[i]]

LEMMA FlattenUnfolds ==
    ASSUME NEW s, NEW n \in Nat
    PROVE  \E g : Unfolds(g, s, n)
<1> DEFINE S == {k \in Nat : \E g : Unfolds(g, s, k)}
<1>1. 0 \in S
    <2>1. Unfolds([i \in 1..0 |-> s[i]], s, 0)
        BY 1..0 = {} DEF Unfolds
    <2> QED
        BY <2>1
<1>2. ASSUME NEW k \in S PROVE k + 1 \in S
    <2>1. PICK g : Unfolds(g, s, k)
        OBVIOUS
    <2> DEFINE h == [i \in 1..k + 1 |-> IF i = 1 THEN s[i] ELSE g[i - 1] \o s[i]]
    <2>2. ASSUME NEW i \in 1..k + 1, i # 1 PROVE h[i - 1] = g[i - 1]
        <3>1. i - 1 \in 1..k /\ i - 1 \in 1..k + 1
            BY <2>2
        <3> HIDE DEF h
        <3>2. g[i - 1] = IF i - 1 = 1 THEN s[i - 1] ELSE g[(i - 1) - 1] \o s[i - 1]
            BY <2>1, <3>1, Zenon DEF Unfolds
        <3>3. h[i - 1] = IF i - 1 = 1 THEN s[i - 1] ELSE g[(i - 1) - 1] \o s[i - 1]
            BY <3>1, Zenon DEF h
        <3> QED
            BY <3>2, <3>3
    <2>3. Unfolds(h, s, k + 1)
        BY <2>2, Zenon DEF Unfolds
    <2> QED
        BY <2>3
<1>3. S = Nat
    <2> HIDE DEF S
    <2> QED
    BY <1>1, <1>2, Induction DEF S
<1> QED
    BY <1>3

LEMMA FlattenIs ==
    ASSUME NEW s, Len(s) \in Nat, Len(s) # 0
    PROVE  \E g : Unfolds(g, s, Len(s)) /\ FlattenSeq(s) = g[Len(s)]
BY FlattenUnfolds, Zenon DEF FlattenSeq, Unfolds

-----------------------------------------------------------------------------
(* Listings *)

\* at lists the components of C, in the order of their starts.
Lists(at, n, C) ==
    /\ at \in [1..n -> C]
    /\ \A c \in C : \E k \in 1..n : at[k] = c
    /\ \A j, k \in 1..n : j < k => at[j][1] < at[k][1]

Starts(C) == \A c \in C : c[1] \in Nat

LEMMA ListedOnce ==
    ASSUME NEW C, Starts(C), NEW n \in Nat, NEW at, Lists(at, n, C)
    PROVE  /\ \A j, k \in 1..n : at[j][1] <= at[k][1] <=> j <= k
           /\ \A j, k \in 1..n : at[j] = at[k] => j = k
<1>1. \A k \in 1..n : at[k][1] \in Nat
    BY DEF Lists, Starts
<1>2. \A j, k \in 1..n : j < k => at[j][1] < at[k][1]
    BY DEF Lists
<1> QED
    BY <1>1, <1>2

LEMMA ListedCount ==
    ASSUME NEW C, Starts(C), NEW n \in Nat, NEW at, Lists(at, n, C)
    PROVE  Cardinality(C) = n
<1>1. at \in Bijection(1..n, C)
    <2>1. at \in [1..n -> C] /\ \A c \in C : \E k \in 1..n : at[k] = c
        BY DEF Lists
    <2>2. \A j, k \in 1..n : at[j] = at[k] => j = k
        BY ListedOnce
    <2>3. at \in Injection(1..n, C)
        BY <2>1, <2>2 DEF Injection, IsInjective
    <2>4. at \in Surjection(1..n, C)
        BY <2>1 DEF Surjection
    <2> QED
        BY <2>3, <2>4 DEF Bijection
<1> QED
    BY <1>1, FS_CountingElements DEF ExistsBijection

\* The k-th component of a listing has k components up to it.
LEMMA ListedNth ==
    ASSUME NEW C, Starts(C), NEW n \in Nat, NEW at, Lists(at, n, C), NEW k \in 1..n
    PROVE  Cardinality({d \in C : d[1] <= at[k][1]}) = k
<1> DEFINE D == {d \in C : d[1] <= at[k][1]}
           up == [j \in 1..k |-> at[j]]
<1>1. \A j \in 1..k : j \in 1..n /\ j <= k
    OBVIOUS
<1>2. Starts(D) /\ k \in Nat
    BY DEF Starts
<1>3. Lists(up, k, D)
    <2>1. \A j \in 1..k : at[j] \in D
        BY <1>1, ListedOnce DEF Lists
    <2>2. \A d \in D : \E j \in 1..k : up[j] = d
        <3> TAKE d \in D
        <3>1. PICK j \in 1..n : at[j] = d
            BY DEF Lists
        <3>2. j <= k
            BY <3>1, ListedOnce
        <3> QED
            BY <3>1, <3>2
    <2>3. \A i, j \in 1..k : i < j => up[i][1] < up[j][1]
        BY <1>1 DEF Lists
    <2> QED
        BY <2>1, <2>2, <2>3 DEF Lists
<1> HIDE DEF D, up
<1>4. Cardinality(D) = k
    BY <1>2, <1>3, ListedCount
<1> QED
    BY <1>4 DEF D

\* A listing grows by a component that starts later.
Later(c, C) == \A d \in C : d[1] < c[1]
Longer(at, n, c) == [k \in 1..n + 1 |-> IF k <= n THEN at[k] ELSE c]

LEMMA ListingGrows ==
    ASSUME NEW C, NEW n \in Nat, NEW at, Lists(at, n, C),
           NEW c, Later(c, C)
    PROVE  /\ Lists(Longer(at, n, c), n + 1, C \cup {c})
           /\ \A k \in 1..n : Longer(at, n, c)[k] = at[k] /\ at[k] \in C
           /\ Longer(at, n, c)[n + 1] = c
<1> DEFINE next == [k \in 1..n + 1 |-> IF k <= n THEN at[k] ELSE c]
<1>1. \A k \in 1..n : next[k] = at[k] /\ at[k] \in C
    BY DEF Lists
<1>2. next[n + 1] = c
    OBVIOUS
<1>3. \A k \in 1..n + 1 : k \in 1..n \/ k = n + 1
    OBVIOUS
<1>4. \A k \in 1..n : k \in 1..n + 1
    OBVIOUS
<1>5. DOMAIN next = 1..n + 1 /\ next = [k \in 1..n + 1 |-> next[k]]
    OBVIOUS
<1> HIDE DEF next
<1>6. next \in [1..n + 1 -> C \cup {c}]
    <2>1. \A k \in 1..n + 1 : next[k] \in C \cup {c}
        BY <1>1, <1>2, <1>3
    <2> QED
        BY <1>5, <2>1
<1>7. \A d \in C \cup {c} : \E k \in 1..n + 1 : next[k] = d
    <2> TAKE d \in C \cup {c}
    <2>1. CASE d \in C
        <3>1. PICK k \in 1..n : at[k] = d
            BY <2>1 DEF Lists
        <3>2. k \in 1..n + 1 /\ next[k] = d
            BY <1>1, <1>4, <3>1
        <3> QED
            BY <3>2
    <2>2. CASE d = c
        BY <1>2, <2>2
    <2> QED
        BY <2>1, <2>2
<1>8. ASSUME NEW j \in 1..n + 1, NEW k \in 1..n + 1, j < k PROVE next[j][1] < next[k][1]
    <2>1. j \in 1..n
        BY <1>8
    <2>2. CASE k \in 1..n
        BY <1>1, <1>8, <2>1, <2>2 DEF Lists
    <2>3. CASE k = n + 1
        BY <1>1, <1>2, <2>1, <2>3 DEF Later
    <2> QED
        BY <1>3, <2>2, <2>3
<1>9. Lists(next, n + 1, C \cup {c})
    BY <1>6, <1>7, <1>8 DEF Lists
<1> QED
    BY <1>1, <1>2, <1>9 DEF next, Longer

-----------------------------------------------------------------------------
(* Components *)

LEMMA NamedStart == ASSUME NEW s, Len(s) \in Nat PROVE Starts(Components(s)) /\ Starts(Named(s))
BY DEF Starts, Named, Components

\* The names of a string are the words of any listing of its named components.
LEMMA NamesListed ==
    ASSUME NEW s, Len(s) \in Nat, NEW n \in Nat, NEW at, Lists(at, n, Named(s))
    PROVE  Names(s) = [k \in 1..n |-> Word(s, at[k])]
<1>1. Starts(Named(s))
    BY NamedStart
<1>2. Cardinality(Named(s)) = n
    BY <1>1, ListedCount
<1>3. ASSUME NEW k \in 1..n PROVE Nth(s, k) = at[k]
    <2>1. at[k] \in Named(s) /\ Cardinality({d \in Named(s) : d[1] <= at[k][1]}) = k
        BY <1>1, ListedNth DEF Lists
    <2>2. ASSUME NEW c \in Named(s), Cardinality({d \in Named(s) : d[1] <= c[1]}) = k
          PROVE  c = at[k]
        <3>1. PICK j \in 1..n : at[j] = c
            BY DEF Lists
        <3>2. Cardinality({d \in Named(s) : d[1] <= at[j][1]}) = j
            BY <1>1, ListedNth
        <3> QED
            BY <2>2, <3>1, <3>2
    <2> QED
        BY <2>1, <2>2, Zenon DEF Nth
<1> QED
    BY <1>2, <1>3 DEF Names

\* A component is a stretch between two slashes or ends.
Cut(s, i, j) ==
    /\ i \in 1..Len(s) + 1 /\ j \in 0..Len(s) /\ i <= j + 1
    /\ \A k \in i..j : s[k] # "/"
    /\ i = 1 \/ s[i - 1] = "/"
    /\ j = Len(s) \/ s[j + 1] = "/"

Piece(s, i, j) == SubSeq(s, i, j)

LEMMA ComponentIs ==
    ASSUME NEW s
    PROVE  /\ \A c \in Components(s) :
                /\ c = <<c[1], c[2]>> /\ Cut(s, c[1], c[2])
                /\ Word(s, c) = Piece(s, c[1], c[2])
           /\ \A i, j : Cut(s, i, j) =>
                <<i, j>> \in Components(s) /\ Word(s, <<i, j>>) = Piece(s, i, j)
<1>1. \A c \in Components(s) : c = <<c[1], c[2]>> /\ Cut(s, c[1], c[2])
    BY DEF Components, Cut
<1>2. \A i, j : Cut(s, i, j) => <<i, j>> \in Components(s)
    BY DEF Components, Cut
<1>3. /\ \A c : Word(s, c) = Piece(s, c[1], c[2])
      /\ \A i, j : Word(s, <<i, j>>) = Piece(s, i, j)
    BY DEF Word, Piece
<1> QED
    BY <1>1, <1>2, <1>3

\* Components that start at one byte are one.
LEMMA CutOnce ==
    ASSUME NEW s, Len(s) \in Nat, NEW i, NEW j, NEW k, Cut(s, i, j), Cut(s, i, k)
    PROVE  j = k
<1>1. i \in Nat /\ j \in Nat /\ k \in Nat /\ i <= j + 1 /\ i <= k + 1 /\ j <= Len(s) /\ k <= Len(s)
    BY DEF Cut
<1>2. ASSUME NEW x, NEW y, Cut(s, i, x), Cut(s, i, y), x \in Nat, y \in Nat, x < y PROVE FALSE
    <2>1. x + 1 \in i..y /\ x # Len(s)
        BY <1>1, <1>2 DEF Cut
    <2> QED
        BY <1>2, <2>1 DEF Cut
<1>3. ~(j < k) /\ ~(k < j)
    BY <1>1, <1>2
<1> QED
    BY <1>1, <1>3

LEMMA PieceIs ==
    ASSUME NEW s \in Seq(Byte), NEW i, NEW j, Cut(s, i, j)
    PROVE  LET w == Piece(s, i, j) IN
           /\ w \in Seq(Byte)
           /\ Len(w) = j - i + 1
           /\ \A k \in 1..j - i + 1 : w[k] = s[i + k - 1]
<1>1. i \in Int /\ j \in Int /\ i <= j + 1
    BY DEF Cut
<1>2. \A k \in i..j : s[k] \in Byte
    BY DEF Cut
<1>3. Piece(s, i, j) = SubSeq(s, i, j)
    BY DEF Piece
<1>4. /\ SubSeq(s, i, j) \in Seq(Byte)
      /\ Len(SubSeq(s, i, j)) = IF i <= j THEN j - i + 1 ELSE 0
      /\ \A k \in 1..j - i + 1 : SubSeq(s, i, j)[k] = s[i + k - 1]
    BY <1>1, <1>2, SubSeqProperties
<1>5. Len(SubSeq(s, i, j)) = j - i + 1
    BY <1>1, <1>4
<1> QED
    BY <1>3, <1>4, <1>5

-----------------------------------------------------------------------------
(* A path grows by a slash and a name *)

IsWord(p) == p \in Seq(Byte) /\ p # <<>> /\ \A i \in DOMAIN p : p[i] \notin {"/", "LF"}

\* T is J, a slash and p.
Grows(T, J, p) ==
    /\ Len(T) = Len(J) + 1 + Len(p)
    /\ \A i \in 1..Len(J) : T[i] = J[i]
    /\ T[Len(J) + 1] = "/"
    /\ \A i \in 1..Len(p) : T[Len(J) + 1 + i] = p[i]

LEMMA GluedGrows ==
    ASSUME NEW J \in Seq(Byte), NEW p \in Seq(Byte)
    PROVE  LET T == J \o (<<"/">> \o p) IN T \in Seq(Byte) /\ Grows(T, J, p)
<1> DEFINE q == <<"/">> \o p
           T == J \o q
<1>1. <<"/">> \in Seq(Byte) /\ Len(<<"/">>) = 1 /\ <<"/">>[1] = "/"
    BY DEF Byte
<1>2. PICK m \in Nat, n \in Nat : m = Len(J) /\ n = Len(p)
    BY LenProperties
<1>3. /\ q \in Seq(Byte) /\ Len(q) = 1 + n
      /\ \A i \in 1..1 + n : q[i] = IF i <= 1 THEN <<"/">>[i] ELSE p[i - 1]
    BY <1>1, <1>2, ConcatProperties
<1>4. q[1] = "/" /\ \A i \in 1..n : q[1 + i] = p[i]
    <2>1. 1 \in 1..1 + n /\ 1 <= 1
        BY <1>2
    <2>2. \A i \in 1..n : 1 + i \in 1..1 + n /\ ~(1 + i <= 1) /\ (1 + i) - 1 = i
        BY <1>2
    <2>3. q[1] = "/"
        BY <1>1, <1>3, <2>1, Zenon
    <2>4. ASSUME NEW i \in 1..n PROVE q[1 + i] = p[i]
        BY <1>3, <2>2, Zenon
    <2> QED
        BY <2>3, <2>4
<1> HIDE DEF q
<1>5. /\ T \in Seq(Byte) /\ Len(T) = m + (1 + n)
      /\ \A i \in 1..m + (1 + n) : T[i] = IF i <= m THEN J[i] ELSE q[i - m]
    <2>1. /\ T \in Seq(Byte) /\ Len(T) = Len(J) + Len(q)
          /\ \A i \in 1..Len(J) + Len(q) : T[i] = IF i <= Len(J) THEN J[i] ELSE q[i - Len(J)]
        BY <1>3, ConcatProperties
    <2> QED
        BY <1>2, <1>3, <2>1
<1> HIDE DEF T
<1>6. /\ \A i \in 1..m : i \in 1..m + (1 + n) /\ i <= m
      /\ m + 1 \in 1..m + (1 + n) /\ ~(m + 1 <= m) /\ (m + 1) - m = 1
      /\ \A i \in 1..n : /\ m + 1 + i \in 1..m + (1 + n)
                         /\ ~(m + 1 + i <= m) /\ (m + 1 + i) - m = 1 + i
      /\ m + (1 + n) = m + 1 + n
    BY <1>2
<1>7. \A i \in 1..m : T[i] = J[i]
    BY <1>5, <1>6, Zenon
<1>8. T[m + 1] = "/"
    BY <1>4, <1>5, <1>6, Zenon
<1>9. ASSUME NEW i \in 1..n PROVE T[m + 1 + i] = p[i]
    <2>1. T[m + 1 + i] = q[(m + 1 + i) - m]
        BY <1>5, <1>6, Zenon
    <2> QED
        BY <1>4, <1>6, <2>1, Zenon
<1>10. Grows(T, J, p)
    BY <1>2, <1>5, <1>6, <1>7, <1>8, <1>9 DEF Grows
<1> QED
    BY <1>5, <1>10 DEF T, q

\* Its components are those of J and p.
LEMMA GrownCuts ==
    ASSUME NEW J \in Seq(Byte), NEW p, IsWord(p), NEW T, Grows(T, J, p)
    PROVE  \A i, j : Cut(T, i, j) <=> Cut(J, i, j) \/ (i = Len(J) + 2 /\ j = Len(T))
<1>1. PICK m \in Nat, n \in Nat : m = Len(J) /\ n = Len(p) /\ n # 0 /\ DOMAIN p = 1..n
    BY EmptySeq, LenProperties DEF IsWord
<1>2. Len(T) = m + 1 + n /\ T[m + 1] = "/"
    BY <1>1 DEF Grows
<1>3. \A i \in 1..m : T[i] = J[i]
    BY <1>1 DEF Grows
<1>4. \A x \in m + 2..m + 1 + n : T[x] # "/"
    <2> TAKE x \in m + 2..m + 1 + n
    <2>1. PICK i \in 1..n : m + 1 + i = x
        <3>1. x - m - 1 \in 1..n /\ m + 1 + (x - m - 1) = x
            BY <1>1
        <3> QED
            BY <3>1
    <2>2. p[i] # "/"
        BY <1>1 DEF IsWord
    <2>3. T[m + 1 + i] = p[i]
        BY <1>1 DEF Grows
    <2> QED
        BY <2>1, <2>2, <2>3
<1>5. ASSUME NEW i, NEW j, Cut(J, i, j) PROVE Cut(T, i, j)
    <2>1. i \in 1..m + 1 /\ j \in 0..m /\ i <= j + 1
        BY <1>1, <1>5 DEF Cut
    <2>2. \A k \in i..j : T[k] # "/"
        BY <1>1, <1>3, <1>5, <2>1 DEF Cut
    <2>3. i = 1 \/ T[i - 1] = "/"
        BY <1>1, <1>3, <1>5, <2>1 DEF Cut
    <2>4. T[j + 1] = "/"
        BY <1>1, <1>2, <1>3, <1>5, <2>1 DEF Cut
    <2> QED
        BY <1>1, <1>2, <2>1, <2>2, <2>3, <2>4 DEF Cut
<1>6. Cut(T, m + 2, m + 1 + n)
    BY <1>1, <1>2, <1>4 DEF Cut
<1>7. ASSUME NEW i, NEW j, Cut(T, i, j) PROVE Cut(J, i, j) \/ (i = m + 2 /\ j = m + 1 + n)
    <2>1. /\ i \in 1..m + 2 + n /\ j \in 0..m + 1 + n /\ i <= j + 1
          /\ \A k \in i..j : T[k] # "/"
          /\ i = 1 \/ T[i - 1] = "/"
          /\ j = m + 1 + n \/ T[j + 1] = "/"
        BY <1>1, <1>2, <1>7 DEF Cut
    <2>2. CASE i > m + 2
        BY <1>1, <1>4, <2>1, <2>2
    <2>3. CASE i = m + 2
        BY <1>1, <1>4, <2>1, <2>3
    <2>4. CASE i <= m + 1
        <3>1. j <= m
            BY <1>1, <1>2, <2>1, <2>4
        <3>2. \A k \in i..j : J[k] # "/"
            BY <1>1, <1>3, <2>1, <3>1
        <3>3. i = 1 \/ J[i - 1] = "/"
            BY <1>1, <1>3, <2>1, <2>4
        <3>4. j = m \/ J[j + 1] = "/"
            BY <1>1, <1>3, <2>1, <3>1
        <3> QED
            BY <1>1, <2>1, <2>4, <3>1, <3>2, <3>3, <3>4 DEF Cut
    <2> QED
        BY <1>1, <2>1, <2>2, <2>3, <2>4
<1>8. Len(J) + 2 = m + 2 /\ Len(T) = m + 1 + n
    BY <1>1, <1>2
<1> QED
    BY <1>5, <1>6, <1>7, <1>8

\* Words stay what they were, and the last one is p.
LEMMA GrownPieces ==
    ASSUME NEW J \in Seq(Byte), NEW p, IsWord(p), NEW T \in Seq(Byte), Grows(T, J, p)
    PROVE  /\ \A i, j : Cut(J, i, j) => Piece(T, i, j) = Piece(J, i, j)
           /\ Piece(T, Len(J) + 2, Len(T)) = p
<1>1. PICK m \in Nat, n \in Nat : m = Len(J) /\ n = Len(p) /\ p \in Seq(Byte)
    BY LenProperties DEF IsWord
<1>2. Len(T) = m + 1 + n /\ \A i \in 1..m : T[i] = J[i]
    BY <1>1 DEF Grows
<1>3. ASSUME NEW i, NEW j, Cut(J, i, j) PROVE Piece(T, i, j) = Piece(J, i, j)
    <2>1. i \in 1..m + 1 /\ j \in 0..m /\ i <= j + 1
        BY <1>1, <1>3 DEF Cut
    <2>0. Cut(T, i, j)
        BY <1>3, GrownCuts
    <2>2. PICK u, v : u = Piece(T, i, j) /\ v = Piece(J, i, j)
        OBVIOUS
    <2>3. /\ u \in Seq(Byte) /\ Len(u) = j - i + 1
          /\ \A k \in 1..j - i + 1 : u[k] = T[i + k - 1]
        BY <2>0, <2>2, PieceIs
    <2>6. /\ v \in Seq(Byte) /\ Len(v) = j - i + 1
          /\ \A k \in 1..j - i + 1 : v[k] = J[i + k - 1]
        BY <1>3, <2>2, PieceIs
    <2>4. \A k \in 1..j - i + 1 : i + k - 1 \in 1..m
        BY <1>1, <2>1
    <2>5. u = v
        <3>1. \A k \in 1..Len(u) : u[k] = v[k]
            BY <1>2, <2>3, <2>4, <2>6
        <3> QED
            BY <2>3, <2>6, <3>1, SeqEqual
    <2> QED
        BY <2>2, <2>5
<1>4. PICK i, j : i = m + 2 /\ j = m + 1 + n
    OBVIOUS
<1>12. Cut(T, i, j)
    BY <1>1, <1>2, <1>4, GrownCuts
<1>5. PICK u : u = Piece(T, i, j)
    OBVIOUS
<1>6. /\ u \in Seq(Byte) /\ Len(u) = j - i + 1
      /\ \A k \in 1..j - i + 1 : u[k] = T[i + k - 1]
    BY <1>5, <1>12, PieceIs
<1>7. j - i + 1 = n /\ \A k \in 1..n : i + k - 1 = m + 1 + k
    BY <1>1, <1>4
<1>8. u \in Seq(Byte) /\ Len(u) = n /\ \A k \in 1..n : u[k] = T[m + 1 + k]
    BY <1>6, <1>7
<1>9. \A k \in 1..n : T[m + 1 + k] = p[k]
    BY <1>1 DEF Grows
<1>10. u = p
    BY <1>1, <1>8, <1>9, SeqEqual
<1>11. Piece(T, Len(J) + 2, Len(T)) = p
    BY <1>1, <1>2, <1>4, <1>5, <1>10
<1> QED
    BY <1>3, <1>11


-----------------------------------------------------------------------------
(* The joined path *)

\* J consists of the first n words of w.
Spelled(J, w, n) ==
    /\ J \in Seq(Byte) /\ J # <<>> /\ J[1] # "/"
    /\ \A i \in DOMAIN J : J[i] # "LF"
    /\ \E at : /\ Lists(at, n, Components(J))
               /\ \A k \in 1..n : Word(J, at[k]) = w[k]

LEMMA SpelledOne ==
    ASSUME NEW w, IsWord(w[1]) PROVE Spelled(w[1], w, 1)
<1>0. PICK p : p = w[1] /\ IsWord(p) /\ p \in Seq(Byte)
    BY DEF IsWord
<1>1. PICK n \in Nat : n = Len(p) /\ n # 0 /\ DOMAIN p = 1..n
    BY <1>0, EmptySeq, LenProperties DEF IsWord
<1>2. \A i \in 1..n : p[i] \notin {"/", "LF"}
    BY <1>0, <1>1 DEF IsWord
<1>3. \A i, j : Cut(p, i, j) <=> i = 1 /\ j = n
    <2>1. Cut(p, 1, n)
        BY <1>1, <1>2 DEF Cut
    <2>2. ASSUME NEW i, NEW j, Cut(p, i, j) PROVE i = 1 /\ j = n
        <3>1. /\ i \in 1..n + 1 /\ j \in 0..n /\ i <= j + 1
              /\ i = 1 \/ p[i - 1] = "/"
              /\ j = n \/ p[j + 1] = "/"
            BY <1>1, <2>2 DEF Cut
        <3> QED
            BY <1>1, <1>2, <3>1
    <2> QED
        BY <2>1, <2>2
<1> DEFINE at == [k \in 1..1 |-> <<1, n>>]
<1>4. Components(p) = {<<1, n>>}
    BY <1>3, ComponentIs
<1>5. Lists(at, 1, Components(p))
    BY <1>4 DEF Lists
<1>6. Word(p, <<1, n>>) = p
    BY <1>0, <1>1, SubSeqFull DEF Word
<1>7. \A k \in 1..1 : Word(p, at[k]) = w[k]
    BY <1>0, <1>1, <1>6
<1> HIDE DEF at
<1>8. p # <<>> /\ p[1] # "/" /\ \A i \in DOMAIN p : p[i] # "LF"
    BY <1>0, <1>1, <1>2 DEF IsWord
<1> QED
    BY <1>0, <1>1, <1>5, <1>7, <1>8 DEF Spelled

LEMMA SpelledNext ==
    ASSUME NEW J, NEW w, NEW n \in Nat, n # 0, Spelled(J, w, n), IsWord(w[n + 1])
    PROVE  Spelled(J \o (<<"/">> \o w[n + 1]), w, n + 1)
<1>1. PICK p, T : p = w[n + 1] /\ T = J \o (<<"/">> \o p)
    OBVIOUS
<1>2. J \in Seq(Byte) /\ J # <<>> /\ IsWord(p) /\ p \in Seq(Byte)
    BY <1>1 DEF Spelled, IsWord
<1>3. T \in Seq(Byte) /\ Grows(T, J, p)
    BY <1>1, <1>2, GluedGrows
<1>4. PICK m \in Nat, l \in Nat : m = Len(J) /\ l = Len(p) /\ m # 0 /\ l # 0
                                  /\ DOMAIN J = 1..m /\ DOMAIN p = 1..l
    BY <1>2, EmptySeq, LenProperties DEF IsWord
<1>5. /\ Len(T) = m + 1 + l /\ T[m + 1] = "/" /\ DOMAIN T = 1..m + 1 + l
      /\ \A i \in 1..m : T[i] = J[i]
      /\ \A i \in 1..l : T[m + 1 + i] = p[i]
    BY <1>3, <1>4, LenProperties DEF Grows
<1>6. T # <<>> /\ T[1] # "/"
    BY <1>4, <1>5, EmptySeq DEF Spelled
<1>7. \A i \in DOMAIN T : T[i] # "LF"
    <2> TAKE i \in DOMAIN T
    <2>1. CASE i \in 1..m
        BY <1>4, <1>5, <2>1 DEF Spelled
    <2>2. CASE i = m + 1
        BY <1>5, <2>2
    <2>3. CASE i \in m + 2..m + 1 + l
        <3>1. PICK x \in 1..l : i = m + 1 + x
            <4>1. i - m - 1 \in 1..l /\ i = m + 1 + (i - m - 1)
                BY <1>4, <2>3
            <4> QED
                BY <4>1
        <3> QED
            BY <1>2, <1>4, <1>5, <3>1 DEF IsWord
    <2>4. i \in 1..m + 1 + l
        BY <1>5
    <2>5. i \in 1..m \/ i = m + 1 \/ i \in m + 2..m + 1 + l
        BY <1>4, <2>4
    <2> QED
        BY <2>1, <2>2, <2>3, <2>5
<1>8. PICK at : /\ Lists(at, n, Components(J))
                /\ \A k \in 1..n : Word(J, at[k]) = w[k]
    BY DEF Spelled
<1> DEFINE last == <<m + 2, m + 1 + l>>
           next == Longer(at, n, last)
<1>9. \A c : c \in Components(T) <=> c \in Components(J) \/ c = last
    <2>1. \A i, j : Cut(T, i, j) <=> Cut(J, i, j) \/ (i = m + 2 /\ j = m + 1 + l)
        BY <1>2, <1>3, <1>4, <1>5, GrownCuts
    <2>2. ASSUME NEW c \in Components(T) PROVE c \in Components(J) \/ c = last
        <3>1. c = <<c[1], c[2]>> /\ Cut(T, c[1], c[2])
            BY ComponentIs
        <3> QED
            BY <2>1, <3>1, ComponentIs
    <2>3. ASSUME NEW c \in Components(J) PROVE c \in Components(T)
        <3>1. c = <<c[1], c[2]>> /\ Cut(J, c[1], c[2])
            BY ComponentIs
        <3>2. <<c[1], c[2]>> \in Components(T)
            BY <2>1, <3>1, ComponentIs
        <3> QED
            BY <3>1, <3>2
    <2>4. last \in Components(T)
        BY <2>1, ComponentIs
    <2> QED
        BY <2>2, <2>3, <2>4
<1>10. \A c \in Components(J) : c[1] < last[1]
    <2>1. \A c \in Components(J) : c[1] \in 1..m + 1
        BY <1>4 DEF Components
    <2> QED
        BY <1>4, <2>1
<1>11. /\ Lists(next, n + 1, Components(J) \cup {last})
       /\ \A k \in 1..n : next[k] = at[k] /\ at[k] \in Components(J)
       /\ next[n + 1] = last
    <2>1. PICK C, c : C = Components(J) /\ c = last
        OBVIOUS
    <2>2. Lists(at, n, C) /\ Later(c, C)
        BY <1>8, <1>10, <2>1 DEF Later
    <2> HIDE DEF last
    <2>3. /\ Lists(Longer(at, n, c), n + 1, C \cup {c})
          /\ \A k \in 1..n : Longer(at, n, c)[k] = at[k] /\ at[k] \in C
          /\ Longer(at, n, c)[n + 1] = c
        <3>1. n \in Nat
            OBVIOUS
        <3> HIDE DEF next
        <3> QED
            BY ONLY <2>2, <3>1, ListingGrows
    <2> QED
        BY <2>1, <2>3, Zenon
<1>12. Lists(next, n + 1, Components(T))
    <2>1. Components(T) = Components(J) \cup {last}
        BY <1>9
    <2> QED
        BY <1>11, <2>1
<1> HIDE DEF next
<1>13. \A k \in 1..n + 1 : Word(T, next[k]) = w[k]
    <2> TAKE k \in 1..n + 1
    <2>1. CASE k \in 1..n
        <3>1. PICK c : c = at[k]
            OBVIOUS
        <3>2. c \in Components(J) /\ next[k] = c /\ Word(J, c) = w[k]
            BY <1>8, <1>11, <2>1, <3>1
        <3>3. PICK i, j : c = <<i, j>> /\ Cut(J, i, j) /\ Word(J, c) = Piece(J, i, j)
            BY <3>2, ComponentIs
        <3>4. Piece(T, i, j) = Piece(J, i, j) /\ Cut(T, i, j)
            BY <1>2, <1>3, <3>3, GrownPieces, GrownCuts
        <3>5. Word(T, c) = Piece(T, i, j)
            BY <3>3, <3>4, ComponentIs
        <3> QED
            BY <3>2, <3>3, <3>4, <3>5
    <2>2. CASE k = n + 1
        <3>1. PICK i, j : i = m + 2 /\ j = m + 1 + l
            OBVIOUS
        <3>2. Piece(T, i, j) = p /\ Cut(T, i, j)
            BY <1>2, <1>3, <1>4, <1>5, <3>1, GrownPieces, GrownCuts
        <3>3. Word(T, <<i, j>>) = p
            BY <3>2, ComponentIs
        <3>4. Word(T, last) = p
            BY <3>1, <3>3
        <3> QED
            BY <1>1, <1>11, <2>2, <3>4
    <2> QED
        BY <2>1, <2>2
<1> QED
    BY <1>1, <1>3, <1>6, <1>7, <1>12, <1>13 DEF Spelled

LEMMA Reassociated ==
    \A r, s, t \in Seq(Byte) : (r \o s) \o t = r \o (s \o t)
BY ConcatAssociative, SMT

\* The joined path of a list of words has these words as its components.
LEMMA JoinedSpelled ==
    ASSUME NEW w \in Seq(Seq(Byte)), w # <<>>, \A k \in DOMAIN w : IsWord(w[k])
    PROVE  Spelled(Joined(w), w, Len(w))
<1>1. PICK N \in Nat : N = Len(w) /\ N # 0 /\ DOMAIN w = 1..N
    BY EmptySeq, LenProperties
<1>2. PICK s : s = [i \in 1..N |-> <<"/">> \o w[i]] /\ Len(s) = N
    <2>1. Len([i \in 1..N |-> <<"/">> \o w[i]]) = N
        BY <1>1
    <2> QED
        BY <2>1
<1>3. PICK g : Unfolds(g, s, N) /\ FlattenSeq(s) = g[N]
    BY <1>1, <1>2, FlattenIs
<1>4. g[1] = <<"/">> \o w[1]
    <2>1. 1 \in 1..N
        BY <1>1
    <2>2. g[1] = s[1]
        BY <1>3, <2>1 DEF Unfolds
    <2> QED
        BY <1>2, <2>1, <2>2
<1>5. ASSUME NEW n \in Nat, n # 0, n + 1 \in 1..N
      PROVE  g[n + 1] = g[n] \o (<<"/">> \o w[n + 1])
    <2>1. n + 1 # 1 /\ (n + 1) - 1 = n
        BY <1>5
    <2>2. g[n + 1] = g[(n + 1) - 1] \o s[n + 1]
        BY <1>3, <1>5, <2>1, Zenon DEF Unfolds
    <2>3. s[n + 1] = <<"/">> \o w[n + 1]
        BY <1>2, <1>5, Zenon
    <2> QED
        BY <2>1, <2>2, <2>3, Zenon
<1>6. <<"/">> \in Seq(Byte)
    BY DEF Byte
<1> DEFINE Fine(n) == n \in 1..N => \E J : g[n] = <<"/">> \o J /\ Spelled(J, w, n)
           S == {n \in Nat : Fine(n)}
<1>7. 0 \in S
    OBVIOUS
<1>8. ASSUME NEW n \in S PROVE n + 1 \in S
    <2>1. SUFFICES ASSUME n + 1 \in 1..N PROVE Fine(n + 1)
        OBVIOUS
    <2>2. CASE n = 0
        <3>1. IsWord(w[1])
            <4>1. 1 \in DOMAIN w
                BY <1>1
            <4> QED
                BY <4>1
        <3>2. Spelled(w[1], w, 1)
            BY <3>1, SpelledOne
        <3>3. Fine(1)
            BY <1>4, <3>2
        <3>4. n + 1 = 1
            BY <2>2
        <3> QED
            BY <3>3, <3>4, Zenon
    <2>3. CASE n # 0
        <3>1. PICK J : g[n] = <<"/">> \o J /\ Spelled(J, w, n)
            <4>1. n \in 1..N
                BY <1>1, <1>8, <2>1, <2>3
            <4> QED
                BY <1>8, <4>1
        <3>2. IsWord(w[n + 1]) /\ w[n + 1] \in Seq(Byte)
            <4>1. IsWord(w[n + 1])
                BY <1>1, <2>1
            <4> QED
                BY <4>1 DEF IsWord
        <3>3. PICK q : q = <<"/">> \o w[n + 1] /\ q \in Seq(Byte)
            BY <1>6, <3>2, ConcatProperties
        <3>4. J \in Seq(Byte)
            BY <3>1 DEF Spelled
        <3>5. g[n + 1] = (<<"/">> \o J) \o q
            BY <1>5, <1>8, <2>1, <2>3, <3>1, <3>3
        <3>6. g[n + 1] = <<"/">> \o (J \o q)
            <4>1. PICK r \in Seq(Byte) : r = <<"/">>
                BY <1>6
            <4>2. (r \o J) \o q = r \o (J \o q)
                <5>1. r \in Seq(Byte) /\ J \in Seq(Byte) /\ q \in Seq(Byte)
                    BY <3>3, <3>4
                <5> QED
                    BY <5>1, Reassociated, Zenon
            <4> QED
                BY <3>5, <4>1, <4>2
        <3>7. Spelled(J \o q, w, n + 1)
            BY <1>8, <2>3, <3>1, <3>2, <3>3, SpelledNext
        <3> QED
            BY <3>6, <3>7
    <2> QED
        BY <2>2, <2>3
<1>9. S = Nat
    <2> HIDE DEF S
    <2>1. S \in SUBSET Nat
        BY DEF S
    <2> QED
        BY <1>7, <1>8, <2>1, Induction
<1>10. PICK J : g[N] = <<"/">> \o J /\ Spelled(J, w, N)
    <2>1. N \in S /\ N \in 1..N
        BY <1>1, <1>9
    <2> QED
        BY <2>1
<1>11. Joined(w) = Tail(<<"/">> \o J)
    BY <1>1, <1>2, <1>3, <1>10 DEF Joined
<1>12. Tail(<<"/">> \o J) = J
    BY <1>6, <1>10 DEF Spelled
<1> QED
    BY <1>1, <1>10, <1>11, <1>12

-----------------------------------------------------------------------------
(* The walk through the input *)

\* The named components that start up to byte n, and what the loop has made of
\* them: no line ends, no "..", and w consists of their words in order.
Before(n) == {c \in Named(input) : c[1] <= n}

Walked(n, w) ==
    /\ \A i \in 1..Len(input) : i <= n => input[i] # "LF"
    /\ \A c \in Components(input) : c[1] <= n => Word(input, c) # <<".", ".">>
    /\ \E at \in [1..Len(w) -> Before(n)] :
          /\ Lists(at, Len(w), Before(n))
          /\ \A k \in 1..Len(w) : w[k] = Word(input, at[k])

\* The inductive invariant of ParseIsExact.
ExactInv ==
    /\ Inv
    /\ pc \in {"check", "loop", "join", "done"}
    /\ pc = "check" => begin = 0 /\ parts = <<>>
    /\ pc = "loop" => IsRelative /\ Walked(begin, parts)
    /\ pc = "join" => IsRelative /\ Walked(Len(input) + 1, parts)
    /\ pc = "done" =>
          \/ outcome \in Refusal /\ ~Admissible(input)
          \/ /\ outcome = [verdict |-> "parsed", value |-> Joined(parts)]
             /\ parts # <<>> /\ IsRelative /\ Walked(Len(input) + 1, parts)

\* Before the first byte nothing is walked.
LEMMA WalkStarts == ASSUME input \in Seq(Byte) PROVE Walked(0, <<>>)
<1>1. Len(input) \in Nat
    BY LenProperties
<1>2. \A c \in Components(input) : ~(c[1] <= 0)
    BY <1>1 DEF Components
<1>3. Before(0) = {}
    BY <1>2 DEF Before, Named
<1> DEFINE at == [k \in 1..0 |-> CHOOSE c \in {} : TRUE]
<1>4. at \in [1..0 -> {}] /\ 1..0 = {}
    OBVIOUS
<1>5. Lists(at, 0, {})
    BY <1>4 DEF Lists
<1>6. Len(<<>>) = 0
    OBVIOUS
<1>7. \A i \in 1..Len(input) : ~(i <= 0)
    OBVIOUS
<1> HIDE DEF at
<1> QED
    BY <1>2, <1>3, <1>4, <1>5, <1>6, <1>7 DEF Walked

\* The part of one iteration is the only component that starts in it.
LEMMA PartIsComponent ==
    ASSUME Inv, NEW end \in begin..Len(input), EndsPart(end)
    PROVE  /\ Cut(input, begin + 1, end)
           /\ \A i, j : Cut(input, i, j) /\ i <= end + 1 =>
                i <= begin \/ (i = begin + 1 /\ j = end)
<1>1. PICK b \in Nat, e \in Nat, l \in Nat :
        b = begin /\ e = end /\ l = Len(input) /\ b <= e /\ e <= l
    <2>1. Len(input) \in Nat /\ begin \in 0..Len(input)
        BY LenProperties DEF Inv
    <2>2. begin \in Nat /\ end \in Nat /\ begin <= end /\ end <= Len(input)
        BY <2>1
    <2> QED
        BY <2>1, <2>2
<1>2. /\ \A k \in b + 1..e : input[k] # "/"
      /\ e = l \/ input[e + 1] = "/"
    BY <1>1 DEF EndsPart
<1>3. b = 0 \/ input[b] = "/"
    BY <1>1 DEF Inv, PartsAreNames
<1>4. Cut(input, b + 1, e)
    BY <1>1, <1>2, <1>3 DEF Cut
<1>5. ASSUME NEW i, NEW j, Cut(input, i, j), i <= e + 1, ~(i <= b) PROVE i = b + 1
    <2>1. i \in 1..l + 1 /\ (i = 1 \/ input[i - 1] = "/")
        BY <1>1, <1>5 DEF Cut
    <2>2. ~(i - 1 \in b + 1..e)
        BY <1>1, <1>2, <1>3, <1>5, <2>1
    <2> QED
        BY <1>1, <1>5, <2>1, <2>2
<1>6. ASSUME NEW i, NEW j, Cut(input, i, j), i <= e + 1, ~(i <= b) PROVE j = e
    <2>1. i = b + 1
        BY <1>5, <1>6
    <2>2. Cut(input, b + 1, j)
        BY <1>6, <2>1
    <2> QED
        BY <1>1, <1>4, <2>2, CutOnce
<1> QED
    BY <1>1, <1>4, <1>5, <1>6

\* One iteration walks one component further.
LEMMA WalkOn ==
    ASSUME Inv, Walked(begin, parts), NEW end \in begin..Len(input), EndsPart(end),
           NEW part, part = SubSeq(input, begin + 1, end),
           ~IsForbidden(part), part # <<".", ".">>,
           NEW w, w = IF IsName(part) THEN Append(parts, part) ELSE parts
    PROVE  Walked(end + 1, w)
<1>1. PICK b \in Nat, e \in Nat, l \in Nat :
        b = begin /\ e = end /\ l = Len(input) /\ b <= e /\ e <= l
    <2>1. Len(input) \in Nat /\ begin \in 0..Len(input)
        BY LenProperties DEF Inv
    <2>2. begin \in Nat /\ end \in Nat /\ begin <= end /\ end <= Len(input)
        BY <2>1
    <2> QED
        BY <2>1, <2>2
<1>2. /\ Cut(input, b + 1, e)
      /\ \A i, j : Cut(input, i, j) /\ i <= e + 1 => i <= b \/ (i = b + 1 /\ j = e)
    BY <1>1, PartIsComponent
<1>3. PICK c : c = <<b + 1, e>>
    OBVIOUS
<1>4. c \in Components(input) /\ Word(input, c) = Piece(input, b + 1, e)
    BY <1>2, <1>3, ComponentIs
<1>5. Word(input, c) = part
    BY <1>1, <1>4 DEF Piece
<1>6. \A d \in Components(input) : d[1] \in Nat
    BY <1>1 DEF Components
<1>7. \A d \in Components(input) : d[1] <= e + 1 => d[1] <= b \/ d = c
    <2> TAKE d \in Components(input)
    <2>1. d = <<d[1], d[2]>> /\ Cut(input, d[1], d[2])
        BY ComponentIs
    <2>2. ASSUME d[1] <= e + 1, ~(d[1] <= b) PROVE d = c
        <3>1. d[1] = b + 1 /\ d[2] = e
            BY <1>2, <2>1, <2>2
        <3> QED
            BY <1>3, <2>1, <3>1
    <2> QED
        BY <2>2
<1>8. \A d \in Components(input) : d[1] <= e + 1 <=> d[1] <= b \/ d = c
    BY <1>1, <1>3, <1>6, <1>7
<1>9. /\ part \in Seq(Byte) /\ Len(part) = e - b
      /\ \A k \in 1..e - b : part[k] = input[b + k]
    <2>1. PICK i, j : i = b + 1 /\ j = e
        OBVIOUS
    <2>2. Cut(input, i, j) /\ input \in Seq(Byte)
        BY <1>2, <2>1 DEF Inv
    <2>3. PICK u : u = Piece(input, i, j)
        OBVIOUS
    <2>4. u \in Seq(Byte) /\ Len(u) = j - i + 1 /\ \A k \in 1..j - i + 1 : u[k] = input[i + k - 1]
        BY <2>2, <2>3, PieceIs
    <2>5. j - i + 1 = e - b /\ \A k \in 1..e - b : i + k - 1 = b + k
        BY <1>1, <2>1
    <2>6. u = part
        BY <1>4, <1>5, <2>1, <2>3
    <2> QED
        BY <2>4, <2>5, <2>6
<1>10. \A i \in 1..l : i <= e + 1 => input[i] # "LF"
    <2> SUFFICES ASSUME NEW i \in 1..l, i <= e + 1 PROVE input[i] # "LF"
        OBVIOUS
    <2>1. CASE i <= b
        BY <1>1, <2>1 DEF Walked
    <2>2. CASE b < i /\ i <= e
        <3>1. i - b \in 1..e - b /\ b + (i - b) = i
            BY <1>1, <2>2
        <3>2. part[i - b] = input[i]
            BY <1>9, <3>1
        <3>3. i - b \in DOMAIN part
            BY <1>9, <3>1, LenProperties
        <3> QED
            BY <3>2, <3>3 DEF IsForbidden
    <2>3. CASE i = e + 1
        BY <1>1, <2>3 DEF EndsPart
    <2> QED
        BY <1>1, <2>1, <2>2, <2>3
<1>11. \A d \in Components(input) : d[1] <= e + 1 => Word(input, d) # <<".", ".">>
    BY <1>1, <1>5, <1>8 DEF Walked
<1>12. Named(input) \subseteq Components(input) /\ (c \in Named(input) <=> IsName(part))
    BY <1>4, <1>5 DEF Named, IsName
<1>13. PICK n \in Nat : n = Len(parts) /\ parts \in Seq(Seq(Byte)) /\ DOMAIN parts = 1..n
    BY LenProperties DEF Inv
<1>14. PICK at : Lists(at, n, Before(b)) /\ \A k \in 1..n : parts[k] = Word(input, at[k])
    BY <1>1, <1>13 DEF Walked
<1>15. CASE ~IsName(part)
    <2>1. Before(e + 1) = Before(b)
        BY <1>8, <1>12, <1>15 DEF Before
    <2>2. Lists(at, n, Before(e + 1)) /\ at \in [1..n -> Before(e + 1)]
        BY <1>14, <2>1 DEF Lists
    <2>3. w = parts
        BY <1>15
    <2> QED
        BY <1>1, <1>10, <1>11, <1>13, <1>14, <2>2, <2>3 DEF Walked
<1>16. CASE IsName(part)
    <2>1. Before(e + 1) = Before(b) \cup {c}
        BY <1>8, <1>12, <1>16 DEF Before
    <2>2. PICK C, next : C = Before(b) /\ next = Longer(at, n, c)
        OBVIOUS
    <2>3. Lists(at, n, C) /\ Later(c, C)
        <3>1. \A d \in Before(b) : d[1] < c[1]
            BY <1>1, <1>3, <1>6, <1>12 DEF Before
        <3> QED
            BY <1>14, <2>2, <3>1 DEF Later
    <2>4. /\ Lists(next, n + 1, C \cup {c})
          /\ \A k \in 1..n : next[k] = at[k]
          /\ next[n + 1] = c
        <3>1. n \in Nat
            OBVIOUS
        <3> QED
            BY ONLY <2>2, <2>3, <3>1, ListingGrows
    <2>5. Lists(next, n + 1, Before(e + 1)) /\ next \in [1..n + 1 -> Before(e + 1)]
        BY <2>1, <2>2, <2>4 DEF Lists
    <2>6. /\ Len(w) = n + 1 /\ w[n + 1] = part
          /\ \A k \in 1..n : w[k] = parts[k]
        <3>1. w = Append(parts, part)
            BY <1>16
        <3>2. PICK W, p : W = parts /\ p = part
            OBVIOUS
        <3>3. W \in Seq(Seq(Byte)) /\ p \in Seq(Byte) /\ Len(W) = n
            BY <1>9, <1>13, <3>2
        <3>4. /\ Len(Append(W, p)) = n + 1
              /\ Append(W, p)[n + 1] = p
              /\ \A k \in 1..n : Append(W, p)[k] = W[k]
            BY ONLY <1>13, <3>3, AppendProperties
        <3> QED
            BY <3>1, <3>2, <3>4
    <2>7. \A k \in 1..n + 1 : k \in 1..n \/ k = n + 1
        BY <1>13
    <2>8. \A k \in 1..n + 1 : w[k] = Word(input, next[k])
        BY <1>5, <1>14, <2>4, <2>6, <2>7
    <2> QED
        <3>1. PICK N : N = Len(w) /\ N = n + 1
            BY <2>6
        <3>2. /\ next \in [1..N -> Before(e + 1)] /\ Lists(next, N, Before(e + 1))
              /\ \A k \in 1..N : w[k] = Word(input, next[k])
            BY <2>5, <2>8, <3>1
        <3>3. Walked(e + 1, w)
            BY <1>1, <1>10, <1>11, <3>1, <3>2 DEF Walked
        <3> QED
            BY <1>1, <3>3
<1> QED
    BY <1>15, <1>16

-----------------------------------------------------------------------------
(* Refusals *)

LEMMA Refused ==
    ASSUME NEW reason \in Reason, Refuse(reason)
    PROVE  outcome' \in Refusal /\ pc' = "done" /\ UNCHANGED <<input, begin, parts>>
BY DEF Refuse, Refusal

\* A part with a byte that ends a line, or that is "..", is one of the input.
LEMMA BadPart ==
    ASSUME Inv, NEW end \in begin..Len(input), EndsPart(end),
           NEW part, part = SubSeq(input, begin + 1, end),
           IsForbidden(part) \/ Escapes(part)
    PROVE  ~Admissible(input)
<1>1. PICK i, j : i = begin + 1 /\ j = end
    OBVIOUS
<1>2. Cut(input, i, j) /\ input \in Seq(Byte)
    BY <1>1, PartIsComponent DEF Inv
<1>3. <<i, j>> \in Components(input) /\ Word(input, <<i, j>>) = Piece(input, i, j)
    BY <1>2, ComponentIs
<1>4. part = Piece(input, i, j)
    BY <1>1 DEF Piece
<1>5. CASE Escapes(part)
    BY <1>3, <1>4, <1>5 DEF Escapes, Admissible
<1>6. CASE IsForbidden(part)
    <2>1. /\ part \in Seq(Byte) /\ Len(part) = j - i + 1
          /\ \A k \in 1..j - i + 1 : part[k] = input[i + k - 1]
        <3>1. PICK u : u = Piece(input, i, j)
            OBVIOUS
        <3>2. /\ u \in Seq(Byte) /\ Len(u) = j - i + 1
              /\ \A k \in 1..j - i + 1 : u[k] = input[i + k - 1]
            BY <1>2, <3>1, PieceIs
        <3> QED
            BY <1>4, <3>1, <3>2
    <2>2. PICK k \in 1..j - i + 1 : part[k] = "LF"
        BY <1>6, <2>1, LenProperties DEF IsForbidden
    <2>3. i + k - 1 \in DOMAIN input
        <3>1. i \in 1..Len(input) + 1 /\ j \in 0..Len(input)
            BY <1>2 DEF Cut
        <3>2. DOMAIN input = 1..Len(input) /\ Len(input) \in Nat
            BY <1>2, LenProperties
        <3> QED
            BY <3>1, <3>2
    <2>4. input[i + k - 1] = "LF"
        BY <2>1, <2>2
    <2> QED
        BY <2>3, <2>4 DEF Admissible
<1> QED
    BY <1>5, <1>6

\* The parts of a walk to the end are the names of the input.
LEMMA WalkIsOfNames ==
    ASSUME input \in Seq(Byte), Walked(Len(input) + 1, parts), parts \in Seq(Seq(Byte))
    PROVE  /\ Names(input) = parts
           /\ \A c \in Components(input) : Word(input, c) # <<".", ".">>
           /\ \A i \in DOMAIN input : input[i] # "LF"
<1>1. PICK l \in Nat : l = Len(input) /\ DOMAIN input = 1..l
    BY LenProperties
<1>2. PICK n \in Nat : n = Len(parts) /\ parts = [k \in 1..n |-> parts[k]]
    <2>1. Len(parts) \in Nat /\ DOMAIN parts = 1..Len(parts)
        BY LenProperties
    <2>2. parts = [k \in 1..Len(parts) |-> parts[k]]
        BY <2>1
    <2> QED
        BY <2>1, <2>2
<1>3. \A c \in Components(input) : c[1] <= l + 1
    BY <1>1 DEF Components
<1>4. \A i \in 1..l : i <= l + 1
    OBVIOUS
<1>5. Before(l + 1) = Named(input)
    BY <1>3 DEF Before, Named
<1>6. PICK at : Lists(at, n, Named(input)) /\ \A k \in 1..n : parts[k] = Word(input, at[k])
    BY <1>1, <1>2, <1>5 DEF Walked
<1>7. Names(input) = [k \in 1..n |-> Word(input, at[k])]
    BY <1>1, <1>6, NamesListed
<1>8. Names(input) = parts
    BY <1>2, <1>6, <1>7, Zenon
<1> QED
    BY <1>1, <1>3, <1>4, <1>8 DEF Walked

-----------------------------------------------------------------------------
(* The steps *)

LEMMA ExactInit == Init => ExactInv
<1> SUFFICES ASSUME Init PROVE ExactInv
    OBVIOUS
<1>1. pc = "check" /\ begin = 0 /\ parts = <<>>
    BY DEF Init
<1> QED
    BY <1>1, InitInv DEF ExactInv

LEMMA ExactNext == ExactInv /\ [Next]_vars => ExactInv'
<1> SUFFICES ASSUME ExactInv, [Next]_vars PROVE ExactInv'
    OBVIOUS
<1>1. Inv /\ Inv'
    BY NextInv DEF ExactInv
<1>2. input \in Seq(Byte) /\ parts \in Seq(Seq(Byte))
    BY <1>1 DEF Inv
<1>3. ASSUME NEW reason \in Reason, Refuse(reason), ~Admissible(input) PROVE ExactInv'
    <2>1. /\ outcome' \in Refusal /\ pc' = "done" /\ input' = input
        BY <1>3, Refused
    <2>2. ~Admissible(input)'
        BY <1>3, <2>1
    <2> QED
        BY <1>1, <2>1, <2>2 DEF ExactInv
<1>4. CASE RefuseStart
    <2>1. ~Admissible(input)
        BY <1>4 DEF RefuseStart, IsRelative, Admissible
    <2> QED
        BY <1>3, <1>4, <2>1 DEF RefuseStart, Reason
<1>5. CASE AcceptStart
    <2>1. begin = 0 /\ parts = <<>> /\ Walked(0, <<>>)
        BY <1>2, <1>5, WalkStarts DEF AcceptStart, ExactInv
    <2>2. pc' = "loop" /\ begin' = begin /\ parts' = parts /\ input' = input /\ IsRelative
        BY <1>5 DEF AcceptStart
    <2>3. IsRelative' /\ Walked(begin, parts)'
        BY <2>1, <2>2 DEF IsRelative, Walked, Before
    <2> QED
        BY <1>1, <2>2, <2>3 DEF ExactInv
<1>6. CASE RefusePart
    <2>1. PICK end \in begin..Len(input) :
            /\ EndsPart(end)
            /\ \/ /\ IsForbidden(SubSeq(input, begin + 1, end))
                  /\ Refuse("forbidden byte")
               \/ /\ Escapes(SubSeq(input, begin + 1, end))
                  /\ Refuse("escapes the root")
        BY <1>6 DEF RefusePart
    <2>2. ~Admissible(input)
        BY <1>1, <2>1, BadPart
    <2>3. \E reason \in Reason : Refuse(reason)
        BY <2>1 DEF Reason
    <2> QED
        BY <1>3, <2>2, <2>3
<1>7. CASE TakePart
    <2>1. PICK end \in begin..Len(input) :
            /\ EndsPart(end)
            /\ ~IsForbidden(SubSeq(input, begin + 1, end))
            /\ ~Escapes(SubSeq(input, begin + 1, end))
            /\ parts' = IF IsName(SubSeq(input, begin + 1, end))
                        THEN Append(parts, SubSeq(input, begin + 1, end)) ELSE parts
            /\ \/ end = Len(input) /\ pc' = "join" /\ begin' = begin
               \/ end < Len(input) /\ begin' = NextBegin(end) /\ pc' = pc
        BY <1>7 DEF TakePart
    <2>2. pc = "loop" /\ input' = input
        BY <1>7 DEF TakePart
    <2>3. IsRelative /\ Walked(begin, parts)
        BY <2>2 DEF ExactInv
    <2>4. Walked(end + 1, parts')
        BY <1>1, <2>1, <2>3, WalkOn DEF Escapes
    <2>5. IsRelative'
        BY <2>2, <2>3 DEF IsRelative
    <2>6. CASE end = Len(input) /\ pc' = "join"
        <3>1. Walked(Len(input) + 1, parts)'
            BY <2>2, <2>4, <2>6 DEF Walked, Before
        <3> QED
            BY <1>1, <2>5, <2>6, <3>1 DEF ExactInv
    <2>7. CASE begin' = NextBegin(end) /\ pc' = pc
        <3>1. Walked(begin, parts)'
            BY <2>2, <2>4, <2>7 DEF NextBegin, Walked, Before
        <3> QED
            BY <1>1, <2>2, <2>5, <2>7, <3>1 DEF ExactInv
    <2> QED
        BY <2>1, <2>6, <2>7
<1>8. CASE RefuseNothing
    <2>1. parts = <<>> /\ Walked(Len(input) + 1, parts)
        BY <1>8 DEF RefuseNothing, ExactInv
    <2>2. ~Admissible(input)
        BY <1>2, <2>1, WalkIsOfNames DEF Admissible
    <2> QED
        BY <1>3, <1>8, <2>2 DEF RefuseNothing, Reason
<1>9. CASE Join
    <2>1. pc = "join" /\ IsRelative /\ Walked(Len(input) + 1, parts)
        BY <1>9 DEF Join, ExactInv
    <2>2. /\ parts # <<>> /\ outcome' = [verdict |-> "parsed", value |-> Joined(parts)]
          /\ pc' = "done" /\ input' = input /\ parts' = parts
        BY <1>9 DEF Join
    <2>3. IsRelative' /\ Walked(Len(input) + 1, parts)' /\ parts' # <<>>
        BY <2>1, <2>2 DEF IsRelative, Walked, Before
    <2>4. outcome' = [verdict |-> "parsed", value |-> Joined(parts')]
        BY <2>2
    <2> QED
        BY <1>1, <2>2, <2>3, <2>4 DEF ExactInv
<1>10. CASE UNCHANGED vars
    <2>1. /\ input' = input /\ begin' = begin /\ parts' = parts
          /\ pc' = pc /\ outcome' = outcome
        BY <1>10 DEF vars
    <2>2. /\ IsRelative' <=> IsRelative
          /\ Walked(begin, parts)' <=> Walked(begin, parts)
          /\ Walked(Len(input) + 1, parts)' <=> Walked(Len(input) + 1, parts)
        BY <2>1 DEF IsRelative, Walked, Before
    <2>3. /\ Admissible(input)' <=> Admissible(input)
          /\ Joined(parts') = Joined(parts)
        BY <2>1
    <2>4. pc = "done" =>
            \/ outcome' \in Refusal /\ ~Admissible(input)'
            \/ /\ outcome' = [verdict |-> "parsed", value |-> Joined(parts')]
               /\ parts' # <<>> /\ IsRelative' /\ Walked(Len(input) + 1, parts)'
        BY <2>1, <2>2, <2>3 DEF ExactInv
    <2> QED
        BY <1>1, <2>1, <2>2, <2>4 DEF ExactInv
<1> QED
    BY <1>4, <1>5, <1>6, <1>7, <1>8, <1>9, <1>10 DEF Next, Done

\* What the call has returned is the canonical spelling of the walk.
LEMMA ParsedIsCanonical ==
    ASSUME ExactInv, parts # <<>>, IsRelative, Walked(Len(input) + 1, parts),
           NEW J, J = Joined(parts)
    PROVE  /\ Admissible(input)
           /\ J \in Seq(Byte) /\ Canonical(J) /\ Names(J) = Names(input)
<1>1. input \in Seq(Byte) /\ parts \in Seq(Seq(Byte))
    BY DEF ExactInv, Inv
<1>2. /\ Names(input) = parts
      /\ \A c \in Components(input) : Word(input, c) # <<".", ".">>
      /\ \A i \in DOMAIN input : input[i] # "LF"
    BY <1>1, WalkIsOfNames
<1>3. Admissible(input)
    BY <1>2 DEF Admissible, IsRelative
<1>4. PICK n \in Nat : n = Len(parts) /\ DOMAIN parts = 1..n /\ parts = [k \in 1..n |-> parts[k]]
    <2>1. Len(parts) \in Nat /\ DOMAIN parts = 1..Len(parts)
        BY <1>1, LenProperties
    <2>2. parts = [k \in 1..Len(parts) |-> parts[k]]
        BY <1>1, <2>1
    <2> QED
        BY <2>1, <2>2
<1>5. \A k \in DOMAIN parts : IsWord(parts[k]) /\ parts[k] \notin {<<>>, <<".">>, <<".", ".">>}
    <2>1. PartsAreNames
        BY DEF ExactInv, Inv
    <2> QED
        BY <1>1, <2>1 DEF PartsAreNames, IsWord
<1>6. Spelled(J, parts, n)
    BY <1>1, <1>4, <1>5, JoinedSpelled
<1>7. PICK at : /\ Lists(at, n, Components(J))
                /\ \A k \in 1..n : Word(J, at[k]) = parts[k]
    BY <1>6 DEF Spelled
<1>8. \A c \in Components(J) : Word(J, c) \notin {<<>>, <<".">>, <<".", ".">>}
    <2> TAKE c \in Components(J)
    <2>1. PICK k \in 1..n : at[k] = c
        BY <1>7 DEF Lists
    <2>2. Word(J, c) = parts[k]
        BY <1>7, <2>1
    <2> QED
        BY <1>4, <1>5, <2>2
<1>9. Named(J) = Components(J)
    BY <1>8 DEF Named
<1>10. J \in Seq(Byte) /\ Len(J) \in Nat
    BY <1>6, LenProperties DEF Spelled
<1>11. Names(J) = [k \in 1..n |-> Word(J, at[k])]
    BY <1>7, <1>9, <1>10, NamesListed
<1>12. Names(J) = parts
    BY <1>4, <1>7, <1>11, Zenon
<1>13. Canonical(J)
    BY <1>6, <1>8, <1>12 DEF Canonical, Admissible, Spelled
<1> QED
    BY <1>2, <1>3, <1>10, <1>12, <1>13

-----------------------------------------------------------------------------
(* The theorems *)

\* For every input, the variables keep the types of the code: what is returned is a
\* string of bytes, what is thrown one of the four reasons.
THEOREM PathTypeCorrect == Spec => []TypeOK
<1>1. ExactInv => TypeOK
    <2> SUFFICES ASSUME ExactInv PROVE outcome \in {Pending} \cup Refusal \cup Parsed
        BY DEF ExactInv, Inv, TypeOK
    <2>1. CASE pc # "done"
        BY <2>1 DEF ExactInv, Inv
    <2>2. CASE pc = "done" /\ ~(outcome \in Refusal)
        <3>1. /\ outcome = [verdict |-> "parsed", value |-> Joined(parts)]
              /\ parts # <<>> /\ IsRelative /\ Walked(Len(input) + 1, parts)
            BY <2>2 DEF ExactInv
        <3>2. Joined(parts) \in Seq(Byte)
            BY <3>1, ParsedIsCanonical
        <3> QED
            BY <3>1, <3>2 DEF Parsed
    <2> QED
        BY <2>1, <2>2
<1> QED
    BY <1>1, ExactInit, ExactNext, PTL DEF Spec

\* For every input of any length, parse accepts exactly the admissible strings, and
\* returns the one canonical spelling of the same walk.
THEOREM ParseIsExactHolds == Spec => []ParseIsExact
<1>1. ExactInv => ParseIsExact
    <2> SUFFICES ASSUME ExactInv PROVE ParseIsExact
        OBVIOUS
    <2>1. CASE pc # "done"
        <3>1. outcome.verdict = "pending"
            BY <2>1 DEF ExactInv, Inv, Pending
        <3> QED
            BY <3>1 DEF ParseIsExact
    <2>2. CASE pc = "done" /\ outcome \in Refusal
        <3>1. outcome.verdict = "refused"
            BY <2>2 DEF Refusal
        <3>2. ~Admissible(input)
            <4>1. CASE outcome = [verdict |-> "parsed", value |-> Joined(parts)]
                BY <3>1, <4>1
            <4> QED
                BY <2>2, <4>1 DEF ExactInv
        <3> QED
            BY <3>1, <3>2 DEF ParseIsExact
    <2>3. CASE pc = "done" /\ ~(outcome \in Refusal)
        <3>1. /\ outcome = [verdict |-> "parsed", value |-> Joined(parts)]
              /\ parts # <<>> /\ IsRelative /\ Walked(Len(input) + 1, parts)
            BY <2>3 DEF ExactInv
        <3>2. PICK J : J = Joined(parts)
            OBVIOUS
        <3>3. Admissible(input) /\ Canonical(J) /\ Names(J) = Names(input)
            BY <3>1, <3>2, ParsedIsCanonical
        <3>4. outcome.verdict = "parsed" /\ outcome.value = J
            BY <3>1, <3>2
        <3> QED
            BY <3>3, <3>4 DEF ParseIsExact
    <2> QED
        BY <2>1, <2>2, <2>3
<1> QED
    BY <1>1, ExactInit, ExactNext, PTL DEF Spec

====
