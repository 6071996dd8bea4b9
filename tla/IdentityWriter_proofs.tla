------------------------ MODULE IdentityWriter_proofs ------------------------
(***************************************************************************)
(* Proof that the bytes of an entry of a payload, and of what the *_id     *)
(* functions write of every class, determine what they are written of, for *)
(* texts, numbers and lists of every length; then, that a digest context is*)
(* owned by the writer that allocated it, whatever call of OpenSSL fails,  *)
(* and that no two records have the same stream, for every set of records. *)
(*                                                                         *)
(* The argument: no number is a proper beginning of another, since all of  *)
(* them take Width bytes; no text is, since its length comes first; and    *)
(* where the fields so far are the same, they tell which field is next and *)
(* when there is none.  The inductions over the bytes, the digits and the  *)
(* fields are had from the pigeonhole principle.                           *)
(***************************************************************************)
EXTENDS IdentityWriter, SequenceTheorems, FiniteSetTheorems, TLAPS

USE WidthAssumption

-----------------------------------------------------------------------------
(* Induction, sequences and numbers *)

\* A set of numbers with zero and every successor is all of them: otherwise the ones
\* up to a number left out would fit into one place fewer.
LEMMA Induction ==
    ASSUME NEW S \in SUBSET Nat, 0 \in S, \A n \in S : n + 1 \in S
    PROVE  S = Nat
<1> SUFFICES ASSUME NEW n \in Nat, n \notin S PROVE FALSE
    OBVIOUS
<1> DEFINE A == S \cap (0..n)
           f == [i \in A |-> i + 1]
<1>0. 0 \in A
    OBVIOUS
<1>1. IsFiniteSet(A)
    BY FS_Interval, FS_Subset, 0 \in Int, n \in Int
<1>2. \A i \in A : i + 1 \in A /\ i + 1 # 0
    OBVIOUS
<1>3. IsFiniteSet(A \ {0}) /\ Cardinality(A \ {0}) = Cardinality(A) - 1 /\ 0 \in A
    BY <1>1, <1>0, FS_RemoveElement
<1>4. Cardinality(A) \in Nat
    BY <1>1, FS_CardinalityType
<1>5. f \in [A -> A \ {0}]
    BY <1>2
<1>6. \A i, j \in A : f[i] = f[j] => i = j
    OBVIOUS
<1> HIDE DEF A, f
<1>7. PICK x, y \in A : x # y /\ f[x] = f[y]
    BY <1>1, <1>3, <1>4, <1>5, FS_PigeonHole
<1> QED
    BY <1>6, <1>7

\* g lists what the first strings of s make, up to n of them.
Unfolds(g, s, n) == g = [i \in 1..n |-> IF i = 1 THEN s[i] ELSE g[i - 1] \o s[i]]

\* FlattenSeq has a value: there are as many beginnings of s as strings in it.
LEMMA FlattenUnfolds ==
    ASSUME NEW s, NEW n \in Nat
    PROVE  \E g : Unfolds(g, s, n)
<1> DEFINE S == {k \in Nat : \E g : Unfolds(g, s, k)}
<1>1. 0 \in S
    <2>1. Unfolds([i \in 1..0 |-> s[i]], s, 0)
        BY 1..0 = {} DEF Unfolds
    <2> QED
        BY <2>1
<1>2. ASSUME NEW k \in S PROVE k + 1 \in S
    <2>1. PICK g : Unfolds(g, s, k)
        OBVIOUS
    <2> DEFINE h == [i \in 1..k + 1 |-> IF i = 1 THEN s[i] ELSE g[i - 1] \o s[i]]
    <2>2. ASSUME NEW i \in 1..k + 1, i # 1 PROVE h[i - 1] = g[i - 1]
        <3>1. i - 1 \in 1..k /\ i - 1 \in 1..k + 1
            BY <2>2
        <3> HIDE DEF h
        <3>2. g[i - 1] = IF i - 1 = 1 THEN s[i - 1] ELSE g[(i - 1) - 1] \o s[i - 1]
            BY <2>1, <3>1, Zenon DEF Unfolds
        <3>3. h[i - 1] = IF i - 1 = 1 THEN s[i - 1] ELSE g[(i - 1) - 1] \o s[i - 1]
            BY <3>1, Zenon DEF h
        <3> QED
            BY <3>2, <3>3
    <2>3. Unfolds(h, s, k + 1)
        BY <2>2, Zenon DEF Unfolds
    <2> QED
        BY <2>3
<1>3. S = Nat
    <2> HIDE DEF S
    <2> QED
        BY <1>1, <1>2, Induction DEF S
<1> QED
    BY <1>3

\* Division as the provers do not find it by themselves.
LEMMA Division ==
    ASSUME NEW m \in Nat, NEW p \in Nat \ {0}
    PROVE  /\ m \div p \in Nat /\ m % p \in 0..p - 1
           /\ m = p * (m \div p) + (m % p)
OBVIOUS

\* A quotient, from the remainder.
LEMMA Quotient ==
    ASSUME NEW d \in Nat \ {0}, NEW q \in Nat, NEW r \in 0..d - 1
    PROVE  (d * q + r) \div d = q
OBVIOUS

\* Products of sums and of products.
LEMMA Products ==
    /\ \A a, b, c \in Int : a * (b + c) = a * b + a * c
    /\ \A a, b, c \in Int : a * (b * c) = (b * a) * c
    /\ \A a, b \in Nat : a * b \in Nat
OBVIOUS

\* Shifting by one digit and then by one more.
LEMMA DivTwice ==
    ASSUME NEW m \in Nat, NEW p \in Nat \ {0}, NEW b \in Nat \ {0}
    PROVE  b * p \in Nat \ {0} /\ m \div (b * p) = (m \div p) \div b
<1>1. PICK q \in Nat, r \in 0..p - 1 : m = p * q + r /\ q = m \div p
    BY Division
<1>2. PICK s \in Nat, t \in 0..b - 1 : q = b * s + t /\ s = q \div b
    BY Division
<1>3. PICK d \in Nat, u \in Nat, v \in Nat : d = b * p /\ u = p * t /\ v = d * s
    <2>1. b * p \in Nat /\ p * t \in Nat
        BY Products
    <2>2. (b * p) * s \in Nat
        BY <2>1, Products
    <2> QED
        BY <2>1, <2>2
<1>4. m = v + u + r
    <2>1. p * (b * s + t) = p * (b * s) + p * t
        <3>1. b * s \in Int
            BY Products
        <3> QED
            BY <3>1, Products
    <2>2. p * (b * s) = (b * p) * s
        BY Products
    <2>3. p * q = v + u
        BY ONLY <1>2, <1>3, <2>1, <2>2
    <2> QED
        BY <1>1, <1>3, <2>3
<1>5. u + r < d
    <2>1. p * (b - 1) = d - p
        BY <1>3
    <2>2. PICK w \in Nat : w = b - 1 - t
        BY <1>2
    <2>3. p * (b - 1) = p * t + p * w
        <3>1. b - 1 = t + w
            BY <2>2
        <3> QED
            BY <3>1, Products
    <2>4. p * w \in Nat
        BY Products
    <2> QED
        BY <1>1, <1>3, <2>1, <2>3, <2>4
<1>6. d # 0
    BY <1>3, <1>5
<1>7. m \div d = s
    <2>1. m = d * s + (u + r) /\ u + r \in 0..d - 1 /\ d \in Nat \ {0}
        BY <1>1, <1>3, <1>4, <1>5, <1>6
    <2> QED
        BY <2>1, Quotient
<1> QED
    BY <1>1, <1>2, <1>3, <1>6, <1>7
\* g lists the powers of b up to the n-th.
Powers(g, b, n) == g = [k \in 0..n |-> IF k = 0 THEN 1 ELSE b * g[k - 1]]

\* There is such a list for every b and n.
LEMMA PowersExist ==
    ASSUME NEW b, NEW n \in Nat
    PROVE  \E g : Powers(g, b, n)
<1> DEFINE S == {k \in Nat : \E g : Powers(g, b, k)}
<1>1. 0 \in S
    <2>1. Powers([k \in 0..0 |-> 1], b, 0)
        BY DEF Powers
    <2> QED
        BY <2>1
<1>2. ASSUME NEW m \in S PROVE m + 1 \in S
    <2>1. PICK g : Powers(g, b, m)
        OBVIOUS
    <2> DEFINE h == [k \in 0..m + 1 |-> IF k = 0 THEN 1 ELSE b * g[k - 1]]
    <2>2. ASSUME NEW k \in 0..m + 1, k # 0 PROVE h[k - 1] = g[k - 1]
        <3>1. k - 1 \in 0..m /\ k - 1 \in 0..m + 1
            BY <2>2
        <3> HIDE DEF h
        <3>2. g[k - 1] = IF k - 1 = 0 THEN 1 ELSE b * g[(k - 1) - 1]
            BY <2>1, <3>1, Zenon DEF Powers
        <3>3. h[k - 1] = IF k - 1 = 0 THEN 1 ELSE b * g[(k - 1) - 1]
            BY <3>1, Zenon DEF h
        <3> QED
            BY <3>2, <3>3
    <2>3. Powers(h, b, m + 1)
        BY <2>2, Zenon DEF Powers
    <2> QED
        BY <2>3
<1>3. S = Nat
    <2> HIDE DEF S
    <2> QED
        BY <1>1, <1>2, Induction DEF S
<1> QED
    BY <1>3

\* Each power is b times the one before it.
LEMMA PowersType ==
    ASSUME NEW b \in Nat \ {0}, NEW n \in Nat, NEW g, Powers(g, b, n)
    PROVE  /\ \A k \in 0..n : g[k] \in Nat \ {0}
           /\ g[0] = 1
           /\ \A k \in 0..n - 1 : g[k + 1] = b * g[k]
<1>1. \A k \in 0..n : g[k] = IF k = 0 THEN 1 ELSE b * g[k - 1]
    BY Zenon DEF Powers
<1>2. g[0] = 1
    BY <1>1
<1>3. ASSUME NEW k \in 0..n - 1 PROVE g[k + 1] = b * g[k]
    <2>1. k + 1 \in 0..n /\ k + 1 # 0 /\ (k + 1) - 1 = k
        OBVIOUS
    <2>2. g[k + 1] = b * g[(k + 1) - 1]
        BY <1>1, <2>1
    <2> QED
        BY <2>1, <2>2
<1> DEFINE S == {k \in Nat : k <= n => g[k] \in Nat \ {0}}
<1>4. 0 \in S
    BY <1>2
<1>5. ASSUME NEW k \in S PROVE k + 1 \in S
    <2>1. SUFFICES ASSUME k + 1 <= n PROVE g[k + 1] \in Nat \ {0}
        OBVIOUS
    <2>2. k \in 0..n - 1 /\ g[k] \in Nat \ {0}
        BY <2>1
    <2>3. b * g[k] \in Nat \ {0}
        BY <2>2, DivTwice, 0 \in Nat
    <2> QED
        BY <1>3, <2>2, <2>3
<1>6. S = Nat
    <2> HIDE DEF S
    <2> QED
        BY <1>4, <1>5, Induction DEF S
<1> QED
    BY <1>2, <1>3, <1>6

\* Numbers with the same digits are the same.
LEMMA DigitsDetermine ==
    ASSUME NEW b \in Nat \ {0}, NEW w \in Nat, NEW p, Powers(p, b, w),
           NEW m \in Nat, NEW n \in Nat, m < p[w], n < p[w],
           \A k \in 0..w - 1 : (m \div p[k]) % b = (n \div p[k]) % b
    PROVE  m = n
<1>1. /\ \A k \in 0..w : p[k] \in Nat \ {0}
      /\ p[0] = 1
      /\ \A k \in 0..w - 1 : p[k + 1] = b * p[k]
    BY PowersType
<1> DEFINE S == {j \in Nat : j <= w => m \div p[w - j] = n \div p[w - j]}
<1>2. 0 \in S
    <2>1. w - 0 = w /\ p[w] \in Nat \ {0}
        BY <1>1
    <2>2. m \div p[w] = 0 /\ n \div p[w] = 0
        BY <2>1
    <2> QED
        BY <2>1, <2>2
<1>3. ASSUME NEW j \in S PROVE j + 1 \in S
    <2>1. SUFFICES ASSUME j + 1 <= w PROVE m \div p[w - (j + 1)] = n \div p[w - (j + 1)]
        OBVIOUS
    <2>2. PICK k \in 0..w - 1 : k = w - (j + 1) /\ k + 1 = w - j /\ k \in 0..w
        BY <2>1
    <2>3. PICK q \in Nat \ {0} : q = p[k] /\ p[k + 1] = b * q
        BY <1>1, <2>2
    <2>4. m \div (b * q) = n \div (b * q)
        BY <2>1, <2>2, <2>3
    <2>5. PICK x \in Nat, y \in Nat : x = m \div q /\ y = n \div q
        BY Division
    <2>6. x \div b = y \div b
        BY <2>4, <2>5, DivTwice
    <2>7. x % b = y % b
        BY <2>3, <2>5
    <2>8. x = y
        <3>1. x = b * (x \div b) + (x % b) /\ y = b * (y \div b) + (y % b)
            BY Division
        <3> QED
            BY <2>6, <2>7, <3>1
    <2> QED
        BY <2>2, <2>3, <2>5, <2>8
<1>4. S = Nat
    <2> HIDE DEF S
    <2> QED
        BY <1>2, <1>3, Induction DEF S
<1>5. m \div p[w - w] = n \div p[w - w] /\ w - w = 0
    <2>1. w \in S
        <3> HIDE DEF S
        <3> QED
            BY <1>4
    <2> QED
        BY <2>1
<1>6. m \div 1 = m /\ n \div 1 = n
    OBVIOUS
<1> QED
    BY <1>1, <1>5, <1>6

-----------------------------------------------------------------------------
(* A sequence of strings written one after the other *)

\* Concatenation under a name the provers do not interpret.
Glue(u, v) == u \o v

\* What the provers know of concatenation, of every string.
LEMMA Glued ==
    ASSUME NEW S
    PROVE  /\ \A u, v \in Seq(S) : Glue(u, v) \in Seq(S)
           /\ \A u, v, w \in Seq(S) : Glue(Glue(u, v), w) = Glue(u, Glue(v, w))
           /\ \A u, v, w \in Seq(S) : Glue(u, v) = Glue(u, w) => v = w
           /\ \A u \in Seq(S) : Glue(u, <<>>) = u /\ Glue(<<>>, u) = u
<1>1. \A u, v \in Seq(S) : u \o v \in Seq(S)
    BY ConcatProperties
<1>2. \A u, v, w \in Seq(S) : (u \o v) \o w = u \o (v \o w)
    BY ConcatAssociative
<1>3. \A u, v, w \in Seq(S) : u \o v = u \o w => v = w
    BY ConcatSimplifications
<1>4. \A u \in Seq(S) : u \o <<>> = u /\ <<>> \o u = u
    BY ConcatEmptySeq
<1> QED
    BY <1>1, <1>2, <1>3, <1>4, Zenon DEF Glue

\* Four strings can be read from the left or from the right.
LEMMA FourGlued ==
    ASSUME NEW S, NEW u \in Seq(S), NEW v \in Seq(S), NEW w \in Seq(S), NEW x \in Seq(S)
    PROVE  /\ Glue(v, Glue(w, x)) \in Seq(S)
           /\ Glue(Glue(Glue(u, v), w), x) = Glue(u, Glue(v, Glue(w, x)))
<1>1. Glue(w, x) \in Seq(S) /\ Glue(u, v) \in Seq(S)
    BY Glued
<1>2. Glue(Glue(u, v), Glue(w, x)) = Glue(u, Glue(v, Glue(w, x)))
    BY <1>1, Glued
<1>3. Glue(Glue(Glue(u, v), w), x) = Glue(Glue(u, v), Glue(w, x))
    BY <1>1, Glued
<1> QED
    BY <1>1, <1>2, <1>3, Glued

\* What the first k strings of f make.
Written(f, k) == IF k = 0 THEN <<>> ELSE (CHOOSE g : Unfolds(g, f, Len(f)))[k]

\* The next string is written after those before it.
LEMMA WrittenNext ==
    ASSUME NEW S, NEW f \in Seq(Seq(S)), NEW k \in Nat, k < Len(f)
    PROVE  /\ k + 1 \in 1..Len(f) /\ f[k + 1] \in Seq(S)
           /\ Written(f, k + 1) = Glue(Written(f, k), f[k + 1])
<1>1. PICK n \in Nat : n = Len(f) /\ DOMAIN f = 1..n /\ k + 1 \in 1..n /\ k + 1 # 0
    BY LenProperties
<1>2. PICK g : g = CHOOSE h : Unfolds(h, f, n)
    OBVIOUS
<1>3. Unfolds(g, f, n)
    BY <1>2, FlattenUnfolds, Zenon
<1>4. f[k + 1] \in Seq(S)
    BY <1>1
<1>5. Written(f, k + 1) = g[k + 1] /\ (k # 0 => Written(f, k) = g[k])
    BY <1>1, <1>2, Zenon DEF Written
<1>6. g[k + 1] = IF k + 1 = 1 THEN f[k + 1] ELSE g[(k + 1) - 1] \o f[k + 1]
    BY <1>1, <1>3, Zenon DEF Unfolds
<1>7. CASE k = 0
    <2>1. Written(f, k) = <<>>
        BY <1>7 DEF Written
    <2>2. g[k + 1] = f[k + 1]
        BY <1>6, <1>7
    <2> QED
        BY <1>1, <1>4, <1>5, <2>1, <2>2, Glued
<1>8. CASE k # 0
    <2>1. k + 1 # 1 /\ (k + 1) - 1 = k
        BY <1>8
    <2>2. g[k + 1] = g[k] \o f[k + 1]
        BY <1>6, <2>1, Zenon
    <2> QED
        BY <1>1, <1>4, <1>5, <1>8, <2>2 DEF Glue
<1> QED
    BY <1>7, <1>8

\* What is written is a string.
LEMMA WrittenType ==
    ASSUME NEW S, NEW f \in Seq(Seq(S)), NEW k \in 0..Len(f)
    PROVE  Written(f, k) \in Seq(S)
<1>1. Len(f) \in Nat
    BY LenProperties
<1> DEFINE T == {j \in Nat : j <= Len(f) => Written(f, j) \in Seq(S)}
<1>2. 0 \in T
    BY <1>1, EmptySeq DEF Written
<1>3. ASSUME NEW j \in T PROVE j + 1 \in T
    <2>1. SUFFICES ASSUME j + 1 <= Len(f) PROVE Written(f, j + 1) \in Seq(S)
        OBVIOUS
    <2>2. j < Len(f) /\ Written(f, j) \in Seq(S)
        BY <1>1, <2>1
    <2>3. PICK u \in Seq(S), v \in Seq(S) : u = Written(f, j) /\ v = f[j + 1]
                                            /\ Written(f, j + 1) = Glue(u, v)
        BY <2>2, WrittenNext
    <2> QED
        BY <2>3, Glued
<1>4. T = Nat
    <2> HIDE DEF T
    <2> QED
        BY <1>2, <1>3, Induction DEF T
<1>5. k \in Nat /\ k <= Len(f)
    BY <1>1
<1> QED
    BY <1>4, <1>5

\* What is written first is the beginning of everything.
LEMMA WrittenSplits ==
    ASSUME NEW S, NEW f \in Seq(Seq(S)), NEW k \in 0..Len(f)
    PROVE  \E q \in Seq(S) : Written(f, Len(f)) = Glue(Written(f, k), q)
<1>1. PICK n \in Nat : n = Len(f)
    BY LenProperties
<1> DEFINE Fine(i) == \E q \in Seq(S) : Written(f, n) = Glue(Written(f, i), q)
           T == {j \in Nat : j <= n => Fine(n - j)}
<1>2. 0 \in T
    <2>1. Written(f, n) \in Seq(S) /\ n - 0 = n
        BY <1>1, WrittenType
    <2>2. Written(f, n) = Glue(Written(f, n), <<>>) /\ <<>> \in Seq(S)
        BY <2>1, Glued, EmptySeq
    <2> QED
        BY <2>1, <2>2
<1>3. ASSUME NEW j \in T PROVE j + 1 \in T
    <2> HIDE DEF Fine
    <2>1. SUFFICES ASSUME j + 1 <= n PROVE Fine(n - (j + 1))
        OBVIOUS
    <2>2. PICK i \in Nat : i = n - (j + 1) /\ i + 1 = n - j /\ i < n /\ i \in 0..n
        BY <2>1
    <2>3. PICK q \in Seq(S) : Written(f, n) = Glue(Written(f, i + 1), q)
        <3>1. j <= n
            BY <2>1
        <3>2. Fine(n - j)
            BY <1>3, <3>1
        <3>3. Fine(i + 1)
            BY <2>2, <3>2
        <3> QED
            BY <3>3 DEF Fine
    <2>4. PICK u, v : u = Written(f, i) /\ v = f[i + 1]
        OBVIOUS
    <2>5. u \in Seq(S) /\ v \in Seq(S) /\ Written(f, i + 1) = Glue(u, v)
        BY <1>1, <2>2, <2>4, WrittenNext, WrittenType
    <2>6. Glue(Glue(u, v), q) = Glue(u, Glue(v, q)) /\ Glue(v, q) \in Seq(S)
        BY <2>5, Glued
    <2>7. Written(f, n) = Glue(Written(f, i), Glue(v, q))
        BY <2>3, <2>4, <2>5, <2>6, Zenon
    <2>8. Fine(i)
        BY <2>6, <2>7, Zenon DEF Fine
    <2> QED
        BY <2>2, <2>8
<1>4. T = Nat
    <2> HIDE DEF T
    <2> QED
        BY <1>2, <1>3, Induction DEF T
<1>5. n - k \in Nat /\ n - k <= n /\ n - (n - k) = k
    BY <1>1
<1> QED
    BY <1>1, <1>4, <1>5

\* Two strings of which neither is a proper beginning of the other.
Compatible(S, u, v) == \A r, t \in Seq(S) : Glue(u, r) = Glue(v, t) => u = v

\* The equal strings before the j-th determine how far the j-th reaches.
Determined(S, f, h, n) ==
    \A j \in 1..n : (\A i \in 1..j - 1 : f[i] = h[i]) => Compatible(S, f[j], h[j])

\* Where everything written is the same, the strings are, one after the other, as
\* long as the equal ones before determine how far the next one reaches.
LEMMA Agree ==
    ASSUME NEW S, NEW f \in Seq(Seq(S)), NEW h \in Seq(Seq(S)),
           NEW r \in Seq(S), NEW t \in Seq(S),
           Glue(Written(f, Len(f)), r) = Glue(Written(h, Len(h)), t),
           NEW n \in Nat, n <= Len(f), n <= Len(h),
           Determined(S, f, h, n)
    PROVE  (\A j \in 1..n : f[j] = h[j]) /\ Written(f, n) = Written(h, n)
<1>0. Len(f) \in Nat /\ Len(h) \in Nat
    BY LenProperties
<1> DEFINE T == {k \in Nat : k <= n =>
                    (\A j \in 1..k : f[j] = h[j]) /\ Written(f, k) = Written(h, k)}
<1>1. 0 \in T
    BY DEF Written
<1>2. ASSUME NEW k \in T PROVE k + 1 \in T
    <2>1. SUFFICES ASSUME k + 1 <= n
                   PROVE  /\ \A j \in 1..k + 1 : f[j] = h[j]
                          /\ Written(f, k + 1) = Written(h, k + 1)
        OBVIOUS
    <2>2. /\ k < Len(f) /\ k < Len(h) /\ k \in 0..Len(f) /\ k + 1 \in 0..Len(f)
          /\ k + 1 \in 0..Len(h)
          /\ k + 1 \in 1..n /\ (k + 1) - 1 = k
        BY <1>0, <2>1
    <2>3. (\A j \in 1..k : f[j] = h[j]) /\ Written(f, k) = Written(h, k)
        BY <2>1
    <2>4. Compatible(S, f[k + 1], h[k + 1])
        BY <2>2, <2>3 DEF Determined
    <2>5. PICK w \in Seq(S) : w = Written(f, k)
        BY <2>2, WrittenType
    <2>6. PICK u \in Seq(S) : u = f[k + 1] /\ Written(f, k + 1) = Glue(w, u)
        BY <2>2, <2>5, WrittenNext
    <2>7. PICK v \in Seq(S) : v = h[k + 1] /\ Written(h, k + 1) = Glue(w, v)
        BY <2>2, <2>3, <2>5, WrittenNext
    <2>8. PICK q \in Seq(S) : Written(f, Len(f)) = Glue(Glue(w, u), q)
        BY <2>2, <2>6, WrittenSplits
    <2>9. PICK s \in Seq(S) : Written(h, Len(h)) = Glue(Glue(w, v), s)
        BY <2>2, <2>7, WrittenSplits
    <2>10. PICK a, b : a = Glue(q, r) /\ b = Glue(s, t)
        OBVIOUS
    <2>11. Glue(Glue(Glue(w, u), q), r) = Glue(w, Glue(u, a))
           /\ Glue(u, a) \in Seq(S) /\ a \in Seq(S)
        <3>1. Glue(q, r) \in Seq(S)
            BY Glued
        <3>2. /\ Glue(u, Glue(q, r)) \in Seq(S)
              /\ Glue(Glue(Glue(w, u), q), r) = Glue(w, Glue(u, Glue(q, r)))
            BY FourGlued
        <3> QED
            BY <2>10, <3>1, <3>2, Zenon
    <2>12. Glue(Glue(Glue(w, v), s), t) = Glue(w, Glue(v, b))
           /\ Glue(v, b) \in Seq(S) /\ b \in Seq(S)
        <3>1. Glue(s, t) \in Seq(S)
            BY Glued
        <3>2. /\ Glue(v, Glue(s, t)) \in Seq(S)
              /\ Glue(Glue(Glue(w, v), s), t) = Glue(w, Glue(v, Glue(s, t)))
            BY FourGlued
        <3> QED
            BY <2>10, <3>1, <3>2, Zenon
    <2>13. Glue(w, Glue(u, a)) = Glue(w, Glue(v, b))
        BY <2>8, <2>9, <2>11, <2>12, Zenon
    <2>14. Glue(u, a) = Glue(v, b)
        BY <2>11, <2>12, <2>13, Glued
    <2>15. u = v
        BY <2>4, <2>6, <2>7, <2>11, <2>12, <2>14, Zenon DEF Compatible
    <2>16. \A j \in 1..k + 1 : j \in 1..k \/ j = k + 1
        OBVIOUS
    <2> QED
        BY <2>3, <2>6, <2>7, <2>15, <2>16
<1>3. T = Nat
    <2> HIDE DEF T
    <2> QED
        BY <1>1, <1>2, Induction DEF T
<1>4. n \in T
    <2> HIDE DEF T
    <2> QED
        BY <1>3
<1> QED
    BY <1>4

\* What all of them make.
Full(f) == Written(f, Len(f))

\* FlattenSeq writes all strings of a list.
LEMMA FlattenIsFull ==
    ASSUME NEW s, Len(s) \in Nat, s = <<>> <=> Len(s) = 0
    PROVE  FlattenSeq(s) = Full(s)
<1>1. CASE Len(s) = 0
    BY <1>1 DEF FlattenSeq, Full, Written
<1>2. CASE Len(s) # 0
    <2>1. Full(s) = (CHOOSE g : Unfolds(g, s, Len(s)))[Len(s)]
        BY <1>2, Zenon DEF Full, Written
    <2>2. FlattenSeq(s) = (CHOOSE g : Unfolds(g, s, Len(s)))[Len(s)]
        BY <1>2, Zenon DEF FlattenSeq, Unfolds
    <2> QED
        BY <2>1, <2>2
<1> QED
    BY <1>1, <1>2

\* Strings of one length, as all numbers are.
LEMMA SameLength ==
    ASSUME NEW S, NEW u \in Seq(S), NEW v \in Seq(S), Len(u) = Len(v)
    PROVE  Compatible(S, u, v)
<1> SUFFICES ASSUME NEW r \in Seq(S), NEW t \in Seq(S), u \o r = v \o t PROVE u = v
    BY DEF Compatible, Glue
<1>1. PICK n \in Nat : n = Len(u) /\ n = Len(v)
    BY LenProperties
<1>2. \A i \in 1..n : (u \o r)[i] = u[i]
    <2> TAKE i \in 1..n
    <2>1. i \in 1..Len(u) + Len(r) /\ i <= Len(u)
        BY <1>1, LenProperties
    <2> QED
        BY <2>1, ConcatProperties
<1>3. \A i \in 1..n : (v \o t)[i] = v[i]
    <2> TAKE i \in 1..n
    <2>1. i \in 1..Len(v) + Len(t) /\ i <= Len(v)
        BY <1>1, LenProperties
    <2> QED
        BY <2>1, ConcatProperties
<1>4. \A i \in 1..Len(u) : u[i] = v[i]
    BY <1>1, <1>2, <1>3
<1> QED
    BY <1>4, SeqEqual

\* Codes read one after the other.
LEMMA Then ==
    ASSUME NEW S, NEW u \in Seq(S), NEW v \in Seq(S), NEW x \in Seq(S), NEW y \in Seq(S),
           Compatible(S, u, v), u = v => Compatible(S, x, y)
    PROVE  /\ Compatible(S, Glue(u, x), Glue(v, y))
           /\ Glue(u, x) = Glue(v, y) => u = v /\ x = y
<1>1. ASSUME NEW r \in Seq(S), NEW t \in Seq(S),
             Glue(Glue(u, x), r) = Glue(Glue(v, y), t)
      PROVE  u = v /\ x = y
    <2>1. Glue(u, Glue(x, r)) = Glue(v, Glue(y, t))
          /\ Glue(x, r) \in Seq(S) /\ Glue(y, t) \in Seq(S)
        BY <1>1, Glued
    <2>2. u = v
        BY <2>1 DEF Compatible
    <2>3. Glue(x, r) = Glue(y, t)
        BY <2>1, <2>2, Glued
    <2>4. x = y
        BY <2>2, <2>3 DEF Compatible
    <2> QED
        BY <2>2, <2>4
<1>2. Compatible(S, Glue(u, x), Glue(v, y))
    BY <1>1 DEF Compatible
<1>3. ASSUME Glue(u, x) = Glue(v, y) PROVE u = v /\ x = y
    <2>1. <<>> \in Seq(S)
        BY EmptySeq
    <2>2. Glue(Glue(u, x), <<>>) = Glue(Glue(v, y), <<>>)
        BY <1>3
    <2> QED
        BY <1>1, <2>1, <2>2
<1> QED
    BY <1>2, <1>3

\* A string after a header that determines its length.
LEMMA Headed ==
    ASSUME NEW S, NEW u \in Seq(S), NEW v \in Seq(S), NEW x \in Seq(S), NEW y \in Seq(S),
           Len(u) = Len(v), u = v => Len(x) = Len(y)
    PROVE  /\ Compatible(S, Glue(u, x), Glue(v, y))
           /\ Glue(u, x) = Glue(v, y) => u = v /\ x = y
<1>1. Compatible(S, u, v)
    BY SameLength
<1>2. u = v => Compatible(S, x, y)
    BY SameLength
<1> QED
    BY <1>1, <1>2, Then

\* Two lists written one after the other.
LEMMA WrittenGlue ==
    ASSUME NEW S, NEW f \in Seq(Seq(S)), NEW h \in Seq(Seq(S)), NEW fh, fh = Glue(f, h)
    PROVE  fh \in Seq(Seq(S)) /\ Full(fh) = Glue(Full(f), Full(h))
<1>1. PICK m \in Nat, n \in Nat : m = Len(f) /\ n = Len(h)
    BY LenProperties
<1>2. /\ fh \in Seq(Seq(S)) /\ Len(fh) = m + n
      /\ \A i \in 1..m + n : fh[i] = IF i <= m THEN f[i] ELSE h[i - m]
    <2>1. /\ f \o h \in Seq(Seq(S)) /\ Len(f \o h) = Len(f) + Len(h)
          /\ \A i \in 1..Len(f) + Len(h) :
                (f \o h)[i] = IF i <= Len(f) THEN f[i] ELSE h[i - Len(f)]
        BY ConcatProperties
    <2> QED
        BY <1>1, <2>1 DEF Glue
<1> DEFINE T == {k \in Nat : k <= m => Written(fh, k) = Written(f, k)}
<1>3. 0 \in T
    BY DEF Written
<1>4. ASSUME NEW k \in T PROVE k + 1 \in T
    <2>1. SUFFICES ASSUME k + 1 <= m PROVE Written(fh, k + 1) = Written(f, k + 1)
        OBVIOUS
    <2>2. k < Len(f) /\ k < Len(fh) /\ k + 1 \in 1..m + n /\ k + 1 <= m
        BY <1>1, <1>2, <2>1
    <2>3. Written(f, k + 1) = Glue(Written(f, k), f[k + 1])
        BY <2>2, WrittenNext
    <2>4. Written(fh, k + 1) = Glue(Written(fh, k), fh[k + 1])
        BY <1>2, <2>2, WrittenNext
    <2>5. fh[k + 1] = f[k + 1] /\ Written(fh, k) = Written(f, k)
        BY <1>2, <2>1, <2>2
    <2> QED
        BY <2>3, <2>4, <2>5
<1>5. T = Nat
    <2> HIDE DEF T
    <2> QED
        BY <1>3, <1>4, Induction DEF T
<1>6. Written(fh, m) = Written(f, m)
    <2>1. m \in T
        <3> HIDE DEF T
        <3> QED
            BY <1>5
    <2> QED
        BY <2>1
<1> DEFINE U == {k \in Nat : k <= n => Written(fh, m + k) = Glue(Written(f, m), Written(h, k))}
<1>7. 0 \in U
    <2>1. Written(f, m) \in Seq(S)
        BY <1>1, WrittenType
    <2>2. Glue(Written(f, m), <<>>) = Written(f, m)
        BY <2>1, Glued
    <2>3. Written(h, 0) = <<>> /\ m + 0 = m
        BY DEF Written
    <2> QED
        BY <1>6, <2>2, <2>3
<1>8. ASSUME NEW k \in U PROVE k + 1 \in U
    <2>1. SUFFICES ASSUME k + 1 <= n
                   PROVE  Written(fh, m + (k + 1)) = Glue(Written(f, m), Written(h, k + 1))
        OBVIOUS
    <2>2. /\ k < Len(h) /\ k \in 0..Len(h) /\ m + k < Len(fh) /\ m + k \in Nat
          /\ m + k + 1 \in 1..m + n /\ ~(m + k + 1 <= m) /\ m + k + 1 - m = k + 1
          /\ m + (k + 1) = m + k + 1
        BY <1>1, <1>2, <2>1
    <2>3. PICK u, v, w : u = Written(f, m) /\ v = Written(h, k) /\ w = h[k + 1]
        OBVIOUS
    <2>4. u \in Seq(S) /\ v \in Seq(S) /\ w \in Seq(S) /\ Written(h, k + 1) = Glue(v, w)
        <3>1. u \in Seq(S)
            BY <1>1, <2>3, WrittenType
        <3>2. v \in Seq(S)
            BY <2>2, <2>3, WrittenType
        <3>3. w \in Seq(S) /\ Written(h, k + 1) = Glue(v, w)
            BY <2>2, <2>3, WrittenNext
        <3> QED
            BY <3>1, <3>2, <3>3
    <2>5. Written(fh, m + k + 1) = Glue(Written(fh, m + k), fh[m + k + 1])
        BY <1>2, <2>2, WrittenNext
    <2>6. fh[m + k + 1] = w
        <3>1. PICK i \in 1..m + n : i = m + k + 1 /\ ~(i <= m) /\ i - m = k + 1
            BY <2>2
        <3>2. fh[i] = h[i - m]
            BY <1>2, <3>1
        <3> QED
            BY <2>3, <3>1, <3>2
    <2>7. Written(fh, m + k) = Glue(u, v)
        BY <2>1, <2>3
    <2>8. Glue(Glue(u, v), w) = Glue(u, Glue(v, w))
        BY <2>4, Glued
    <2> QED
        BY <2>2, <2>3, <2>4, <2>5, <2>6, <2>7, <2>8
<1>9. U = Nat
    <2> HIDE DEF U
    <2> QED
        BY <1>7, <1>8, Induction DEF U
<1>10. Written(fh, m + n) = Glue(Written(f, m), Written(h, n))
    <2>1. n \in U
        <3> HIDE DEF U
        <3> QED
            BY <1>9
    <2> QED
        BY <2>1
<1> QED
    BY <1>1, <1>2, <1>10 DEF Full

\* A list of lists, written as one list or list by list.
LEMMA WrittenLists ==
    ASSUME NEW S, NEW e \in Seq(Seq(Seq(S))), NEW c, c = [i \in 1..Len(e) |-> Full(e[i])]
    PROVE  c \in Seq(Seq(S)) /\ Full(e) \in Seq(Seq(S)) /\ Full(Full(e)) = Full(c)
<1>1. PICK n \in Nat : n = Len(e) /\ \A i \in 1..n : e[i] \in Seq(Seq(S))
    BY LenProperties
<1>2. \A i \in 1..n : Full(e[i]) \in Seq(S)
    <2> TAKE i \in 1..n
    <2>1. PICK f \in Seq(Seq(S)) : f = e[i] /\ Len(f) \in 0..Len(f)
        BY <1>1, LenProperties
    <2>2. Written(f, Len(f)) \in Seq(S)
        BY <2>1, WrittenType
    <2> QED
        BY <2>1, <2>2 DEF Full
<1>3. c \in Seq(Seq(S)) /\ Len(c) = n /\ \A i \in 1..n : c[i] = Full(e[i])
    BY <1>1, <1>2, IsASeq
<1> DEFINE Fine(k) == Written(e, k) \in Seq(Seq(S)) /\ Full(Written(e, k)) = Written(c, k)
           T == {k \in Nat : k <= n => Fine(k)}
<1>4. 0 \in T
    <2>1. Written(e, 0) = <<>> /\ Written(c, 0) = <<>> /\ <<>> \in Seq(Seq(S))
        BY EmptySeq DEF Written
    <2>2. Full(<<>>) = <<>>
        BY DEF Full, Written
    <2> QED
        BY <2>1, <2>2
<1>5. ASSUME NEW k \in T PROVE k + 1 \in T
    <2>1. SUFFICES ASSUME k + 1 <= n PROVE Fine(k + 1)
        OBVIOUS
    <2>2. k < Len(e) /\ k < Len(c) /\ k + 1 \in 1..n
        BY <1>1, <1>3, <2>1
    <2>3. PICK f, x : f = Written(e, k) /\ x = e[k + 1]
        OBVIOUS
    <2>4. f \in Seq(Seq(S)) /\ Full(f) = Written(c, k)
        BY <2>1, <2>3
    <2>5. x \in Seq(Seq(S)) /\ Written(e, k + 1) = Glue(f, x)
        BY <2>2, <2>3, WrittenNext
    <2>6. PICK y : y = Glue(f, x)
        OBVIOUS
    <2>7. y \in Seq(Seq(S)) /\ Full(y) = Glue(Full(f), Full(x))
        BY <2>4, <2>5, <2>6, WrittenGlue
    <2>8. Written(c, k + 1) = Glue(Written(c, k), c[k + 1]) /\ c[k + 1] = Full(x)
        BY <1>3, <2>2, <2>3, WrittenNext
    <2> QED
        BY <2>4, <2>5, <2>6, <2>7, <2>8
<1>6. T = Nat
    <2> HIDE DEF T
    <2>1. T \in SUBSET Nat
        BY DEF T
    <2> QED
        BY <1>4, <1>5, <2>1, Induction
<1>7. Fine(n)
    <2> HIDE DEF Fine
    <2>1. n \in T
        <3> HIDE DEF T
        <3> QED
            BY <1>6
    <2> QED
        BY <2>1
<1>8. Full(e) = Written(e, n) /\ Full(c) = Written(c, n)
    BY <1>1, <1>3 DEF Full
<1> QED
    BY <1>3, <1>7, <1>8

\* A list of codes whose equal beginnings determine the next code and the end.
LEMMA Lockstep ==
    ASSUME NEW S, NEW f \in Seq(Seq(S)), NEW h \in Seq(Seq(S)),
           \A j \in Nat \ {0} :
              j <= Len(f) /\ j <= Len(h) /\ (\A i \in 1..j - 1 : f[i] = h[i])
              => Compatible(S, f[j], h[j]),
           (\A j \in Nat \ {0} : j <= Len(f) /\ j <= Len(h) => f[j] = h[j])
              => Len(f) = Len(h)
    PROVE  /\ Full(f) \in Seq(S)
           /\ Compatible(S, Full(f), Full(h))
           /\ Full(f) = Full(h) => f = h
<1>1. PICK m \in Nat, n \in Nat : m = Len(f) /\ n = Len(h)
    BY LenProperties
<1>2. Full(f) \in Seq(S) /\ Full(h) \in Seq(S)
    BY <1>1, WrittenType DEF Full
<1>3. ASSUME NEW r \in Seq(S), NEW t \in Seq(S), Glue(Full(f), r) = Glue(Full(h), t)
      PROVE  f = h
    <2>1. PICK k \in Nat : k <= m /\ k <= n /\ (k = m \/ k = n)
        BY <1>1, m <= n \/ n <= m
    <2>2. k \in Nat /\ k <= Len(f) /\ k <= Len(h)
        BY <1>1, <2>1
    <2>3. Determined(S, f, h, k)
        <3> SUFFICES ASSUME NEW j \in 1..k, \A i \in 1..j - 1 : f[i] = h[i]
                     PROVE  Compatible(S, f[j], h[j])
            BY DEF Determined
        <3>1. j \in Nat \ {0} /\ j <= Len(f) /\ j <= Len(h)
            BY <1>1, <2>2
        <3> QED
            BY <3>1, Zenon
    <2>4. Glue(Written(f, Len(f)), r) = Glue(Written(h, Len(h)), t)
        BY <1>3 DEF Full
    <2>5. \A j \in 1..k : f[j] = h[j]
        BY <2>2, <2>3, <2>4, Agree
    <2>6. \A j \in Nat \ {0} : j <= Len(f) /\ j <= Len(h) => f[j] = h[j]
        BY <1>1, <2>1, <2>5
    <2>7. Len(f) = Len(h)
        BY <2>6
    <2>8. \A j \in 1..Len(f) : f[j] = h[j]
        BY <1>1, <2>6, <2>7
    <2> QED
        BY <2>7, <2>8, SeqEqual
<1>4. Compatible(S, Full(f), Full(h))
    BY <1>3 DEF Compatible
<1>5. ASSUME Full(f) = Full(h) PROVE f = h
    <2>1. <<>> \in Seq(S) /\ Glue(Full(f), <<>>) = Glue(Full(h), <<>>)
        BY <1>5, EmptySeq
    <2> QED
        BY <1>3, <2>1
<1> QED
    BY <1>2, <1>4, <1>5

-----------------------------------------------------------------------------
(* Numbers and texts *)

\* The powers that number divides by.
LEMMA PowerIs == Powers(power, Base, Width)
<1>1. \E g : Powers(g, Base, Width)
    BY PowersExist, Width \in Nat
<1>2. power = CHOOSE g : Powers(g, Base, Width)
    BY Zenon DEF power, Powers
<1> QED
    BY <1>1, <1>2, Zenon

\* There are at least two numbers.
LEMMA ModulusIs ==
    /\ \A k \in 0..Width : power[k] \in Nat \ {0}
    /\ Modulus \in Nat \ {0, 1}
<1>1. /\ \A k \in 0..Width : power[k] \in Nat \ {0}
      /\ \A k \in 0..Width - 1 : power[k + 1] = Base * power[k]
    BY PowerIs, PowersType
<1>2. PICK q \in Nat \ {0} : power[Width] = Base * q
    <2>1. Width - 1 \in 0..Width - 1 /\ Width - 1 \in 0..Width /\ (Width - 1) + 1 = Width
        OBVIOUS
    <2> QED
        BY <1>1, <2>1
<1>3. PICK c \in Nat : Base = c + 2
    <2>1. Base - 2 \in Nat /\ Base = (Base - 2) + 2
        OBVIOUS
    <2> QED
        BY <2>1
<1>4. Base * q = q * c + q * 2 /\ q * c \in Nat
    <2>1. q * (c + 2) = q * c + q * 2 /\ q * c \in Nat
        BY Products
    <2>2. Base * q = q * (c + 2)
        BY <1>3
    <2> QED
        BY <2>1, <2>2
<1>5. Base * q \in Nat /\ Base * q >= 2
    BY <1>4
<1> QED
    BY <1>1, <1>2, <1>5 DEF Modulus

\* A number is written as as many bytes as every other.
LEMMA NumberType ==
    ASSUME NEW n \in Int
    PROVE  number(n) \in Seq(Byte) /\ Len(number(n)) = Width
<1> DEFINE digit(i) == ((n % Modulus) \div power[Width - i]) % Base
<1>1. ASSUME NEW i \in 1..Width PROVE digit(i) \in Byte
    <2>1. PICK p \in Nat \ {0} : p = power[Width - i]
        BY ModulusIs, Width - i \in 0..Width
    <2>2. PICK m \in Nat : m = n % Modulus
        BY ModulusIs
    <2>3. PICK d \in Nat : d = m \div p
        BY Division
    <2>4. d % Base \in 0..Base - 1
        OBVIOUS
    <2> QED
        BY <2>1, <2>2, <2>3, <2>4 DEF Byte
<1>2. number(n) = [i \in 1..Width |-> digit(i)]
    BY DEF number
<1> HIDE DEF digit
<1> QED
    BY <1>1, <1>2, IsASeq

\* Numbers written the same are the same modulo 2^64.
LEMMA NumberTells ==
    ASSUME NEW m \in Int, NEW n \in Int, number(m) = number(n)
    PROVE  m % Modulus = n % Modulus
<1>1. PICK x \in Nat, y \in Nat : x = m % Modulus /\ y = n % Modulus /\ x < Modulus /\ y < Modulus
    BY ModulusIs
<1>2. ASSUME NEW k \in 0..Width - 1
      PROVE  (x \div power[k]) % Base = (y \div power[k]) % Base
    <2>1. PICK i \in 1..Width : i = Width - k /\ Width - i = k
        <3>1. Width - k \in 1..Width /\ Width - (Width - k) = k
            OBVIOUS
        <3> QED
            BY <3>1
    <2>2. number(m)[i] = (x \div power[k]) % Base
        BY <1>1, <2>1, Zenon DEF number
    <2>3. number(n)[i] = (y \div power[k]) % Base
        BY <1>1, <2>1, Zenon DEF number
    <2> QED
        BY <2>2, <2>3
<1>3. x < power[Width] /\ y < power[Width]
    BY <1>1 DEF Modulus
<1>4. x = y
    BY <1>2, <1>3, PowerIs, DigitsDetermine, Width \in Nat, Base \in Nat \ {0}
<1> QED
    BY <1>1, <1>4

\* A negative number is converted by adding 2^64.
LEMMA NegativeModulo ==
    ASSUME NEW m \in Nat \ {0}, NEW a \in Int, -m <= a, a < 0
    PROVE  a % m = a + m
<1>1. a + m \in 0..m - 1 /\ a = m * (-1) + (a + m)
    OBVIOUS
<1> QED
    BY <1>1

\* No two values of one unsigned type, nor of one signed type, are written the same.
LEMMA NumbersDiffer ==
    /\ \A m, n \in Unsigned : number(m) = number(n) => m = n
    /\ \A m, n \in Signed : number(m) = number(n) => m = n
    /\ \A m, n \in BOOLEAN : boolean(m) = boolean(n) => m = n
<1>1. Modulus \in Nat \ {0, 1}
    BY ModulusIs
<1>2. ASSUME NEW m \in Unsigned, NEW n \in Unsigned, number(m) = number(n) PROVE m = n
    <2>1. m % Modulus = n % Modulus
        BY <1>1, <1>2, NumberTells DEF Unsigned
    <2>2. m % Modulus = m /\ n % Modulus = n
        BY <1>1 DEF Unsigned
    <2> QED
        BY <2>1, <2>2
<1>3. ASSUME NEW m \in Signed, NEW n \in Signed, number(m) = number(n) PROVE m = n
    <2>1. PICK h \in Nat : h = Modulus \div 2 /\ h + h <= Modulus
        BY <1>1
    <2>2. m \in Int /\ n \in Int /\ -h <= m /\ -h <= n /\ m < Modulus - h /\ n < Modulus - h
        BY <1>1, <2>1 DEF Signed
    <2>3. m % Modulus = n % Modulus
        BY <1>3, <2>2, NumberTells
    <2>4. m >= 0 => m % Modulus = m
        BY <1>1, <2>2
    <2>5. n >= 0 => n % Modulus = n
        BY <1>1, <2>2
    <2>6. -Modulus <= m /\ -Modulus <= n
        BY <1>1, <2>1, <2>2
    <2>7. m < 0 => m % Modulus = m + Modulus
        BY <1>1, <2>2, <2>6, NegativeModulo
    <2>8. n < 0 => n % Modulus = n + Modulus
        BY <1>1, <2>2, <2>6, NegativeModulo
    <2> QED
        BY <1>1, <2>1, <2>2, <2>3, <2>4, <2>5, <2>7, <2>8
<1>4. ASSUME NEW m \in BOOLEAN, NEW n \in BOOLEAN, boolean(m) = boolean(n) PROVE m = n
    <2>1. 0 \in Unsigned /\ 1 \in Unsigned
        BY <1>1 DEF Unsigned
    <2>2. number(0) # number(1)
        BY <1>2, <2>1
    <2> QED
        BY <1>4, <2>2 DEF boolean
<1> QED
    BY <1>2, <1>3, <1>4

\* A text is written as its length and its bytes.
LEMMA TextType ==
    ASSUME NEW v \in Text
    PROVE  /\ v \in Seq(Byte) /\ Len(v) \in Unsigned
           /\ text(v) = Glue(number(Len(v)), v) /\ text(v) \in Seq(Byte)
<1>1. v \in Seq(Byte) /\ Len(v) \in Nat /\ Len(v) < Modulus
    BY LenProperties DEF Text
<1>2. number(Len(v)) \in Seq(Byte)
    BY <1>1, NumberType
<1>3. text(v) = Glue(number(Len(v)), v)
    BY DEF text, Glue
<1>4. Glue(number(Len(v)), v) \in Seq(Byte)
    BY <1>1, <1>2, Glued
<1> QED
    BY <1>1, <1>3, <1>4, ModulusIs DEF Unsigned

\* Two texts are written the same only if they are the same, and none is a beginning
\* of another.
LEMMA TextsDiffer ==
    ASSUME NEW v \in Text, NEW w \in Text
    PROVE  Compatible(Byte, text(v), text(w)) /\ (text(v) = text(w) => v = w)
<1>1. PICK m, n : m = number(Len(v)) /\ n = number(Len(w))
    OBVIOUS
<1>2. v \in Seq(Byte) /\ text(v) = Glue(m, v)
    BY <1>1, TextType
<1>3. w \in Seq(Byte) /\ text(w) = Glue(n, w)
    BY <1>1, TextType
<1>4. m \in Seq(Byte) /\ n \in Seq(Byte) /\ Len(m) = Len(n)
    BY <1>1, TextType, NumberType, ModulusIs DEF Unsigned
<1>5. m = n => Len(v) = Len(w)
    BY <1>1, TextType, NumbersDiffer
<1> QED
    BY <1>2, <1>3, <1>4, <1>5, Headed

\* A list of fields makes a string of bytes.
LEMMA FullType == \A f \in Seq(Seq(Byte)) : Full(f) \in Seq(Byte)
<1> TAKE f \in Seq(Seq(Byte))
<1>1. Len(f) \in 0..Len(f)
    BY LenProperties
<1> QED
    BY <1>1, WrittenType DEF Full

\* No field makes no byte.
LEMMA FlattenEmpty == FlattenSeq(<<>>) = <<>>
BY FlattenIsFull DEF Full, Written

-----------------------------------------------------------------------------
(* Lists of fields *)

Fields == Seq(Seq(Byte))

\* Of two lists that start the same when written, every field is the same.
Coded(f, h) ==
    /\ f \in Fields /\ h \in Fields
    /\ Compatible(Byte, Full(f), Full(h))
    /\ Full(f) = Full(h) => f = h

\* Two fields written by the same member of identity_writer.
Texts == {text(v) : v \in Text}
Numbers == {u \in Seq(Byte) : Len(u) = Width}
Alike(u, v) == (u \in Texts /\ v \in Texts) \/ (u \in Numbers /\ v \in Numbers)

\* The end of a field is known from its beginning.
LEMMA AlikeCompatible ==
    ASSUME NEW u, NEW v, Alike(u, v)
    PROVE  u \in Seq(Byte) /\ v \in Seq(Byte) /\ Compatible(Byte, u, v)
<1>1. CASE u \in Texts /\ v \in Texts
    <2>1. PICK x \in Text, y \in Text : u = text(x) /\ v = text(y)
        BY <1>1 DEF Texts
    <2> QED
        BY <2>1, TextType, TextsDiffer
<1>2. CASE u \in Numbers /\ v \in Numbers
    BY <1>2, SameLength DEF Numbers
<1> QED
    BY <1>1, <1>2 DEF Alike

\* Lists with the same kinds of fields.
LEMMA RowCoded ==
    ASSUME NEW f \in Fields, NEW h \in Fields, Len(f) = Len(h),
           \A j \in 1..Len(f) : Alike(f[j], h[j])
    PROVE  Coded(f, h)
<1>1. Len(f) \in Nat
    BY LenProperties DEF Fields
<1>2. \A j \in Nat \ {0} : j <= Len(f) /\ j <= Len(h) /\ (\A i \in 1..j - 1 : f[i] = h[i])
         => Compatible(Byte, f[j], h[j])
    BY <1>1, AlikeCompatible
<1>3. (\A j \in Nat \ {0} : j <= Len(f) /\ j <= Len(h) => f[j] = h[j]) => Len(f) = Len(h)
    OBVIOUS
<1> QED
    BY <1>2, <1>3, Lockstep DEF Coded, Fields

\* Lists that differ in their first fields.
LEMMA FirstDiffers ==
    ASSUME NEW f \in Fields, NEW h \in Fields, Len(f) >= 1, Len(h) >= 1,
           Alike(f[1], h[1]), f[1] # h[1]
    PROVE  Coded(f, h)
<1>1. Len(f) \in Nat /\ Len(h) \in Nat
    BY LenProperties DEF Fields
<1>2. ASSUME NEW j \in Nat \ {0}, \A i \in 1..j - 1 : f[i] = h[i]
      PROVE  Compatible(Byte, f[j], h[j])
    <2>1. j = 1
        <3>1. 1 \notin 1..j - 1
            BY <1>2
        <3> QED
            BY <3>1
    <2> QED
        BY <2>1, AlikeCompatible
<1>3. (\A j \in Nat \ {0} : j <= Len(f) /\ j <= Len(h) => f[j] = h[j]) => Len(f) = Len(h)
    BY <1>1, 1 \in Nat \ {0}
<1> QED
    BY <1>2, <1>3, Lockstep DEF Coded, Fields

\* Lists that differ in their first or second fields.
LEMMA SecondDiffers ==
    ASSUME NEW f \in Fields, NEW h \in Fields, Len(f) >= 2, Len(h) >= 2,
           Alike(f[1], h[1]), Alike(f[2], h[2]), f[2] # h[2]
    PROVE  Coded(f, h)
<1>1. Len(f) \in Nat /\ Len(h) \in Nat
    BY LenProperties DEF Fields
<1>2. ASSUME NEW j \in Nat \ {0}, \A i \in 1..j - 1 : f[i] = h[i]
      PROVE  Compatible(Byte, f[j], h[j])
    <2>1. j = 1 \/ j = 2
        <3>1. 2 \notin 1..j - 1
            BY <1>2
        <3> QED
            BY <3>1
    <2> QED
        BY <2>1, AlikeCompatible
<1>3. (\A j \in Nat \ {0} : j <= Len(f) /\ j <= Len(h) => f[j] = h[j]) => Len(f) = Len(h)
    BY <1>1, 2 \in Nat \ {0}
<1> QED
    BY <1>2, <1>3, Lockstep DEF Coded, Fields

\* A list after a list.
LEMMA Chained ==
    ASSUME NEW f, NEW h, NEW x \in Fields, NEW y \in Fields,
           Coded(f, h), f = h => Coded(x, y)
    PROVE  /\ Coded(f \o x, h \o y)
           /\ f \o x = h \o y => f = h /\ x = y
<1>1. PICK p, q : p = f \o x /\ q = h \o y /\ p = Glue(f, x) /\ q = Glue(h, y)
    BY DEF Glue
<1>2. PICK a, b, c, d : a = Full(f) /\ b = Full(h) /\ c = Full(x) /\ d = Full(y)
    OBVIOUS
<1>3. f \in Fields /\ h \in Fields /\ Compatible(Byte, a, b) /\ (a = b => f = h)
    BY <1>2 DEF Coded
<1>4. p \in Fields /\ Full(p) = Glue(a, c)
    BY <1>1, <1>2, <1>3, WrittenGlue DEF Fields
<1>5. q \in Fields /\ Full(q) = Glue(b, d)
    BY <1>1, <1>2, <1>3, WrittenGlue DEF Fields
<1>6. a \in Seq(Byte) /\ b \in Seq(Byte) /\ c \in Seq(Byte) /\ d \in Seq(Byte)
    BY <1>2, <1>3, FullType DEF Fields
<1>7. a = b => Compatible(Byte, c, d) /\ (c = d => x = y)
    BY <1>2, <1>3 DEF Coded
<1>8. Compatible(Byte, Glue(a, c), Glue(b, d)) /\ (Glue(a, c) = Glue(b, d) => a = b /\ c = d)
    BY <1>3, <1>6, <1>7, Then
<1>9. Full(p) = Full(q) => f = h /\ x = y
    BY <1>3, <1>4, <1>5, <1>7, <1>8
<1>10. Coded(p, q)
    <2>1. f = h /\ x = y => p = q
        BY <1>1
    <2> QED
        BY <1>4, <1>5, <1>8, <1>9, <2>1 DEF Coded
<1> QED
    BY <1>1, <1>9, <1>10

\* Lists of fields one after the other are a list of fields.
LEMMA FullListType == \A e \in Seq(Fields) : Full(e) \in Fields
<1> TAKE e \in Seq(Fields)
<1>1. PICK c : c = [i \in 1..Len(e) |-> Full(e[i])]
    OBVIOUS
<1> QED
    BY <1>1, WrittenLists DEF Fields

\* As many lists, one after the other.
LEMMA Nested ==
    ASSUME NEW e \in Seq(Fields), NEW g \in Seq(Fields), Len(e) = Len(g),
           \A i \in 1..Len(e) : Coded(e[i], g[i])
    PROVE  Coded(Full(e), Full(g)) /\ (Full(e) = Full(g) => e = g)
<1>1. PICK n \in Nat : n = Len(e) /\ n = Len(g)
    BY LenProperties
<1>2. PICK c, d : c = [i \in 1..Len(e) |-> Full(e[i])] /\ d = [i \in 1..Len(g) |-> Full(g[i])]
    OBVIOUS
<1>3. c \in Fields /\ Full(e) \in Fields /\ Full(Full(e)) = Full(c)
    BY <1>2, WrittenLists DEF Fields
<1>4. d \in Fields /\ Full(g) \in Fields /\ Full(Full(g)) = Full(d)
    BY ONLY g \in Seq(Fields), <1>2, WrittenLists DEF Fields
<1>5. Len(c) = n /\ Len(d) = n /\ \A i \in 1..n : c[i] = Full(e[i]) /\ d[i] = Full(g[i])
    BY <1>1, <1>2
<1>6. \A j \in Nat \ {0} : j <= Len(c) /\ j <= Len(d) /\ (\A i \in 1..j - 1 : c[i] = d[i])
         => Compatible(Byte, c[j], d[j])
    BY <1>1, <1>5 DEF Coded
<1>7. (\A j \in Nat \ {0} : j <= Len(c) /\ j <= Len(d) => c[j] = d[j]) => Len(c) = Len(d)
    BY <1>5
<1>8. Compatible(Byte, Full(c), Full(d)) /\ (Full(c) = Full(d) => c = d)
    BY <1>3, <1>4, <1>6, <1>7, Lockstep DEF Fields
<1>9. c = d => e = g
    <2>1. SUFFICES ASSUME c = d PROVE e = g
        OBVIOUS
    <2>2. \A i \in 1..n : e[i] = g[i]
        BY <1>1, <1>5, <2>1 DEF Coded
    <2> QED
        BY <1>1, <2>2, SeqEqual
<1> QED
    BY <1>3, <1>4, <1>8, <1>9 DEF Coded

-----------------------------------------------------------------------------
(* The records *)

\* The names are texts, and different within a list of them.
LEMMA NameType == \A p \in Spellable : protocol(p) \in Texts /\ enumerator(p) \in Texts
<1> TAKE p \in Spellable
<1>1. Spelling[p] \in Text
    BY SpellingAssumption DEF NamesAreDistinct
<1> QED
    BY <1>1 DEF protocol, enumerator, Texts

\* Two names of one list are written the same only if they are the same.
LEMMA NamesDiffer ==
    ASSUME NEW E \in {Protocols, EntryTypes, Compressions, Scopes, Outcomes}
    PROVE  /\ \A p, q \in E : protocol(p) = protocol(q) => p = q
           /\ \A p, q \in E : enumerator(p) = enumerator(q) => p = q
<1> SUFFICES ASSUME NEW p \in E, NEW q \in E, text(Spelling[p]) = text(Spelling[q])
             PROVE  p = q
    BY DEF protocol, enumerator
<1>1. p \in Spellable /\ q \in Spellable
    BY DEF Spellable
<1>2. Spelling[p] \in Text /\ Spelling[q] \in Text
    BY <1>1, SpellingAssumption DEF NamesAreDistinct
<1>3. Spelling[p] = Spelling[q]
    BY <1>2, TextsDiffer
<1> QED
    BY <1>3, SpellingAssumption DEF NamesAreDistinct

\* Every member of identity_writer writes one of the two kinds of fields.
LEMMA FieldType ==
    /\ \A u \in Texts : u \in Seq(Byte)
    /\ \A u \in Numbers : u \in Seq(Byte)
    /\ \A v \in Text : text(v) \in Texts
    /\ \A n \in Unsigned \cup Signed : number(n) \in Numbers
    /\ \A b \in BOOLEAN : boolean(b) \in Numbers
<1>1. \A u \in Texts : u \in Seq(Byte)
    BY TextType DEF Texts
<1>2. \A n \in Int : number(n) \in Numbers
    BY NumberType DEF Numbers
<1>3. \A b \in BOOLEAN : boolean(b) \in Numbers
    BY <1>2 DEF boolean
<1>4. \A n \in Unsigned \cup Signed : n \in Int
    BY ModulusIs DEF Unsigned, Signed
<1> QED
    BY <1>1, <1>2, <1>3, <1>4 DEF Texts, Numbers

\* Tuples of texts and numbers are lists of fields.
LEMMA PolicyCoded ==
    ASSUME NEW a \in build_policy, NEW b \in build_policy
    PROVE  Coded(policy_id(a), policy_id(b)) /\ (policy_id(a) = policy_id(b) => a = b)
<1>1. /\ a.environment \in Text /\ b.environment \in Text
    BY DEF build_policy
<1>2. PICK p \in Texts, q \in Texts :
           p = protocol("build-policy") /\ q = enumerator("package-root")
    BY NameType DEF Spellable, Protocols, Fixed, Outcomes
<1>3. PICK u2, v2 :
         /\ u2 = text(a.environment) /\ v2 = text(b.environment)
    OBVIOUS
<1>4. /\ u2 \in Texts /\ v2 \in Texts
    BY <1>1, <1>3, FieldType
<1>5. policy_id(a) = <<p, u2, q>> /\ policy_id(b) = <<p, v2, q>>
    BY <1>2, <1>3 DEF policy_id
<1>6. <<p, u2, q>> \in Fields /\ <<p, v2, q>> \in Fields
    BY <1>4, FieldType DEF Fields
<1>7. Coded(<<p, u2, q>>, <<p, v2, q>>)
    BY <1>4, <1>6, RowCoded DEF Alike
<1>8. /\ u2 = v2 => a.environment = b.environment
    BY <1>1, <1>3, TextsDiffer
<1>9. <<p, u2, q>> = <<p, v2, q>> => a = b
    BY <1>8 DEF build_policy
<1> QED
    BY <1>5, <1>7, <1>9

\* build_input.
LEMMA InputCoded ==
    ASSUME NEW a \in build_input, NEW b \in build_input
    PROVE  Coded(input_id(a), input_id(b)) /\ (input_id(a) = input_id(b) => a = b)
<1>1. /\ a.scope \in Scopes /\ b.scope \in Scopes
      /\ a.edge \in Text /\ b.edge \in Text
      /\ a.selection \in Text /\ b.selection \in Text
    BY DEF build_input
<1>2. PICK p \in Texts :
           p = protocol("build-input")
    BY NameType DEF Spellable, Protocols, Fixed, Outcomes
<1>3. PICK u2, v2, u3, v3, u4, v4 :
         /\ u2 = enumerator(a.scope) /\ v2 = enumerator(b.scope)
         /\ u3 = text(a.edge) /\ v3 = text(b.edge)
         /\ u4 = text(a.selection) /\ v4 = text(b.selection)
    OBVIOUS
<1>4. /\ u2 \in Texts /\ v2 \in Texts
      /\ u3 \in Texts /\ v3 \in Texts
      /\ u4 \in Texts /\ v4 \in Texts
    BY <1>1, <1>3, FieldType, NameType DEF Spellable
<1>5. input_id(a) = <<p, u2, u3, u4>> /\ input_id(b) = <<p, v2, v3, v4>>
    BY <1>2, <1>3 DEF input_id
<1>6. <<p, u2, u3, u4>> \in Fields /\ <<p, v2, v3, v4>> \in Fields
    BY <1>4, FieldType DEF Fields
<1>7. Coded(<<p, u2, u3, u4>>, <<p, v2, v3, v4>>)
    BY <1>4, <1>6, RowCoded DEF Alike
<1>8. /\ u2 = v2 => a.scope = b.scope
      /\ u3 = v3 => a.edge = b.edge
      /\ u4 = v4 => a.selection = b.selection
    BY <1>1, <1>3, TextsDiffer, NamesDiffer
<1>9. <<p, u2, u3, u4>> = <<p, v2, v3, v4>> => a = b
    BY <1>8 DEF build_input
<1> QED
    BY <1>5, <1>7, <1>9

\* build_request.
LEMMA RequestCoded ==
    ASSUME NEW a \in build_request, NEW b \in build_request
    PROVE  Coded(request_id(a), request_id(b)) /\ (request_id(a) = request_id(b) => a = b)
<1>1. /\ a.source \in Text /\ b.source \in Text
      /\ a.inputs \in Text /\ b.inputs \in Text
      /\ a.build \in Text /\ b.build \in Text
      /\ a.target \in Text /\ b.target \in Text
      /\ a.policy \in Text /\ b.policy \in Text
    BY DEF build_request
<1>2. PICK p \in Texts :
           p = protocol("build-request")
    BY NameType DEF Spellable, Protocols, Fixed, Outcomes
<1>3. PICK u2, v2, u3, v3, u4, v4, u5, v5, u6, v6 :
         /\ u2 = text(a.source) /\ v2 = text(b.source)
         /\ u3 = text(a.inputs) /\ v3 = text(b.inputs)
         /\ u4 = text(a.build) /\ v4 = text(b.build)
         /\ u5 = text(a.target) /\ v5 = text(b.target)
         /\ u6 = text(a.policy) /\ v6 = text(b.policy)
    OBVIOUS
<1>4. /\ u2 \in Texts /\ v2 \in Texts
      /\ u3 \in Texts /\ v3 \in Texts
      /\ u4 \in Texts /\ v4 \in Texts
      /\ u5 \in Texts /\ v5 \in Texts
      /\ u6 \in Texts /\ v6 \in Texts
    BY <1>1, <1>3, FieldType
<1>5. request_id(a) = <<p, u2, u3, u4, u5, u6>> /\ request_id(b) = <<p, v2, v3, v4, v5, v6>>
    BY <1>2, <1>3 DEF request_id
<1>6. <<p, u2, u3, u4, u5, u6>> \in Fields /\ <<p, v2, v3, v4, v5, v6>> \in Fields
    BY <1>4, FieldType DEF Fields
<1>7. Coded(<<p, u2, u3, u4, u5, u6>>, <<p, v2, v3, v4, v5, v6>>)
    BY <1>4, <1>6, RowCoded DEF Alike
<1>8. /\ u2 = v2 => a.source = b.source
      /\ u3 = v3 => a.inputs = b.inputs
      /\ u4 = v4 => a.build = b.build
      /\ u5 = v5 => a.target = b.target
      /\ u6 = v6 => a.policy = b.policy
    BY <1>1, <1>3, TextsDiffer
<1>9. <<p, u2, u3, u4, u5, u6>> = <<p, v2, v3, v4, v5, v6>> => a = b
    BY <1>8 DEF build_request
<1> QED
    BY <1>5, <1>7, <1>9

\* sealed_artifact.
LEMMA ArtifactCoded ==
    ASSUME NEW a \in sealed_artifact, NEW b \in sealed_artifact
    PROVE  Coded(artifact_id(a), artifact_id(b)) /\ (artifact_id(a) = artifact_id(b) => a = b)
<1>1. /\ a.compression \in Compressions /\ b.compression \in Compressions
      /\ a.byte_count \in Unsigned /\ b.byte_count \in Unsigned
      /\ a.complete_digest \in Text /\ b.complete_digest \in Text
    BY DEF sealed_artifact
<1>2. PICK p \in Texts, q \in Texts :
           p = protocol("artifact") /\ q = enumerator("package-tar")
    BY NameType DEF Spellable, Protocols, Fixed, Outcomes
<1>3. PICK u3, v3, u4, v4, u5, v5 :
         /\ u3 = enumerator(a.compression) /\ v3 = enumerator(b.compression)
         /\ u4 = number(a.byte_count) /\ v4 = number(b.byte_count)
         /\ u5 = text(a.complete_digest) /\ v5 = text(b.complete_digest)
    OBVIOUS
<1>4. /\ u3 \in Texts /\ v3 \in Texts
      /\ u4 \in Numbers /\ v4 \in Numbers
      /\ u5 \in Texts /\ v5 \in Texts
    BY <1>1, <1>3, FieldType, NameType DEF Spellable
<1>5. artifact_id(a) = <<p, q, u3, u4, u5>> /\ artifact_id(b) = <<p, q, v3, v4, v5>>
    BY <1>2, <1>3 DEF artifact_id
<1>6. <<p, q, u3, u4, u5>> \in Fields /\ <<p, q, v3, v4, v5>> \in Fields
    BY <1>4, FieldType DEF Fields
<1>7. Coded(<<p, q, u3, u4, u5>>, <<p, q, v3, v4, v5>>)
    BY <1>4, <1>6, RowCoded DEF Alike
<1>8. /\ u3 = v3 => a.compression = b.compression
      /\ u4 = v4 => a.byte_count = b.byte_count
      /\ u5 = v5 => a.complete_digest = b.complete_digest
    BY <1>1, <1>3, TextsDiffer, NamesDiffer, NumbersDiffer
<1>9. <<p, q, u3, u4, u5>> = <<p, q, v3, v4, v5>> => a = b
    BY <1>8 DEF sealed_artifact
<1> QED
    BY <1>5, <1>7, <1>9

\* artifact_binding.
LEMMA BindingCoded ==
    ASSUME NEW a \in artifact_binding, NEW b \in artifact_binding
    PROVE  Coded(binding_id(a), binding_id(b)) /\ (binding_id(a) = binding_id(b) => a = b)
<1>1. /\ a.request \in Text /\ b.request \in Text
      /\ a.payload \in Text /\ b.payload \in Text
      /\ a.artifact \in Text /\ b.artifact \in Text
      /\ a.complete_digest \in Text /\ b.complete_digest \in Text
    BY DEF artifact_binding
<1>2. PICK p \in Texts :
           p = protocol("artifact-binding")
    BY NameType DEF Spellable, Protocols, Fixed, Outcomes
<1>3. PICK u2, v2, u3, v3, u4, v4, u5, v5 :
         /\ u2 = text(a.request) /\ v2 = text(b.request)
         /\ u3 = text(a.payload) /\ v3 = text(b.payload)
         /\ u4 = text(a.artifact) /\ v4 = text(b.artifact)
         /\ u5 = text(a.complete_digest) /\ v5 = text(b.complete_digest)
    OBVIOUS
<1>4. /\ u2 \in Texts /\ v2 \in Texts
      /\ u3 \in Texts /\ v3 \in Texts
      /\ u4 \in Texts /\ v4 \in Texts
      /\ u5 \in Texts /\ v5 \in Texts
    BY <1>1, <1>3, FieldType
<1>5. binding_id(a) = <<p, u2, u3, u4, u5>> /\ binding_id(b) = <<p, v2, v3, v4, v5>>
    BY <1>2, <1>3 DEF binding_id
<1>6. <<p, u2, u3, u4, u5>> \in Fields /\ <<p, v2, v3, v4, v5>> \in Fields
    BY <1>4, FieldType DEF Fields
<1>7. Coded(<<p, u2, u3, u4, u5>>, <<p, v2, v3, v4, v5>>)
    BY <1>4, <1>6, RowCoded DEF Alike
<1>8. /\ u2 = v2 => a.request = b.request
      /\ u3 = v3 => a.payload = b.payload
      /\ u4 = v4 => a.artifact = b.artifact
      /\ u5 = v5 => a.complete_digest = b.complete_digest
    BY <1>1, <1>3, TextsDiffer
<1>9. <<p, u2, u3, u4, u5>> = <<p, v2, v3, v4, v5>> => a = b
    BY <1>8 DEF artifact_binding
<1> QED
    BY <1>5, <1>7, <1>9

\* A successful build_result.
LEMMA SuccessCoded ==
    ASSUME NEW a \in succeeded, NEW b \in succeeded
    PROVE  Coded(success_id(a), success_id(b)) /\ (success_id(a) = success_id(b) => a = b)
<1>1. /\ a.request \in Text /\ b.request \in Text
      /\ a.payload \in Text /\ b.payload \in Text
      /\ a.artifact \in Text /\ b.artifact \in Text
      /\ a.binding \in Text /\ b.binding \in Text
      /\ a.execution \in Text /\ b.execution \in Text
    BY DEF succeeded
<1>2. PICK p \in Texts, q \in Texts :
           p = protocol("build-result") /\ q = enumerator("succeeded")
    BY NameType DEF Spellable, Protocols, Fixed, Outcomes
<1>3. PICK u3, v3, u4, v4, u5, v5, u6, v6, u7, v7 :
         /\ u3 = text(a.request) /\ v3 = text(b.request)
         /\ u4 = text(a.payload) /\ v4 = text(b.payload)
         /\ u5 = text(a.artifact) /\ v5 = text(b.artifact)
         /\ u6 = text(a.binding) /\ v6 = text(b.binding)
         /\ u7 = text(a.execution) /\ v7 = text(b.execution)
    OBVIOUS
<1>4. /\ u3 \in Texts /\ v3 \in Texts
      /\ u4 \in Texts /\ v4 \in Texts
      /\ u5 \in Texts /\ v5 \in Texts
      /\ u6 \in Texts /\ v6 \in Texts
      /\ u7 \in Texts /\ v7 \in Texts
    BY <1>1, <1>3, FieldType
<1>5. success_id(a) = <<p, q, u3, u4, u5, u6, u7>> /\ success_id(b) = <<p, q, v3, v4, v5, v6, v7>>
    BY <1>2, <1>3 DEF success_id
<1>6. <<p, q, u3, u4, u5, u6, u7>> \in Fields /\ <<p, q, v3, v4, v5, v6, v7>> \in Fields
    BY <1>4, FieldType DEF Fields
<1>7. Coded(<<p, q, u3, u4, u5, u6, u7>>, <<p, q, v3, v4, v5, v6, v7>>)
    BY <1>4, <1>6, RowCoded DEF Alike
<1>8. /\ u3 = v3 => a.request = b.request
      /\ u4 = v4 => a.payload = b.payload
      /\ u5 = v5 => a.artifact = b.artifact
      /\ u6 = v6 => a.binding = b.binding
      /\ u7 = v7 => a.execution = b.execution
    BY <1>1, <1>3, TextsDiffer
<1>9. <<p, q, u3, u4, u5, u6, u7>> = <<p, q, v3, v4, v5, v6, v7>> => a = b
    BY <1>8 DEF succeeded
<1> QED
    BY <1>5, <1>7, <1>9

\* A failed build_result.
LEMMA FailureCoded ==
    ASSUME NEW a \in failed, NEW b \in failed
    PROVE  Coded(failure_id(a), failure_id(b)) /\ (failure_id(a) = failure_id(b) => a = b)
<1>1. /\ a.request \in Text /\ b.request \in Text
      /\ a.execution \in Text /\ b.execution \in Text
      /\ a.failure \in Text /\ b.failure \in Text
    BY DEF failed
<1>2. PICK p \in Texts, q \in Texts :
           p = protocol("build-result") /\ q = enumerator("failed")
    BY NameType DEF Spellable, Protocols, Fixed, Outcomes
<1>3. PICK u3, v3, u4, v4, u5, v5 :
         /\ u3 = text(a.request) /\ v3 = text(b.request)
         /\ u4 = text(a.execution) /\ v4 = text(b.execution)
         /\ u5 = text(a.failure) /\ v5 = text(b.failure)
    OBVIOUS
<1>4. /\ u3 \in Texts /\ v3 \in Texts
      /\ u4 \in Texts /\ v4 \in Texts
      /\ u5 \in Texts /\ v5 \in Texts
    BY <1>1, <1>3, FieldType
<1>5. failure_id(a) = <<p, q, u3, u4, u5>> /\ failure_id(b) = <<p, q, v3, v4, v5>>
    BY <1>2, <1>3 DEF failure_id
<1>6. <<p, q, u3, u4, u5>> \in Fields /\ <<p, q, v3, v4, v5>> \in Fields
    BY <1>4, FieldType DEF Fields
<1>7. Coded(<<p, q, u3, u4, u5>>, <<p, q, v3, v4, v5>>)
    BY <1>4, <1>6, RowCoded DEF Alike
<1>8. /\ u3 = v3 => a.request = b.request
      /\ u4 = v4 => a.execution = b.execution
      /\ u5 = v5 => a.failure = b.failure
    BY <1>1, <1>3, TextsDiffer
<1>9. <<p, q, u3, u4, u5>> = <<p, q, v3, v4, v5>> => a = b
    BY <1>8 DEF failed
<1> QED
    BY <1>5, <1>7, <1>9

-----------------------------------------------------------------------------
(* What may be absent *)

epoch(v) == IF v = Absent THEN <<boolean(FALSE)>> ELSE <<boolean(TRUE), number(v)>>
numbers(v) ==
    IF v = Absent THEN <<boolean(FALSE)>> ELSE <<boolean(TRUE), number(v[1]), number(v[2])>>

\* What is absent differs in the first field from all that is present.
LEMMA OptionalCoded ==
    ASSUME NEW a \in Optional(Text), NEW b \in Optional(Text)
    PROVE  Coded(optional(a), optional(b)) /\ (optional(a) = optional(b) => a = b)
<1>1. PICK x \in Numbers, y \in Numbers : x = boolean(FALSE) /\ y = boolean(TRUE) /\ x # y
    BY FieldType, NumbersDiffer
<1>2. PICK u1, v1 :
         /\ u1 = text(a) /\ v1 = text(b)
    OBVIOUS
<1>3. /\ a # Absent => u1 \in Texts
      /\ b # Absent => v1 \in Texts
    BY <1>2, FieldType DEF Optional
<1>4. /\ optional(a) = IF a = Absent THEN <<x>> ELSE <<y, u1>>
      /\ optional(b) = IF b = Absent THEN <<x>> ELSE <<y, v1>>
    BY <1>1, <1>2 DEF optional
<1>5. /\ <<x>> \in Fields
      /\ a # Absent => <<y, u1>> \in Fields
      /\ b # Absent => <<y, v1>> \in Fields
    BY <1>3, FieldType DEF Fields
<1>6. CASE a = Absent /\ b = Absent
    <2>1. Coded(<<x>>, <<x>>)
        BY <1>5, RowCoded DEF Alike
    <2> QED
        BY <1>4, <1>6, <2>1
<1>7. CASE a # Absent /\ b # Absent
    <2>1. Coded(<<y, u1>>, <<y, v1>>)
        BY <1>3, <1>5, <1>7, RowCoded DEF Alike
    <2>2. <<y, u1>> = <<y, v1>> => a = b
        BY <1>2, <1>7, TextsDiffer, NumbersDiffer DEF Optional
    <2> QED
        BY <1>4, <1>7, <2>1, <2>2
<1>8. CASE a = Absent /\ b # Absent
    <2>1. PICK f \in Fields, h \in Fields :
            /\ f = <<x>> /\ Len(f) >= 1 /\ f[1] = x
            /\ h = <<y, v1>> /\ Len(h) >= 1 /\ h[1] = y
        BY <1>5, <1>8
    <2>2. Alike(f[1], h[1]) /\ f[1] # h[1]
        BY <1>1, <2>1 DEF Alike
    <2>3. Coded(f, h) /\ f # h
        BY <2>1, <2>2, FirstDiffers
    <2> QED
        BY <1>4, <1>8, <2>1, <2>3
<1>9. CASE a # Absent /\ b = Absent
    <2>1. PICK f \in Fields, h \in Fields :
            /\ f = <<y, u1>> /\ Len(f) >= 1 /\ f[1] = y
            /\ h = <<x>> /\ Len(h) >= 1 /\ h[1] = x
        BY <1>5, <1>9
    <2>2. Alike(f[1], h[1]) /\ f[1] # h[1]
        BY <1>1, <2>1 DEF Alike
    <2>3. Coded(f, h) /\ f # h
        BY <2>1, <2>2, FirstDiffers
    <2> QED
        BY <1>4, <1>9, <2>1, <2>3
<1> QED
    BY <1>6, <1>7, <1>8, <1>9

\* The source date epoch.
LEMMA EpochCoded ==
    ASSUME NEW a \in Optional(Signed), NEW b \in Optional(Signed)
    PROVE  Coded(epoch(a), epoch(b)) /\ (epoch(a) = epoch(b) => a = b)
<1>1. PICK x \in Numbers, y \in Numbers : x = boolean(FALSE) /\ y = boolean(TRUE) /\ x # y
    BY FieldType, NumbersDiffer
<1>2. PICK u1, v1 :
         /\ u1 = number(a) /\ v1 = number(b)
    OBVIOUS
<1>3. /\ a # Absent => u1 \in Numbers
      /\ b # Absent => v1 \in Numbers
    BY <1>2, FieldType DEF Optional
<1>4. /\ epoch(a) = IF a = Absent THEN <<x>> ELSE <<y, u1>>
      /\ epoch(b) = IF b = Absent THEN <<x>> ELSE <<y, v1>>
    BY <1>1, <1>2 DEF epoch
<1>5. /\ <<x>> \in Fields
      /\ a # Absent => <<y, u1>> \in Fields
      /\ b # Absent => <<y, v1>> \in Fields
    BY <1>3, FieldType DEF Fields
<1>6. CASE a = Absent /\ b = Absent
    <2>1. Coded(<<x>>, <<x>>)
        BY <1>5, RowCoded DEF Alike
    <2> QED
        BY <1>4, <1>6, <2>1
<1>7. CASE a # Absent /\ b # Absent
    <2>1. Coded(<<y, u1>>, <<y, v1>>)
        BY <1>3, <1>5, <1>7, RowCoded DEF Alike
    <2>2. <<y, u1>> = <<y, v1>> => a = b
        BY <1>2, <1>7, TextsDiffer, NumbersDiffer DEF Optional
    <2> QED
        BY <1>4, <1>7, <2>1, <2>2
<1>8. CASE a = Absent /\ b # Absent
    <2>1. PICK f \in Fields, h \in Fields :
            /\ f = <<x>> /\ Len(f) >= 1 /\ f[1] = x
            /\ h = <<y, v1>> /\ Len(h) >= 1 /\ h[1] = y
        BY <1>5, <1>8
    <2>2. Alike(f[1], h[1]) /\ f[1] # h[1]
        BY <1>1, <2>1 DEF Alike
    <2>3. Coded(f, h) /\ f # h
        BY <2>1, <2>2, FirstDiffers
    <2> QED
        BY <1>4, <1>8, <2>1, <2>3
<1>9. CASE a # Absent /\ b = Absent
    <2>1. PICK f \in Fields, h \in Fields :
            /\ f = <<y, u1>> /\ Len(f) >= 1 /\ f[1] = y
            /\ h = <<x>> /\ Len(h) >= 1 /\ h[1] = x
        BY <1>5, <1>9
    <2>2. Alike(f[1], h[1]) /\ f[1] # h[1]
        BY <1>1, <2>1 DEF Alike
    <2>3. Coded(f, h) /\ f # h
        BY <2>1, <2>2, FirstDiffers
    <2> QED
        BY <1>4, <1>9, <2>1, <2>3
<1> QED
    BY <1>6, <1>7, <1>8, <1>9

\* The numbers of a device.
LEMMA DeviceCoded ==
    ASSUME NEW a \in Optional(Unsigned \X Unsigned), NEW b \in Optional(Unsigned \X Unsigned)
    PROVE  Coded(numbers(a), numbers(b)) /\ (numbers(a) = numbers(b) => a = b)
<1>1. PICK x \in Numbers, y \in Numbers : x = boolean(FALSE) /\ y = boolean(TRUE) /\ x # y
    BY FieldType, NumbersDiffer
<1>2. PICK u1, u2, v1, v2 :
         /\ u1 = number(a[1]) /\ v1 = number(b[1])
         /\ u2 = number(a[2]) /\ v2 = number(b[2])
    OBVIOUS
<1>3. /\ a # Absent => u1 \in Numbers /\ u2 \in Numbers
      /\ b # Absent => v1 \in Numbers /\ v2 \in Numbers
    BY <1>2, FieldType DEF Optional
<1>4. /\ numbers(a) = IF a = Absent THEN <<x>> ELSE <<y, u1, u2>>
      /\ numbers(b) = IF b = Absent THEN <<x>> ELSE <<y, v1, v2>>
    BY <1>1, <1>2 DEF numbers
<1>5. /\ <<x>> \in Fields
      /\ a # Absent => <<y, u1, u2>> \in Fields
      /\ b # Absent => <<y, v1, v2>> \in Fields
    BY <1>3, FieldType DEF Fields
<1>6. CASE a = Absent /\ b = Absent
    <2>1. Coded(<<x>>, <<x>>)
        BY <1>5, RowCoded DEF Alike
    <2> QED
        BY <1>4, <1>6, <2>1
<1>7. CASE a # Absent /\ b # Absent
    <2>1. Coded(<<y, u1, u2>>, <<y, v1, v2>>)
        BY <1>3, <1>5, <1>7, RowCoded DEF Alike
    <2>2. <<y, u1, u2>> = <<y, v1, v2>> => a = b
        <3>1. /\ a = <<a[1], a[2]>> /\ a[1] \in Unsigned /\ a[2] \in Unsigned
              /\ b = <<b[1], b[2]>> /\ b[1] \in Unsigned /\ b[2] \in Unsigned
            BY <1>7 DEF Optional
        <3>2. u1 = v1 /\ u2 = v2 => a[1] = b[1] /\ a[2] = b[2]
            BY <1>2, <3>1, NumbersDiffer
        <3> QED
            BY <3>1, <3>2
    <2> QED
        BY <1>4, <1>7, <2>1, <2>2
<1>8. CASE a = Absent /\ b # Absent
    <2>1. PICK f \in Fields, h \in Fields :
            /\ f = <<x>> /\ Len(f) >= 1 /\ f[1] = x
            /\ h = <<y, v1, v2>> /\ Len(h) >= 1 /\ h[1] = y
        BY <1>5, <1>8
    <2>2. Alike(f[1], h[1]) /\ f[1] # h[1]
        BY <1>1, <2>1 DEF Alike
    <2>3. Coded(f, h) /\ f # h
        BY <2>1, <2>2, FirstDiffers
    <2> QED
        BY <1>4, <1>8, <2>1, <2>3
<1>9. CASE a # Absent /\ b = Absent
    <2>1. PICK f \in Fields, h \in Fields :
            /\ f = <<y, u1, u2>> /\ Len(f) >= 1 /\ f[1] = y
            /\ h = <<x>> /\ Len(h) >= 1 /\ h[1] = x
        BY <1>5, <1>9
    <2>2. Alike(f[1], h[1]) /\ f[1] # h[1]
        BY <1>1, <2>1 DEF Alike
    <2>3. Coded(f, h) /\ f # h
        BY <2>1, <2>2, FirstDiffers
    <2> QED
        BY <1>4, <1>9, <2>1, <2>3
<1> QED
    BY <1>6, <1>7, <1>8, <1>9

-----------------------------------------------------------------------------
(* Records of several parts *)

\* The options of the environment, and the source date epoch.
LEMMA EnvironmentCoded ==
    ASSUME NEW a \in environment_policy, NEW b \in environment_policy
    PROVE  /\ Coded(environment_id(a), environment_id(b))
           /\ environment_id(a) = environment_id(b) => a = b
<1>1. /\ a.parallelism \in Unsigned /\ b.parallelism \in Unsigned
      /\ a.file_creation_mask \in Unsigned /\ b.file_creation_mask \in Unsigned
      /\ a.source_date_epoch \in Optional(Signed) /\ b.source_date_epoch \in Optional(Signed)
    BY DEF environment_policy
<1>2. PICK p \in Texts, q \in Texts, r \in Texts, s \in Texts, t \in Texts :
        /\ p = protocol("environment-policy") /\ q = enumerator("C.UTF-8")
        /\ r = enumerator("UTC") /\ s = enumerator("denied") /\ t = enumerator("isolated")
    BY NameType DEF Spellable, Protocols, Fixed
<1>3. PICK u1, v1, u2, v2 :
         /\ u1 = number(a.parallelism) /\ v1 = number(b.parallelism)
         /\ u2 = number(a.file_creation_mask) /\ v2 = number(b.file_creation_mask)
    OBVIOUS
<1>4. u1 \in Numbers /\ v1 \in Numbers /\ u2 \in Numbers /\ v2 \in Numbers
    BY <1>1, <1>3, FieldType
<1>5. PICK f, h : f = <<p, q, r, s, t, u1, u2>> /\ h = <<p, q, r, s, t, v1, v2>>
    OBVIOUS
<1>6. f \in Fields /\ h \in Fields
    BY <1>4, <1>5, FieldType DEF Fields
<1>7. Coded(f, h)
    <2>1. /\ Len(f) = 7 /\ Len(h) = 7
          /\ \A j \in 1..7 : Alike(f[j], h[j])
        BY <1>4, <1>5 DEF Alike
    <2> QED
        BY <1>6, <2>1, RowCoded
<1>8. PICK x, y : x = epoch(a.source_date_epoch) /\ y = epoch(b.source_date_epoch)
    OBVIOUS
<1>9. Coded(x, y) /\ (x = y => a.source_date_epoch = b.source_date_epoch)
    BY <1>1, <1>8, EpochCoded
<1>10. x \in Fields /\ y \in Fields
    BY <1>9 DEF Coded
<1>11. environment_id(a) = f \o x /\ environment_id(b) = h \o y
    BY <1>2, <1>3, <1>5, <1>8, Zenon DEF environment_id, epoch
<1>12. Coded(f \o x, h \o y) /\ (f \o x = h \o y => f = h /\ x = y)
    BY <1>7, <1>9, <1>10, Chained
<1>13. f = h => u1 = v1 /\ u2 = v2
    BY <1>5
<1>14. f = h /\ x = y => a = b
    <2>1. f = h => a.parallelism = b.parallelism /\ a.file_creation_mask = b.file_creation_mask
        BY <1>1, <1>3, <1>13, NumbersDiffer
    <2> QED
        BY <1>9, <2>1 DEF environment_policy
<1> QED
    BY <1>11, <1>12, <1>14

\* The inputs of a set, as many as were announced.
texts(s) == [i \in DOMAIN s |-> text(s[i])]

\* The texts of a list, if it is known how many there are.
LEMMA TextsCoded ==
    ASSUME NEW s \in Seq(Text), NEW t \in Seq(Text)
    PROVE  /\ texts(s) \in Fields /\ texts(t) \in Fields
           /\ Len(s) = Len(t) =>
                 Coded(texts(s), texts(t)) /\ (texts(s) = texts(t) => s = t)
<1>1. PICK m \in Nat, n \in Nat :
         /\ m = Len(s) /\ DOMAIN s = 1..m /\ \A i \in 1..m : s[i] \in Text
         /\ n = Len(t) /\ DOMAIN t = 1..n /\ \A i \in 1..n : t[i] \in Text
    BY LenProperties
<1>2. PICK f, h : f = [i \in 1..m |-> text(s[i])] /\ h = [i \in 1..n |-> text(t[i])]
    OBVIOUS
<1>3. texts(s) = f /\ texts(t) = h
    BY <1>1, <1>2 DEF texts
<1>4. /\ \A i \in 1..m : f[i] \in Texts /\ f[i] \in Seq(Byte)
      /\ \A i \in 1..n : h[i] \in Texts /\ h[i] \in Seq(Byte)
    BY <1>1, <1>2, FieldType
<1>5. f \in Fields /\ h \in Fields /\ Len(f) = m /\ Len(h) = n
    BY <1>2, <1>4, IsASeq DEF Fields
<1>6. ASSUME m = n PROVE Coded(f, h) /\ (f = h => s = t)
    <2>1. Coded(f, h)
        BY <1>4, <1>5, <1>6, RowCoded DEF Alike
    <2>2. ASSUME f = h PROVE s = t
        <3>1. \A i \in 1..m : s[i] = t[i]
            <4> TAKE i \in 1..m
            <4>1. text(s[i]) = text(t[i]) /\ s[i] \in Text /\ t[i] \in Text
                BY <1>1, <1>2, <1>6, <2>2
            <4> QED
                BY <4>1, TextsDiffer
        <3> QED
            BY <1>1, <1>6, <3>1, SeqEqual
    <2> QED
        BY <2>1, <2>2
<1> QED
    BY <1>1, <1>3, <1>5, <1>6

\* build_input_set: the number of its inputs comes before them.
LEMMA InputSetCoded ==
    ASSUME NEW a \in build_input_set, NEW b \in build_input_set
    PROVE  /\ Coded(input_set_id(a), input_set_id(b))
           /\ input_set_id(a) = input_set_id(b) => a = b
<1>1. /\ a.resolution \in Text /\ b.resolution \in Text
      /\ a.subject \in Text /\ b.subject \in Text
      /\ a.inputs \in Seq(Text) /\ b.inputs \in Seq(Text)
      /\ Len(a.inputs) < Modulus /\ Len(b.inputs) < Modulus
    BY DEF build_input_set
<1>2. PICK p \in Texts : p = protocol("build-input-set")
    BY NameType DEF Spellable, Protocols
<1>3. PICK u1, v1, u2, v2, u3, v3 :
         /\ u1 = text(a.resolution) /\ v1 = text(b.resolution)
         /\ u2 = text(a.subject) /\ v2 = text(b.subject)
         /\ u3 = number(Len(a.inputs)) /\ v3 = number(Len(b.inputs))
    OBVIOUS
<1>4. Len(a.inputs) \in Unsigned /\ Len(b.inputs) \in Unsigned
    BY <1>1, ModulusIs, LenProperties DEF Unsigned
<1>5. /\ u1 \in Texts /\ v1 \in Texts /\ u2 \in Texts /\ v2 \in Texts
      /\ u3 \in Numbers /\ v3 \in Numbers
    BY <1>1, <1>3, <1>4, FieldType
<1>6. PICK f, h : f = <<p, u1, u2, u3>> /\ h = <<p, v1, v2, v3>>
    OBVIOUS
<1>7. f \in Fields /\ h \in Fields
    BY <1>5, <1>6, FieldType DEF Fields
<1>8. Coded(f, h)
    <2>1. Len(f) = 4 /\ Len(h) = 4 /\ \A j \in 1..4 : Alike(f[j], h[j])
        BY <1>5, <1>6 DEF Alike
    <2> QED
        BY <1>7, <2>1, RowCoded
<1>9. f = h => Len(a.inputs) = Len(b.inputs) /\ a.resolution = b.resolution /\ a.subject = b.subject
    <2>1. f = h => u1 = v1 /\ u2 = v2 /\ u3 = v3
        BY <1>6
    <2> QED
        BY <1>1, <1>3, <1>4, <2>1, NumbersDiffer, TextsDiffer
<1>10. PICK x, y : x = texts(a.inputs) /\ y = texts(b.inputs)
    OBVIOUS
<1>11. x \in Fields /\ y \in Fields
       /\ (Len(a.inputs) = Len(b.inputs) => Coded(x, y) /\ (x = y => a.inputs = b.inputs))
    BY <1>1, <1>10, TextsCoded
<1>12. Coded(f \o x, h \o y) /\ (f \o x = h \o y => f = h /\ x = y)
    BY <1>8, <1>9, <1>11, Chained
<1>13. input_set_id(a) = f \o x /\ input_set_id(b) = h \o y
    BY <1>2, <1>3, <1>6, <1>10, Zenon DEF input_set_id, texts
<1>14. f = h /\ x = y => a = b
    BY <1>9, <1>11 DEF build_input_set
<1> QED
    BY <1>12, <1>13, <1>14

\* What is known of every entry, and then what some types of entries have.
prefix(e) ==
    <<text(e.path), enumerator(e.type), number(e.mode), number(e.uid),
      number(e.gid), number(e.size),
      number(e.modification_time.seconds), number(e.modification_time.nanoseconds)>>

\* The part of an entry that every type has.
LEMMA PrefixCoded ==
    ASSUME NEW a \in payload_entry, NEW b \in payload_entry
    PROVE  /\ Coded(prefix(a), prefix(b))
           /\ prefix(a) = prefix(b) =>
                 /\ a.path = b.path /\ a.type = b.type /\ a.mode = b.mode
                 /\ a.uid = b.uid /\ a.gid = b.gid /\ a.size = b.size
                 /\ a.modification_time = b.modification_time
<1>1. /\ a.path \in Text /\ b.path \in Text
      /\ a.type \in EntryTypes /\ b.type \in EntryTypes
      /\ a.mode \in Unsigned /\ b.mode \in Unsigned
      /\ a.uid \in Unsigned /\ b.uid \in Unsigned
      /\ a.gid \in Unsigned /\ b.gid \in Unsigned
      /\ a.size \in Unsigned /\ b.size \in Unsigned
      /\ a.modification_time \in [seconds : Signed, nanoseconds : Unsigned]
      /\ b.modification_time \in [seconds : Signed, nanoseconds : Unsigned]
    BY DEF payload_entry
<1>2. PICK u1, u2, u3, u4, u5, u6, u7, u8 :
         /\ u1 = text(a.path) /\ u2 = enumerator(a.type) /\ u3 = number(a.mode)
         /\ u4 = number(a.uid) /\ u5 = number(a.gid) /\ u6 = number(a.size)
         /\ u7 = number(a.modification_time.seconds)
         /\ u8 = number(a.modification_time.nanoseconds)
    OBVIOUS
<1>3. PICK v1, v2, v3, v4, v5, v6, v7, v8 :
         /\ v1 = text(b.path) /\ v2 = enumerator(b.type) /\ v3 = number(b.mode)
         /\ v4 = number(b.uid) /\ v5 = number(b.gid) /\ v6 = number(b.size)
         /\ v7 = number(b.modification_time.seconds)
         /\ v8 = number(b.modification_time.nanoseconds)
    OBVIOUS
<1>4. /\ a.modification_time.seconds \in Signed /\ a.modification_time.nanoseconds \in Unsigned
      /\ b.modification_time.seconds \in Signed /\ b.modification_time.nanoseconds \in Unsigned
    BY <1>1
<1>5. /\ u1 \in Texts /\ u2 \in Texts /\ u3 \in Numbers /\ u4 \in Numbers
      /\ u5 \in Numbers /\ u6 \in Numbers /\ u7 \in Numbers /\ u8 \in Numbers
    BY <1>1, <1>2, <1>4, FieldType, NameType DEF Spellable
<1>6. /\ v1 \in Texts /\ v2 \in Texts /\ v3 \in Numbers /\ v4 \in Numbers
      /\ v5 \in Numbers /\ v6 \in Numbers /\ v7 \in Numbers /\ v8 \in Numbers
    BY <1>1, <1>3, <1>4, FieldType, NameType DEF Spellable
<1>7. PICK f, h : f = <<u1, u2, u3, u4, u5, u6, u7, u8>> /\ h = <<v1, v2, v3, v4, v5, v6, v7, v8>>
    OBVIOUS
<1>8. f \in Fields /\ h \in Fields
    BY <1>5, <1>6, <1>7, FieldType DEF Fields
<1>9. Coded(f, h)
    <2>1. Len(f) = 8 /\ Len(h) = 8 /\ \A j \in 1..8 : Alike(f[j], h[j])
        BY <1>5, <1>6, <1>7 DEF Alike
    <2> QED
        BY <1>8, <2>1, RowCoded
<1>10. prefix(a) = f /\ prefix(b) = h
    BY <1>2, <1>3, <1>7, Zenon DEF prefix
<1>11. ASSUME f = h
       PROVE  /\ a.path = b.path /\ a.type = b.type /\ a.mode = b.mode
              /\ a.uid = b.uid /\ a.gid = b.gid /\ a.size = b.size
              /\ a.modification_time = b.modification_time
    <2>1. /\ u1 = v1 /\ u2 = v2 /\ u3 = v3 /\ u4 = v4
          /\ u5 = v5 /\ u6 = v6 /\ u7 = v7 /\ u8 = v8
        BY <1>7, <1>11
    <2>2. a.path = b.path /\ a.type = b.type
        BY <1>1, <1>2, <1>3, <2>1, TextsDiffer, NamesDiffer
    <2>3. /\ number(a.mode) = number(b.mode) /\ number(a.uid) = number(b.uid)
          /\ number(a.gid) = number(b.gid) /\ number(a.size) = number(b.size)
          /\ number(a.modification_time.seconds) = number(b.modification_time.seconds)
          /\ number(a.modification_time.nanoseconds) = number(b.modification_time.nanoseconds)
        BY <1>2, <1>3, <2>1, Zenon
    <2>4. a.mode = b.mode /\ a.uid = b.uid /\ a.gid = b.gid /\ a.size = b.size
        BY <1>1, <2>3, NumbersDiffer
    <2>5. a.modification_time = b.modification_time
        <3>1. a.modification_time.seconds = b.modification_time.seconds
            BY <1>4, <2>3, NumbersDiffer, Zenon
        <3>2. a.modification_time.nanoseconds = b.modification_time.nanoseconds
            BY <1>4, <2>3, NumbersDiffer, Zenon
        <3> QED
            BY <1>1, <3>1, <3>2
    <2> QED
        BY <2>2, <2>4, <2>5
<1> QED
    BY <1>9, <1>10, <1>11

\* Two entries written the same have everything in common.
LEMMA EntryCoded ==
    ASSUME NEW a \in payload_entry, NEW b \in payload_entry
    PROVE  /\ Coded(write_payload_entry(a), write_payload_entry(b))
           /\ write_payload_entry(a) = write_payload_entry(b) => a = b
<1>1. /\ a.symlink_target \in Optional(Text) /\ b.symlink_target \in Optional(Text)
      /\ a.hardlink_target \in Optional(Text) /\ b.hardlink_target \in Optional(Text)
      /\ a.device \in Optional(Unsigned \X Unsigned) /\ b.device \in Optional(Unsigned \X Unsigned)
      /\ a.regular_content \in Optional(Text) /\ b.regular_content \in Optional(Text)
    BY DEF payload_entry
<1>2. PICK f1, f2, f3, f4, f5 :
         /\ f1 = prefix(a) /\ f2 = optional(a.symlink_target) /\ f3 = optional(a.hardlink_target)
         /\ f4 = numbers(a.device) /\ f5 = optional(a.regular_content)
    OBVIOUS
<1>3. PICK h1, h2, h3, h4, h5 :
         /\ h1 = prefix(b) /\ h2 = optional(b.symlink_target) /\ h3 = optional(b.hardlink_target)
         /\ h4 = numbers(b.device) /\ h5 = optional(b.regular_content)
    OBVIOUS
<1>4. Coded(f1, h1)
    BY <1>2, <1>3, PrefixCoded
<1>5. Coded(f2, h2) /\ (f2 = h2 => a.symlink_target = b.symlink_target)
    BY <1>1, <1>2, <1>3, OptionalCoded
<1>6. Coded(f3, h3) /\ (f3 = h3 => a.hardlink_target = b.hardlink_target)
    BY <1>1, <1>2, <1>3, OptionalCoded
<1>7. Coded(f4, h4) /\ (f4 = h4 => a.device = b.device)
    BY <1>1, <1>2, <1>3, DeviceCoded
<1>8. Coded(f5, h5) /\ (f5 = h5 => a.regular_content = b.regular_content)
    BY <1>1, <1>2, <1>3, OptionalCoded
<1>9. /\ f2 \in Fields /\ h2 \in Fields /\ f3 \in Fields /\ h3 \in Fields
      /\ f4 \in Fields /\ h4 \in Fields /\ f5 \in Fields /\ h5 \in Fields
    BY <1>5, <1>6, <1>7, <1>8 DEF Coded
<1>10. PICK x2, y2 : x2 = f1 \o f2 /\ y2 = h1 \o h2
    OBVIOUS
<1>11. Coded(x2, y2) /\ (x2 = y2 => f1 = h1 /\ f2 = h2)
    BY <1>4, <1>5, <1>9, <1>10, Chained
<1>12. PICK x3, y3 : x3 = x2 \o f3 /\ y3 = y2 \o h3
    OBVIOUS
<1>13. Coded(x3, y3) /\ (x3 = y3 => x2 = y2 /\ f3 = h3)
    BY <1>6, <1>9, <1>11, <1>12, Chained
<1>14. PICK x4, y4 : x4 = x3 \o f4 /\ y4 = y3 \o h4
    OBVIOUS
<1>15. Coded(x4, y4) /\ (x4 = y4 => x3 = y3 /\ f4 = h4)
    BY <1>7, <1>9, <1>13, <1>14, Chained
<1>16. PICK x5, y5 : x5 = x4 \o f5 /\ y5 = y4 \o h5
    OBVIOUS
<1>17. Coded(x5, y5) /\ (x5 = y5 => x4 = y4 /\ f5 = h5)
    BY <1>8, <1>9, <1>15, <1>16, Chained
<1>18. write_payload_entry(a) = x5
    BY <1>2, <1>10, <1>12, <1>14, <1>16, Zenon DEF write_payload_entry, prefix, numbers
<1>19. write_payload_entry(b) = y5
    BY <1>3, <1>10, <1>12, <1>14, <1>16, Zenon DEF write_payload_entry, prefix, numbers
<1>20. ASSUME x5 = y5 PROVE a = b
    <2>1. f1 = h1 /\ f2 = h2 /\ f3 = h3 /\ f4 = h4 /\ f5 = h5
        BY <1>11, <1>13, <1>15, <1>17, <1>20
    <2>2. /\ a.path = b.path /\ a.type = b.type /\ a.mode = b.mode
          /\ a.uid = b.uid /\ a.gid = b.gid /\ a.size = b.size
          /\ a.modification_time = b.modification_time
        BY <1>2, <1>3, <2>1, PrefixCoded
    <2> QED
        BY <1>5, <1>6, <1>7, <1>8, <2>1, <2>2 DEF payload_entry
<1> QED
    BY <1>17, <1>18, <1>19, <1>20

\* Two entries with the same bytes are the same.
LEMMA EntryBytesCoded ==
    ASSUME NEW a \in payload_entry, NEW b \in payload_entry, entry_bytes(a) = entry_bytes(b)
    PROVE  a = b
<1>1. PICK f, h : f = write_payload_entry(a) /\ h = write_payload_entry(b)
    OBVIOUS
<1>2. Coded(f, h) /\ (f = h => a = b)
    BY <1>1, EntryCoded
<1>3. f \in Fields /\ h \in Fields
    BY <1>2 DEF Coded
<1>4. \A s \in Fields : Len(s) \in Nat /\ (s = <<>> <=> Len(s) = 0)
    BY EmptySeq, LenProperties DEF Fields
<1>5. FlattenSeq(f) = Full(f) /\ FlattenSeq(h) = Full(h)
    BY <1>3, <1>4, FlattenIsFull
<1>6. Full(f) = Full(h)
    BY <1>1, <1>5, Zenon DEF entry_bytes
<1> QED
    BY <1>2, <1>6 DEF Coded

\* The entries of a manifest are written as a list of fields.
LEMMA EntriesType ==
    ASSUME NEW s \in Seq(payload_entry)
    PROVE  FlattenSeq([i \in DOMAIN s |-> write_payload_entry(s[i])]) \in Fields
<1>1. PICK c : c = [i \in DOMAIN s |-> write_payload_entry(s[i])]
    OBVIOUS
<1>2. PICK n \in Nat : n = Len(s) /\ DOMAIN s = 1..n
    BY LenProperties
<1>3. \A i \in 1..n : c[i] \in Fields
    BY <1>1, <1>2, EntryCoded DEF Coded
<1>4. c \in Seq(Fields) /\ Len(c) \in Nat /\ (c = <<>> <=> Len(c) = 0)
    <2>1. c \in Seq(Fields)
        BY <1>1, <1>2, <1>3, IsASeq
    <2> QED
        BY <2>1, EmptySeq, LenProperties
<1>5. FlattenSeq(c) = Full(c)
    BY <1>4, FlattenIsFull
<1> QED
    BY <1>1, <1>4, <1>5, FullListType

\* The entries of a manifest, as many as were announced.
LEMMA ManifestCoded ==
    ASSUME NEW a \in payload_manifest, NEW b \in payload_manifest
    PROVE  /\ Coded(manifest_id(a), manifest_id(b))
           /\ manifest_id(a) = manifest_id(b) => a = b
<1>1. PICK m \in Nat, n \in Nat :
         /\ a.entries \in Seq(payload_entry) /\ m = Len(a.entries) /\ m \in Unsigned
         /\ DOMAIN a.entries = 1..m
         /\ b.entries \in Seq(payload_entry) /\ n = Len(b.entries) /\ n \in Unsigned
         /\ DOMAIN b.entries = 1..n
    <2>1. /\ a.entries \in Seq(payload_entry) /\ Len(a.entries) < Modulus
          /\ b.entries \in Seq(payload_entry) /\ Len(b.entries) < Modulus
        BY DEF payload_manifest
    <2> QED
        BY <2>1, LenProperties, ModulusIs DEF Unsigned
<1>2. PICK p \in Texts : p = protocol("payload-manifest")
    BY NameType DEF Spellable, Protocols
<1>3. PICK u \in Numbers, v \in Numbers : u = number(m) /\ v = number(n)
    BY <1>1, FieldType
<1>4. u = v => m = n
    BY <1>1, <1>3, NumbersDiffer
<1>5. PICK f, h : f = <<p, u>> /\ h = <<p, v>>
    OBVIOUS
<1>6. Coded(f, h)
    <2>1. f \in Fields /\ h \in Fields
        BY <1>5, FieldType DEF Fields
    <2>2. Len(f) = 2 /\ Len(h) = 2 /\ \A j \in 1..2 : Alike(f[j], h[j])
        BY <1>5 DEF Alike
    <2> QED
        BY <2>1, <2>2, RowCoded
<1>7. PICK c, d :
         /\ c = [i \in 1..m |-> write_payload_entry(a.entries[i])]
         /\ d = [i \in 1..n |-> write_payload_entry(b.entries[i])]
    OBVIOUS
<1>8. /\ \A i \in 1..m : a.entries[i] \in payload_entry /\ c[i] = write_payload_entry(a.entries[i])
      /\ \A i \in 1..n : b.entries[i] \in payload_entry /\ d[i] = write_payload_entry(b.entries[i])
    BY <1>1, <1>7
<1>9. /\ \A i \in 1..m : c[i] \in Fields
      /\ \A i \in 1..n : d[i] \in Fields
    BY <1>8, EntryCoded DEF Coded
<1>10. /\ c \in Seq(Fields) /\ Len(c) = m /\ FlattenSeq(c) = Full(c)
       /\ d \in Seq(Fields) /\ Len(d) = n /\ FlattenSeq(d) = Full(d)
    <2>1. c \in Seq(Fields) /\ Len(c) = m /\ d \in Seq(Fields) /\ Len(d) = n
        BY <1>7, <1>9, IsASeq
    <2>2. (c = <<>> <=> Len(c) = 0) /\ (d = <<>> <=> Len(d) = 0)
        BY <2>1, EmptySeq
    <2> QED
        BY <2>1, <2>2, FlattenIsFull
<1>11. Full(c) \in Fields /\ Full(d) \in Fields
    BY <1>10, FullListType
<1>12. ASSUME m = n
       PROVE  Coded(Full(c), Full(d)) /\ (Full(c) = Full(d) => c = d)
    <2>1. \A i \in 1..m : Coded(c[i], d[i])
        BY <1>8, <1>12, EntryCoded
    <2> QED
        BY <1>10, <1>12, <2>1, Nested
<1>13. ASSUME m = n, c = d PROVE a.entries = b.entries
    <2>1. \A i \in 1..m : a.entries[i] = b.entries[i]
        BY <1>8, <1>13, EntryCoded
    <2> QED
        BY <1>1, <1>13, <2>1, SeqEqual
<1>14. PICK x, y : x = Full(c) /\ y = Full(d)
    OBVIOUS
<1>15. f = h => m = n
    BY <1>4, <1>5
<1>16. Coded(f \o x, h \o y) /\ (f \o x = h \o y => f = h /\ x = y)
    <2>1. x \in Fields /\ y \in Fields /\ (f = h => Coded(x, y))
        BY <1>11, <1>12, <1>14, <1>15
    <2> QED
        BY <1>6, <2>1, Chained
<1>17. manifest_id(a) = f \o x
    BY <1>1, <1>2, <1>3, <1>5, <1>7, <1>10, <1>14, Zenon DEF manifest_id
<1>18. manifest_id(b) = h \o y
    BY <1>1, <1>2, <1>3, <1>5, <1>7, <1>10, <1>14, Zenon DEF manifest_id
<1>19. a.entries = b.entries => a = b
    BY DEF payload_manifest
<1> QED
    BY <1>12, <1>13, <1>14, <1>15, <1>16, <1>17, <1>18, <1>19

-----------------------------------------------------------------------------
(* The context *)

\* The pointer is set from the allocation on, until finish or the constructor's
\* own throw, and the count follows the pointer.
Inv ==
    /\ stage \in {"outside", "initializing", "writing", "finished", "throwing"}
    /\ context \in {"null", "pointer"}
    /\ allocated = IF context = "null" THEN 0 ELSE 1
    /\ stage \in {"outside", "finished"} => context = "null"
    /\ stage \in {"initializing", "writing", "throwing"} => context = "pointer"

\* Before the first record there is no context.
LEMMA InitInv == Init => Inv
BY DEF Init, Inv

\* Allocation and the failure of the constructor count in opposite directions.
LEMMA ConstructionInv ==
    ASSUME Inv, Allocate \/ Initialize \/ InitializeFails PROVE Inv'
<1>1. CASE Allocate
    BY <1>1 DEF Allocate, Inv
<1>2. CASE Initialize
    BY <1>2 DEF Initialize, Inv
<1>3. CASE InitializeFails
    BY <1>3 DEF InitializeFails, Inv
<1> QED
    BY <1>1, <1>2, <1>3

\* A context is freed by finish or by the destructor, and by one of them only.
LEMMA ReleaseInv ==
    ASSUME Inv, WriteField \/ CallFails \/ finish \/ Destroy PROVE Inv'
<1>1. CASE WriteField
    BY <1>1 DEF WriteField, Inv
<1>2. CASE CallFails
    BY <1>2 DEF CallFails, Inv
<1>3. CASE finish
    BY <1>3 DEF finish, AfterFinish, Inv
<1>4. CASE Destroy
    BY <1>4 DEF Destroy, Released, Inv
<1> QED
    BY <1>1, <1>2, <1>3, <1>4

\* Every step keeps the invariant.
LEMMA NextInv == Inv /\ [Next]_vars => Inv'
<1> SUFFICES ASSUME Inv, [Next]_vars PROVE Inv'
    OBVIOUS
<1>1. CASE UNCHANGED vars
    BY <1>1 DEF vars, Inv
<1>2. CASE Stop
    BY <1>1, <1>2 DEF Stop
<1> QED
    BY <1>1, <1>2, ConstructionInv, ReleaseInv DEF Next

-----------------------------------------------------------------------------
(* Any two records *)

\* The class of a record is known from its kind.
LEMMA KindIs ==
    ASSUME NEW r \in Record
    PROVE  \/ r \in environment_policy /\ r.kind = "environment-policy"
           \/ r \in build_policy /\ r.kind = "build-policy"
           \/ r \in build_input /\ r.kind = "build-input"
           \/ r \in build_input_set /\ r.kind = "build-input-set"
           \/ r \in build_request /\ r.kind = "build-request"
           \/ r \in payload_manifest /\ r.kind = "payload-manifest"
           \/ r \in sealed_artifact /\ r.kind = "artifact"
           \/ r \in artifact_binding /\ r.kind = "artifact-binding"
           \/ r \in succeeded /\ r.kind = "success"
           \/ r \in failed /\ r.kind = "failure"
BY DEF Record, environment_policy, build_policy, build_input, build_input_set, build_request, payload_manifest,
        sealed_artifact, artifact_binding, succeeded, failed

\* The protocol of a record.
Title(r) == IF r.kind \in {"success", "failure"} THEN "build-result" ELSE r.kind

\* Two records of one kind.
LEMMA KindCoded ==
    ASSUME NEW a \in Record, NEW b \in Record, a.kind = b.kind
    PROVE  Coded(fields(a), fields(b)) /\ (fields(a) = fields(b) => a = b)
<1>1. CASE a \in environment_policy /\ a.kind = "environment-policy"
    <2>1. b \in environment_policy
        BY <1>1, KindIs
    <2>2. fields(a) = environment_id(a) /\ fields(b) = environment_id(b)
        BY <1>1 DEF fields
    <2> QED
        BY <1>1, <2>1, <2>2, EnvironmentCoded
<1>2. CASE a \in build_policy /\ a.kind = "build-policy"
    <2>1. b \in build_policy
        BY <1>2, KindIs
    <2>2. fields(a) = policy_id(a) /\ fields(b) = policy_id(b)
        BY <1>2 DEF fields
    <2> QED
        BY <1>2, <2>1, <2>2, PolicyCoded
<1>3. CASE a \in build_input /\ a.kind = "build-input"
    <2>1. b \in build_input
        BY <1>3, KindIs
    <2>2. fields(a) = input_id(a) /\ fields(b) = input_id(b)
        BY <1>3 DEF fields
    <2> QED
        BY <1>3, <2>1, <2>2, InputCoded
<1>4. CASE a \in build_input_set /\ a.kind = "build-input-set"
    <2>1. b \in build_input_set
        BY <1>4, KindIs
    <2>2. fields(a) = input_set_id(a) /\ fields(b) = input_set_id(b)
        BY <1>4 DEF fields
    <2> QED
        BY <1>4, <2>1, <2>2, InputSetCoded
<1>5. CASE a \in build_request /\ a.kind = "build-request"
    <2>1. b \in build_request
        BY <1>5, KindIs
    <2>2. fields(a) = request_id(a) /\ fields(b) = request_id(b)
        BY <1>5 DEF fields
    <2> QED
        BY <1>5, <2>1, <2>2, RequestCoded
<1>6. CASE a \in payload_manifest /\ a.kind = "payload-manifest"
    <2>1. b \in payload_manifest
        BY <1>6, KindIs
    <2>2. fields(a) = manifest_id(a) /\ fields(b) = manifest_id(b)
        BY <1>6 DEF fields
    <2> QED
        BY <1>6, <2>1, <2>2, ManifestCoded
<1>7. CASE a \in sealed_artifact /\ a.kind = "artifact"
    <2>1. b \in sealed_artifact
        BY <1>7, KindIs
    <2>2. fields(a) = artifact_id(a) /\ fields(b) = artifact_id(b)
        BY <1>7 DEF fields
    <2> QED
        BY <1>7, <2>1, <2>2, ArtifactCoded
<1>8. CASE a \in artifact_binding /\ a.kind = "artifact-binding"
    <2>1. b \in artifact_binding
        BY <1>8, KindIs
    <2>2. fields(a) = binding_id(a) /\ fields(b) = binding_id(b)
        BY <1>8 DEF fields
    <2> QED
        BY <1>8, <2>1, <2>2, BindingCoded
<1>9. CASE a \in succeeded /\ a.kind = "success"
    <2>1. b \in succeeded
        BY <1>9, KindIs
    <2>2. fields(a) = success_id(a) /\ fields(b) = success_id(b)
        BY <1>9 DEF fields
    <2> QED
        BY <1>9, <2>1, <2>2, SuccessCoded
<1>10. CASE a \in failed /\ a.kind = "failure"
    <2>1. b \in failed
        BY <1>10, KindIs
    <2>2. fields(a) = failure_id(a) /\ fields(b) = failure_id(b)
        BY <1>10 DEF fields
    <2> QED
        BY <1>10, <2>1, <2>2, FailureCoded
<1> QED
    BY <1>1, <1>2, <1>3, <1>4, <1>5, <1>6, <1>7, <1>8, <1>9, <1>10, KindIs

\* What the first two fields of a list of several parts are.
LEMMA FirstTwo ==
    ASSUME NEW f \in Fields, NEW x, f \o x \in Fields, x \in Fields, Len(f) >= 2
    PROVE  Len(f \o x) >= 2 /\ (f \o x)[1] = f[1] /\ (f \o x)[2] = f[2]
<1>1. /\ Len(f \o x) = Len(f) + Len(x)
      /\ \A i \in 1..Len(f) + Len(x) : (f \o x)[i] = IF i <= Len(f) THEN f[i] ELSE x[i - Len(f)]
    BY ConcatProperties DEF Fields
<1>2. Len(f) \in Nat /\ Len(x) \in Nat
    BY LenProperties DEF Fields
<1> QED
    BY <1>1, <1>2

\* Every list starts with the name of its protocol; a result has its outcome next.
LEMMA Headings ==
    ASSUME NEW r \in Record
    PROVE  /\ fields(r) \in Fields /\ Len(fields(r)) >= 2
           /\ Title(r) \in Protocols /\ fields(r)[1] = protocol(Title(r))
           /\ r.kind = "success" => fields(r)[2] = enumerator("succeeded")
           /\ r.kind = "failure" => fields(r)[2] = enumerator("failed")
<1>0. fields(r) \in Fields
    BY KindCoded DEF Coded
<1>1. CASE r \in build_policy /\ r.kind = "build-policy"
    <2>1. fields(r) = policy_id(r)
        BY <1>1 DEF fields
    <2> QED
        BY <1>0, <1>1, <2>1 DEF policy_id, Title, Protocols
<1>2. CASE r \in build_input /\ r.kind = "build-input"
    <2>1. fields(r) = input_id(r)
        BY <1>2 DEF fields
    <2> QED
        BY <1>0, <1>2, <2>1 DEF input_id, Title, Protocols
<1>3. CASE r \in build_request /\ r.kind = "build-request"
    <2>1. fields(r) = request_id(r)
        BY <1>3 DEF fields
    <2> QED
        BY <1>0, <1>3, <2>1 DEF request_id, Title, Protocols
<1>4. CASE r \in sealed_artifact /\ r.kind = "artifact"
    <2>1. fields(r) = artifact_id(r)
        BY <1>4 DEF fields
    <2> QED
        BY <1>0, <1>4, <2>1 DEF artifact_id, Title, Protocols
<1>5. CASE r \in artifact_binding /\ r.kind = "artifact-binding"
    <2>1. fields(r) = binding_id(r)
        BY <1>5 DEF fields
    <2> QED
        BY <1>0, <1>5, <2>1 DEF binding_id, Title, Protocols
<1>6. CASE r \in succeeded /\ r.kind = "success"
    <2>1. fields(r) = success_id(r)
        BY <1>6 DEF fields
    <2> QED
        BY <1>0, <1>6, <2>1 DEF success_id, Title, Protocols
<1>7. CASE r \in failed /\ r.kind = "failure"
    <2>1. fields(r) = failure_id(r)
        BY <1>7 DEF fields
    <2> QED
        BY <1>0, <1>7, <2>1 DEF failure_id, Title, Protocols
<1>8. CASE r \in environment_policy /\ r.kind = "environment-policy"
    <2>1. fields(r) = environment_id(r)
        BY <1>8 DEF fields
    <2>2. PICK x : x = epoch(r.source_date_epoch)
        OBVIOUS
    <2>3. x \in Fields
        BY <1>8, <2>2, EpochCoded DEF environment_policy, Coded
    <2>4. PICK p, f :
            /\ p = protocol("environment-policy")
            /\ f = <<p, enumerator("C.UTF-8"), enumerator("UTC"),
                     enumerator("denied"), enumerator("isolated"),
                     number(r.parallelism), number(r.file_creation_mask)>>
        OBVIOUS
    <2>5. fields(r) = f \o x
        BY <2>1, <2>2, <2>4, Zenon DEF environment_id, epoch
    <2>6. f \in Fields /\ Len(f) = 7 /\ f[1] = p
        <3>1. /\ p \in Seq(Byte) /\ enumerator("C.UTF-8") \in Seq(Byte)
              /\ enumerator("UTC") \in Seq(Byte) /\ enumerator("denied") \in Seq(Byte)
              /\ enumerator("isolated") \in Seq(Byte)
            BY <2>4, NameType, FieldType DEF Spellable, Protocols, Fixed
        <3>2. number(r.parallelism) \in Seq(Byte) /\ number(r.file_creation_mask) \in Seq(Byte)
            BY <1>8, FieldType DEF environment_policy
        <3> QED
            BY <2>4, <3>1, <3>2 DEF Fields
    <2> QED
        BY <1>0, <1>8, <2>3, <2>4, <2>5, <2>6, FirstTwo DEF Title, Protocols
<1>9. CASE r \in build_input_set /\ r.kind = "build-input-set"
    <2>1. fields(r) = input_set_id(r)
        BY <1>9 DEF fields
    <2>2. PICK x : x = texts(r.inputs)
        OBVIOUS
    <2>3. x \in Fields
        BY <1>9, <2>2, TextsCoded DEF build_input_set
    <2>4. PICK p, f :
            /\ p = protocol("build-input-set")
            /\ f = <<p, text(r.resolution), text(r.subject), number(Len(r.inputs))>>
        OBVIOUS
    <2>5. fields(r) = f \o x
        BY <2>1, <2>2, <2>4, Zenon DEF input_set_id, texts
    <2>6. f \in Fields /\ Len(f) = 4 /\ f[1] = p
        <3>1. p \in Seq(Byte)
            BY <2>4, NameType, FieldType DEF Spellable, Protocols
        <3>2. /\ text(r.resolution) \in Seq(Byte) /\ text(r.subject) \in Seq(Byte)
              /\ number(Len(r.inputs)) \in Seq(Byte)
            BY <1>9, TextType, NumberType, LenProperties DEF build_input_set
        <3> QED
            BY <2>4, <3>1, <3>2 DEF Fields
    <2> QED
        BY <1>0, <1>9, <2>3, <2>4, <2>5, <2>6, FirstTwo DEF Title, Protocols
<1>10. CASE r \in payload_manifest /\ r.kind = "payload-manifest"
    <2>1. fields(r) = manifest_id(r)
        BY <1>10 DEF fields
    <2>2. PICK x, p, u :
            /\ p = protocol("payload-manifest") /\ u = number(Len(r.entries))
            /\ x = FlattenSeq([i \in DOMAIN r.entries |-> write_payload_entry(r.entries[i])])
        OBVIOUS
    <2>3. PICK f : f = <<p, u>> /\ fields(r) = f \o x
        BY <2>1, <2>2, Zenon DEF manifest_id
    <2>4. p \in Seq(Byte) /\ u \in Seq(Byte)
        BY <1>10, <2>2, NameType, FieldType, NumberType, LenProperties
           DEF Spellable, Protocols, payload_manifest
    <2>5. f \in Fields /\ Len(f) = 2 /\ f[1] = p
        BY <2>3, <2>4 DEF Fields
    <2>6. x \in Fields
        BY <1>10, <2>2, EntriesType DEF payload_manifest
    <2> QED
        BY <1>0, <1>10, <2>2, <2>3, <2>5, <2>6, FirstTwo DEF Title, Protocols
<1> QED
    BY <1>0, <1>1, <1>2, <1>3, <1>4, <1>5, <1>6, <1>7, <1>8, <1>9, <1>10, KindIs

\* Lists that start the same when written are those of one record.
LEMMA RecordsCoded ==
    ASSUME NEW a \in Record, NEW b \in Record
    PROVE  Coded(fields(a), fields(b)) /\ (fields(a) = fields(b) => a = b)
<1>1. PICK f \in Fields, h \in Fields :
         /\ f = fields(a) /\ Len(f) >= 2 /\ f[1] = protocol(Title(a))
         /\ h = fields(b) /\ Len(h) >= 2 /\ h[1] = protocol(Title(b))
    BY Headings
<1>2. Title(a) \in Protocols /\ Title(b) \in Protocols
    BY Headings
<1>3. Alike(f[1], h[1])
    BY <1>1, <1>2, NameType DEF Alike, Spellable
<1>4. CASE a.kind = b.kind
    BY <1>4, KindCoded
<1>5. CASE Title(a) # Title(b)
    <2>1. f[1] # h[1]
        BY <1>1, <1>2, <1>5, NamesDiffer
    <2>2. Len(f) >= 1 /\ Len(h) >= 1
        BY <1>1, LenProperties DEF Fields
    <2> QED
        BY <1>1, <1>3, <2>1, <2>2, FirstDiffers
<1>6. CASE a.kind # b.kind /\ Title(a) = Title(b)
    <2>1. {a.kind, b.kind} = {"success", "failure"}
        BY <1>6, KindIs DEF Title
    <2>2. {f[2], h[2]} = {enumerator("succeeded"), enumerator("failed")}
        BY <1>1, <1>6, <2>1, Headings
    <2>3. /\ enumerator("succeeded") # enumerator("failed")
          /\ enumerator("succeeded") \in Texts /\ enumerator("failed") \in Texts
        BY NamesDiffer, NameType DEF Outcomes, Spellable
    <2>4. Alike(f[2], h[2]) /\ f[2] # h[2]
        BY <2>2, <2>3 DEF Alike
    <2> QED
        BY <1>1, <1>3, <2>4, SecondDiffers
<1> QED
    BY <1>4, <1>5, <1>6

-----------------------------------------------------------------------------
(* The writer *)

\* What is written of a list first, and then.
LEMMA FlattenHead ==
    ASSUME NEW f \in Fields
    PROVE  /\ FlattenSeq(f) = Full(f) /\ FlattenSeq(f) \in Seq(Byte)
           /\ f # <<>> => /\ Head(f) \in Seq(Byte) /\ Tail(f) \in Fields
                          /\ FlattenSeq(f) = Head(f) \o FlattenSeq(Tail(f))
<1>1. ASSUME NEW g \in Fields
      PROVE  FlattenSeq(g) = Full(g) /\ FlattenSeq(g) \in Seq(Byte)
    <2>1. Len(g) \in Nat /\ (g = <<>> <=> Len(g) = 0)
        BY LenProperties, EmptySeq DEF Fields
    <2> QED
        BY <2>1, FlattenIsFull, FullType DEF Fields
<1>2. ASSUME f # <<>>
      PROVE  /\ Head(f) \in Seq(Byte) /\ Tail(f) \in Fields
             /\ FlattenSeq(f) = Head(f) \o FlattenSeq(Tail(f))
    <2>1. PICK u, t : u = Head(f) /\ t = Tail(f)
        OBVIOUS
    <2>2. u \in Seq(Byte) /\ t \in Fields
        BY <1>2, <2>1, HeadTailProperties DEF Fields
    <2>3. <<u>> \in Fields
        BY <2>2 DEF Fields
    <2>4. f = Glue(<<u>>, t)
        <3>1. <<u>> \o t = f
            BY <1>2, <2>1, <2>2 DEF Fields
        <3> QED
            BY <3>1 DEF Glue
    <2>5. Full(f) = Glue(Full(<<u>>), Full(t))
        <3>1. PICK s : s = <<u>>
            OBVIOUS
        <3>2. s \in Seq(Seq(Byte)) /\ t \in Seq(Seq(Byte)) /\ f = Glue(s, t)
            BY <2>2, <2>3, <2>4, <3>1 DEF Fields
        <3>3. Full(f) = Glue(Full(s), Full(t))
            BY <3>2, WrittenGlue
        <3> QED
            BY <3>1, <3>3
    <2>6. Full(<<u>>) = u
        <3>1. PICK s : s = <<u>>
            OBVIOUS
        <3>2. s \in Seq(Seq(Byte)) /\ Len(s) = 1 /\ s[1] = u
            BY <2>3, <3>1 DEF Fields
        <3>3. Written(s, 0 + 1) = Glue(Written(s, 0), s[0 + 1])
            BY <3>2, WrittenNext, 0 \in Nat, 0 < 1
        <3>4. Written(s, 1) = Glue(<<>>, u)
            BY <3>2, <3>3 DEF Written
        <3>5. Written(s, 1) = u
            BY <2>2, <3>4, Glued
        <3> QED
            BY <3>1, <3>2, <3>5 DEF Full
    <2> QED
        BY <1>1, <2>1, <2>2, <2>5, <2>6 DEF Glue
<1> QED
    BY <1>1, <1>2

\* What is written and what is to be written are the record, from its allocation
\* on; a name stands for all of its record.
WriterInv ==
    /\ record \in Records \cup {Absent}
    /\ todo \in Fields /\ stream \in Seq(Byte)
    /\ stage \in {"initializing", "writing"} =>
          /\ record \in Records
          /\ stream \o FlattenSeq(todo) = FlattenSeq(fields(record))
    /\ \A n \in named : n[1] \in Records /\ n[2] = FlattenSeq(fields(n[1]))

\* The list of a record is one of fields, and written out a string of bytes.
LEMMA RecordFields ==
    \A r \in Records : fields(r) \in Fields /\ FlattenSeq(fields(r)) \in Seq(Byte)
BY RecordsAssumption, Headings, FlattenHead

\* Nothing is written at first.
LEMMA WriterInit == Init => WriterInv
BY EmptySeq DEF Init, WriterInv, Fields

\* A record starts with all of its fields to be written.
LEMMA AllocateInv == ASSUME WriterInv, Allocate PROVE WriterInv'
<1>1. PICK r \in Records : record' = r /\ todo' = fields(r) /\ stream' = <<>>
    BY DEF Allocate
<1>2. fields(r) \in Fields /\ FlattenSeq(fields(r)) \in Seq(Byte)
    BY RecordFields
<1>3. <<>> \o FlattenSeq(fields(r)) = FlattenSeq(fields(r)) /\ <<>> \in Seq(Byte)
    BY <1>2, ConcatEmptySeq, EmptySeq
<1>4. named' = named
    BY DEF Allocate
<1> QED
    BY <1>1, <1>2, <1>3, <1>4 DEF WriterInv

\* A field is moved from what is to be written to what is.
LEMMA WriteFieldInv == ASSUME WriterInv, WriteField PROVE WriterInv'
<1>1. PICK f, u, t, s :
         /\ f = todo /\ f # <<>> /\ u = Head(f) /\ t = Tail(f) /\ s = stream
         /\ todo' = t /\ stream' = s \o u
         /\ UNCHANGED <<stage, record, named>>
    BY DEF WriteField
<1>2. f \in Fields /\ s \in Seq(Byte)
    BY <1>1 DEF WriterInv
<1>3. /\ u \in Seq(Byte) /\ t \in Fields /\ FlattenSeq(t) \in Seq(Byte)
      /\ FlattenSeq(f) = u \o FlattenSeq(t)
    BY <1>1, <1>2, FlattenHead
<1>4. s \o u \in Seq(Byte)
    BY <1>2, <1>3, ConcatProperties
<1>5. (s \o u) \o FlattenSeq(t) = s \o FlattenSeq(f)
    BY <1>2, <1>3, ConcatAssociative
<1> QED
    BY <1>1, <1>3, <1>4, <1>5 DEF WriterInv

\* When nothing is left to be written the stream is all of the record.
LEMMA FinishInv == ASSUME WriterInv, finish PROVE WriterInv'
<1>1. stream \o FlattenSeq(todo) = stream
    <2>1. todo = <<>> /\ stream \in Seq(Byte)
        BY DEF finish, WriterInv
    <2>2. FlattenSeq(todo) = <<>>
        BY <2>1, FlattenEmpty
    <2> QED
        BY <2>1, <2>2, ConcatEmptySeq
<1>2. record \in Records /\ stream = FlattenSeq(fields(record))
    BY <1>1 DEF WriterInv, finish
<1>3. /\ named' = named \cup {<<record, stream>>} /\ stage' = "finished"
      /\ UNCHANGED object
    BY DEF finish
<1>4. \A n \in named' : n[1] \in Records /\ n[2] = FlattenSeq(fields(n[1]))
    BY <1>2, <1>3 DEF WriterInv
<1> QED
    BY <1>3, <1>4 DEF WriterInv, object

\* Every other step writes nothing, or drops the record.
LEMMA WriterNext == WriterInv /\ [Next]_vars => WriterInv'
<1> SUFFICES ASSUME WriterInv, [Next]_vars PROVE WriterInv'
    OBVIOUS
<1>1. CASE UNCHANGED vars
    BY <1>1 DEF vars, object, WriterInv
<1>2. CASE Initialize \/ InitializeFails \/ CallFails
    BY <1>2 DEF Initialize, InitializeFails, CallFails, object, WriterInv
<1>3. CASE Destroy
    BY <1>3, EmptySeq DEF Destroy, WriterInv, Fields
<1>4. CASE Stop
    BY <1>1, <1>4 DEF Stop
<1> QED
    BY <1>1, <1>2, <1>3, <1>4, AllocateInv, WriteFieldInv, FinishInv DEF Next

\* Names that are equal are names of the same record.
LEMMA NamesAreRecords == WriterInv => StreamsNameRecords
<1> SUFFICES ASSUME WriterInv, NEW a \in named, NEW b \in named, a[2] = b[2]
             PROVE  a[1] = b[1]
    BY DEF StreamsNameRecords
<1>1. PICK x \in Record, y \in Record : x = a[1] /\ y = b[1]
    BY RecordsAssumption DEF WriterInv
<1>2. FlattenSeq(fields(x)) = FlattenSeq(fields(y))
    BY <1>1 DEF WriterInv
<1>3. fields(x) \in Fields /\ fields(y) \in Fields
    BY Headings
<1>4. Full(fields(x)) = Full(fields(y))
    BY <1>2, <1>3, FlattenHead
<1> QED
    BY <1>1, <1>4, RecordsCoded DEF Coded

-----------------------------------------------------------------------------

\* Whatever fails, every context is freed exactly once, at the latest when its
\* writer is destroyed.
THEOREM ContextsAreOwnedHolds == Spec => []ContextsAreOwned
<1>1. Inv => ContextsAreOwned
    BY DEF Inv, ContextsAreOwned
<1> QED
    BY <1>1, InitInv, NextInv, PTL DEF Spec

\* What is written and what is left to be written are one record at any time.
THEOREM WriterInvariant == Spec => []WriterInv
BY WriterInit, WriterNext, PTL DEF Spec

\* Fields and streams are strings of bytes, for every record and wherever a call
\* fails; contexts are never freed twice.
THEOREM WriterTypeCorrect == Spec => []TypeOK
<1>1. Inv /\ WriterInv => TypeOK
    <2> SUFFICES ASSUME Inv, WriterInv PROVE TypeOK
        OBVIOUS
    <2>1. \A n \in named : n[1] \in Records /\ n[2] \in Seq(Byte)
        BY RecordFields DEF WriterInv
    <2> QED
        BY <2>1 DEF Inv, WriterInv, TypeOK, Fields
<1> QED
    BY <1>1, InitInv, NextInv, WriterInvariant, PTL DEF Spec

\* No two records of any size, of one kind or of different kinds, are hashed as
\* the same stream: an identity is of one record.
THEOREM StreamsNameRecordsHolds == Spec => []StreamsNameRecords
BY NamesAreRecords, WriterInvariant, PTL

=============================================================================
