------------------------ MODULE OpaqueHandles_proofs ------------------------
(***************************************************************************)
(* Proofs about the opaque classes, for every set of objects of the client,*)
(* every memory and input sets of every length.                            *)
(***************************************************************************)
EXTENDS OpaqueHandles, SequenceTheorems, FiniteSetTheorems, TLAPS

-----------------------------------------------------------------------------
(* Counting the places that hold an address *)

\* A place that holds x counts once for x and not for another address.
Weight(x, o) == IF x = o THEN 1 ELSE 0

LEMMA WeightType == \A x, o : Weight(x, o) \in Nat
BY DEF Weight

\* A one-to-one relation relates sets of the same size.
LEMMA SameSize ==
    ASSUME NEW S, NEW T, IsFiniteSet(S), NEW f \in [S -> T],
           \A a, b \in S : f[a] = f[b] => a = b,
           \A t \in T : \E s \in S : f[s] = t
    PROVE  IsFiniteSet(T) /\ Cardinality(T) = Cardinality(S)
<1>1. f \in Bijection(S, T)
    BY DEF Bijection, Injection, Surjection, IsInjective
<1> QED
    BY <1>1, FS_Bijection DEF ExistsBijection

\* Sets without a common element.
LEMMA DisjointSize ==
    ASSUME NEW S, NEW T, IsFiniteSet(S), IsFiniteSet(T), S \cap T = {}
    PROVE  /\ IsFiniteSet(S \cup T)
           /\ Cardinality(S \cup T) = Cardinality(S) + Cardinality(T)
<1>1. Cardinality(S) \in Nat /\ Cardinality(T) \in Nat /\ Cardinality(S \cap T) = 0
    BY FS_CardinalityType, FS_EmptySet
<1>2. /\ IsFiniteSet(S \cup T)
      /\ Cardinality(S \cup T) = Cardinality(S) + Cardinality(T) - Cardinality(S \cap T)
    BY FS_Union, Zenon
<1> QED
    BY <1>1, <1>2

\* The positions of an address in a vector are finitely many.
LEMMA PositionsType ==
    ASSUME NEW S, NEW s \in Seq(S), NEW o
    PROVE  /\ IsFiniteSet(Positions(s, o))
           /\ Cardinality(Positions(s, o)) \in Nat
           /\ Positions(s, o) \subseteq 1..Len(s)
<1>1. Positions(s, o) \in SUBSET (1..Len(s))
    BY DEF Positions
<1>2. IsFiniteSet(1..Len(s))
    BY FS_Interval
<1> QED
    BY <1>1, <1>2, FS_Subset, FS_CardinalityType

\* No element: no position.
LEMMA PositionsEmpty == \A o : Cardinality(Positions(<<>>, o)) = 0
<1>1. \A o : Positions(<<>>, o) = {}
    BY DEF Positions
<1> QED
    BY <1>1, FS_EmptySet

\* One element.
LEMMA PositionsSingle == \A x, o : Cardinality(Positions(<<x>>, o)) = Weight(x, o)
<1>1. \A x, o : x = o => Positions(<<x>>, o) = {1}
    BY DEF Positions
<1>2. \A x, o : x # o => Positions(<<x>>, o) = {}
    BY DEF Positions
<1> QED
    BY <1>1, <1>2, FS_EmptySet, FS_Singleton DEF Weight

\* Two vectors, one after the other.
LEMMA PositionsConcat ==
    ASSUME NEW S, NEW s \in Seq(S), NEW t \in Seq(S), NEW o
    PROVE  Cardinality(Positions(s \o t, o))
                = Cardinality(Positions(s, o)) + Cardinality(Positions(t, o))
<1> DEFINE P == Positions(s, o)
           Q == Positions(t, o)
           shift == [i \in Q |-> i + Len(s)]
           R == {i + Len(s) : i \in Q}
<1>1. Len(s) \in Nat /\ Len(t) \in Nat
    OBVIOUS
<1>2. /\ IsFiniteSet(P) /\ P \subseteq 1..Len(s)
      /\ IsFiniteSet(Q) /\ Q \subseteq 1..Len(t)
    BY PositionsType
<1>3. IsFiniteSet(R) /\ Cardinality(R) = Cardinality(Q)
    <2>1. shift \in [Q -> R]
        OBVIOUS
    <2>2. \A a, b \in Q : shift[a] = shift[b] => a = b
        BY <1>1, <1>2
    <2>3. \A r \in R : \E a \in Q : shift[a] = r
        OBVIOUS
    <2> HIDE DEF shift, R, Q
    <2> QED
        BY <1>2, <2>1, <2>2, <2>3, SameSize
<1>4. P \cap R = {}
    BY <1>1, <1>2
<1>5. Positions(s \o t, o) = P \cup R
    <2>1. \A i \in Positions(s \o t, o) : i \in P \cup R
        <3> TAKE i \in Positions(s \o t, o)
        <3>1. i \in 1..Len(s) + Len(t) /\ (s \o t)[i] = o
            BY DEF Positions
        <3>2. CASE i <= Len(s)
            BY <1>1, <3>1, <3>2 DEF Positions
        <3>3. CASE i > Len(s)
            <4>1. i - Len(s) \in 1..Len(t) /\ t[i - Len(s)] = o
                BY <1>1, <3>1, <3>3
            <4>2. i - Len(s) \in Q /\ (i - Len(s)) + Len(s) = i
                BY <1>1, <3>1, <4>1 DEF Positions
            <4> QED
                BY <4>2
        <3> QED
            BY <1>1, <3>1, <3>2, <3>3
    <2>2. \A i \in P : i \in Positions(s \o t, o)
        BY <1>1 DEF Positions
    <2>3. \A i \in Q : i + Len(s) \in Positions(s \o t, o)
        <3> TAKE i \in Q
        <3>1. i \in 1..Len(t) /\ t[i] = o
            BY DEF Positions
        <3>2. i + Len(s) \in 1..Len(s) + Len(t) /\ ~(i + Len(s) <= Len(s)) /\ (i + Len(s)) - Len(s) = i
            BY <1>1, <3>1
        <3>3. (s \o t)[i + Len(s)] = t[i] /\ DOMAIN (s \o t) = 1..Len(s) + Len(t)
            BY <3>2, ConcatProperties
        <3> QED
            BY <3>1, <3>2, <3>3 DEF Positions
    <2> QED
        BY <2>1, <2>2, <2>3
<1> HIDE DEF P, Q, R
<1>6. Cardinality(P \cup R) = Cardinality(P) + Cardinality(R)
    BY <1>2, <1>3, <1>4, DisjointSize
<1> QED
    BY <1>3, <1>5, <1>6 DEF P, Q

\* push_back adds a place.
LEMMA PositionsAppend ==
    ASSUME NEW S, NEW s \in Seq(S), NEW x \in S, NEW o
    PROVE  Cardinality(Positions(Append(s, x), o)) = Cardinality(Positions(s, o)) + Weight(x, o)
<1>1. Append(s, x) = s \o <<x>> /\ <<x>> \in Seq(S)
    OBVIOUS
<1>2. Cardinality(Positions(s \o <<x>>, o)) = Cardinality(Positions(s, o)) + Cardinality(Positions(<<x>>, o))
    BY <1>1, PositionsConcat
<1> QED
    BY <1>1, <1>2, PositionsSingle

\* The first element and the others.
LEMMA PositionsHead ==
    ASSUME NEW S, NEW s \in Seq(S), s # <<>>, NEW o
    PROVE  Cardinality(Positions(s, o)) = Weight(Head(s), o) + Cardinality(Positions(Tail(s), o))
<1>1. s = <<Head(s)>> \o Tail(s) /\ <<Head(s)>> \in Seq(S) /\ Tail(s) \in Seq(S)
    OBVIOUS
<1>2. Cardinality(Positions(<<Head(s)>> \o Tail(s), o))
        = Cardinality(Positions(<<Head(s)>>, o)) + Cardinality(Positions(Tail(s), o))
    BY <1>1, PositionsConcat
<1> QED
    BY <1>1, <1>2, PositionsSingle

\* The same elements in the opposite order.
LEMMA PositionsReversed ==
    ASSUME NEW S, NEW s \in Seq(S), NEW o
    PROVE  Cardinality(Positions([i \in DOMAIN s |-> s[Len(s) + 1 - i]], o))
                = Cardinality(Positions(s, o))
<1> DEFINE t == [i \in DOMAIN s |-> s[Len(s) + 1 - i]]
           P == Positions(s, o)
           Q == Positions(t, o)
           turn == [i \in P |-> Len(s) + 1 - i]
<1>1. Len(s) \in Nat /\ DOMAIN s = 1..Len(s) /\ DOMAIN t = 1..Len(s)
    OBVIOUS
<1>2. IsFiniteSet(P) /\ P \subseteq 1..Len(s)
    BY PositionsType
<1>3. \A i \in 1..Len(s) : /\ Len(s) + 1 - i \in 1..Len(s)
                           /\ Len(s) + 1 - (Len(s) + 1 - i) = i
                           /\ t[i] = s[Len(s) + 1 - i]
    BY <1>1
<1> HIDE DEF t
<1>4. Q = {i \in 1..Len(s) : s[Len(s) + 1 - i] = o} /\ P = {i \in 1..Len(s) : s[i] = o}
    BY <1>1, <1>3 DEF Positions
<1>5. turn \in [P -> Q] /\ \A a, b \in P : turn[a] = turn[b] => a = b
    BY <1>1, <1>3, <1>4
<1>6. \A q \in Q : \E p \in P : turn[p] = q
    <2> TAKE q \in Q
    <2>1. Len(s) + 1 - q \in P
        BY <1>3, <1>4
    <2> QED
        BY <1>3, <1>4, <2>1
<1> HIDE DEF P, Q, turn
<1>7. Cardinality(Q) = Cardinality(P)
    BY <1>2, <1>5, <1>6, SameSize
<1> QED
    BY <1>7 DEF P, Q, t

\* A vector has a position for each element.
LEMMA PositionsPositive ==
    ASSUME NEW S, NEW s \in Seq(S), NEW i \in DOMAIN s
    PROVE  Cardinality(Positions(s, s[i])) > 0
<1>1. i \in Positions(s, s[i])
    BY DEF Positions
<1>2. IsFiniteSet(Positions(s, s[i])) /\ Cardinality(Positions(s, s[i])) \in Nat
    BY PositionsType
<1>3. Cardinality(Positions(s, s[i])) # 0
    BY <1>1, <1>2, FS_EmptySet
<1> QED
    BY <1>2, <1>3

\* The objects of the client that point to an address.
Pointing(f, o) == {h \in Handle : f[h] = o}

LEMMA PointingType ==
    ASSUME NEW f, NEW o
    PROVE  IsFiniteSet(Pointing(f, o)) /\ Cardinality(Pointing(f, o)) \in Nat
<1>1. Pointing(f, o) \in SUBSET Handle
    BY DEF Pointing
<1> QED
    BY <1>1, HandleAssumption, FS_Subset, FS_CardinalityType

\* An object that changes what it points to.
LEMMA PointingUpdate ==
    ASSUME NEW f, NEW g, NEW k \in Handle, \A h \in Handle : h # k => g[h] = f[h], NEW o
    PROVE  Cardinality(Pointing(g, o))
                = Cardinality(Pointing(f, o)) - Weight(f[k], o) + Weight(g[k], o)
<1> DEFINE P == Pointing(f, o)
           Q == Pointing(g, o)
<1>1. IsFiniteSet(P) /\ Cardinality(P) \in Nat
    BY PointingType
<1>2. k \in P <=> f[k] = o
    BY DEF Pointing
<1>3. CASE g[k] = o
    <2>1. Q = P \cup {k}
        BY <1>3 DEF Pointing
    <2>2. Cardinality(Q) = IF k \in P THEN Cardinality(P) ELSE Cardinality(P) + 1
        BY <1>1, <2>1, FS_AddElement
    <2> HIDE DEF P, Q
    <2>3. Cardinality(Q) = Cardinality(P) - Weight(f[k], o) + Weight(g[k], o)
        BY <1>1, <1>2, <1>3, <2>2 DEF Weight
    <2> QED
        BY <2>3 DEF P, Q
<1>4. CASE g[k] # o
    <2>1. Q = P \ {k}
        BY <1>4 DEF Pointing
    <2>2. Cardinality(Q) = IF k \in P THEN Cardinality(P) - 1 ELSE Cardinality(P)
        BY <1>1, <2>1, FS_RemoveElement
    <2> HIDE DEF P, Q
    <2>3. Cardinality(Q) = Cardinality(P) - Weight(f[k], o) + Weight(g[k], o)
        BY <1>1, <1>2, <1>4, <2>2 DEF Weight
    <2> QED
        BY <2>3 DEF P, Q
<1> QED
    BY <1>3, <1>4

\* Two objects that change what they point to.
LEMMA PointingUpdates ==
    \A k, n \in Handle : \A f, g :
        k # n /\ (\A h \in Handle : h # k /\ h # n => g[h] = f[h])
        => \A o : Cardinality(Pointing(g, o))
                    = Cardinality(Pointing(f, o)) - Weight(f[k], o) + Weight(g[k], o)
                        - Weight(f[n], o) + Weight(g[n], o)
<1> TAKE k \in Handle, n \in Handle
<1> TAKE f, g
<1> HAVE k # n /\ (\A h \in Handle : h # k /\ h # n => g[h] = f[h])
<1> TAKE o
<1> DEFINE m == [h \in Handle |-> IF h = k THEN g[k] ELSE f[h]]
<1>1. /\ \A h \in Handle : h # k => m[h] = f[h]
      /\ \A h \in Handle : h # n => g[h] = m[h]
      /\ m[k] = g[k] /\ m[n] = f[n]
    OBVIOUS
<1> HIDE DEF m
<1>2. Cardinality(Pointing(m, o)) = Cardinality(Pointing(f, o)) - Weight(f[k], o) + Weight(m[k], o)
    BY <1>1, PointingUpdate
<1>3. Cardinality(Pointing(g, o)) = Cardinality(Pointing(m, o)) - Weight(m[n], o) + Weight(g[n], o)
    BY <1>1, PointingUpdate
<1> QED
    BY <1>1, <1>2, <1>3, WeightType, PointingType

\* The members of representations that point to an address.
Holding(H, o) ==
    {m \in {a \in Address : H[a] # Free} \X (1..MaxInputs + 2) :
        m[2] \in Positions(H[m[1]].parts, o)}

LEMMA HoldingType ==
    ASSUME NEW H, NEW o
    PROVE  IsFiniteSet(Holding(H, o)) /\ Cardinality(Holding(H, o)) \in Nat
<1>1. IsFiniteSet(Address) /\ IsFiniteSet(1..MaxInputs + 2)
    BY SizeAssumption, FS_Interval DEF Address
<1>2. IsFiniteSet(Address \X (1..MaxInputs + 2))
    BY <1>1, FS_Product
<1>3. Holding(H, o) \in SUBSET (Address \X (1..MaxInputs + 2))
    BY DEF Holding
<1> QED
    BY <1>2, <1>3, FS_Subset, FS_CardinalityType

\* A representation at a free address adds its parts, and takes them with it
\* when the address is freed.
LEMMA HoldingGrows ==
    ASSUME NEW H, NEW G, NEW a \in Address, H[a] = Free, G[a] # Free,
           \A b \in Address : b # a => G[b] = H[b],
           G[a].parts \in Seq(Address), Len(G[a].parts) <= MaxInputs + 2, NEW o
    PROVE  Cardinality(Holding(G, o))
                = Cardinality(Holding(H, o)) + Cardinality(Positions(G[a].parts, o))
<1> DEFINE parts == G[a].parts
<1> DEFINE Q == Positions(parts, o)
           R == {<<a, i>> : i \in Q}
           pair == [i \in Q |-> <<a, i>>]
<1>1. IsFiniteSet(Q) /\ Q \subseteq 1..Len(parts) /\ Len(parts) \in Nat
    BY PositionsType
<1>2. Q \subseteq 1..MaxInputs + 2
    BY <1>1, SizeAssumption
<1>3. IsFiniteSet(R) /\ Cardinality(R) = Cardinality(Q)
    <2>1. pair \in [Q -> R]
        OBVIOUS
    <2>2. \A i, j \in Q : pair[i] = pair[j] => i = j
        OBVIOUS
    <2>3. \A t \in R : \E i \in Q : pair[i] = t
        OBVIOUS
    <2> HIDE DEF pair, R, Q
    <2> QED
        BY <1>1, <2>1, <2>2, <2>3, SameSize
<1>4. Holding(H, o) \cap R = {}
    BY DEF Holding
<1>5. Holding(G, o) = Holding(H, o) \cup R
    <2>1. \A m \in Holding(G, o) : m \in Holding(H, o) \cup R
        <3> TAKE m \in Holding(G, o)
        <3>1. /\ m \in Address \X (1..MaxInputs + 2) /\ G[m[1]] # Free
              /\ m[2] \in Positions(G[m[1]].parts, o)
            BY DEF Holding
        <3>2. CASE m[1] = a
            BY <3>1, <3>2
        <3>3. CASE m[1] # a
            BY <3>1, <3>3 DEF Holding
        <3> QED
            BY <3>2, <3>3
    <2>2. \A m \in Holding(H, o) : m \in Holding(G, o)
        BY DEF Holding
    <2>3. \A m \in R : m \in Holding(G, o)
        BY <1>2 DEF Holding
    <2> QED
        BY <2>1, <2>2, <2>3
<1> HIDE DEF R, Q
<1>6. Cardinality(Holding(H, o) \cup R) = Cardinality(Holding(H, o)) + Cardinality(R)
    BY <1>3, <1>4, HoldingType, DisjointSize
<1> QED
    BY <1>3, <1>5, <1>6 DEF Q

-----------------------------------------------------------------------------
(* The invariant *)

\* What a representation of each class is made of, in memory H: objects of the
\* classes its class has for members, with the values they give it.
MadeAlone(H, r) ==
    r.parts = <<>> /\ r.value \in (IF r.kind = "input" THEN Input ELSE Architecture)
MadeOfInputs(H, r) ==
    /\ Len(r.parts) <= MaxInputs
    /\ \A i \in DOMAIN r.parts : H[r.parts[i]].kind = "input"
    /\ r.value = [i \in DOMAIN r.parts |-> H[r.parts[i]].value]
MadeOfTwo(H, r) ==
    /\ Len(r.parts) = 2
    /\ H[r.parts[1]].kind = "input_set"
    /\ H[r.parts[2]].kind = "architectures"
    /\ r.value = [inputs |-> H[r.parts[1]].value, architectures |-> H[r.parts[2]].value]
MadeOfRequest(H, r) ==
    /\ Len(r.parts) = 1
    /\ H[r.parts[1]].kind = "request"
    /\ \E e \in Evidence : r.value = [request |-> H[r.parts[1]].value, evidence |-> e]

WellMade(H, r) ==
    /\ \A i \in DOMAIN r.parts : H[r.parts[i]] # Free
    /\ r.kind \in {"input", "architectures"} => MadeAlone(H, r)
    /\ r.kind = "input_set" => MadeOfInputs(H, r)
    /\ r.kind = "request" => MadeOfTwo(H, r)
    /\ r.kind = "result" => MadeOfRequest(H, r)

PartsInv == \A o \in Alive : WellMade(heap, heap[o])

\* What a running factory holds: the inputs of admit, or the objects of seal.
LocalsTyped(H, s) ==
    \/ /\ Len(s) <= MaxInputs
       /\ \A i \in DOMAIN s : H[s[i]].kind = "input"
    \/ Len(s) = 1 /\ H[s[1]].kind \in {"input_set", "architectures"}
    \/ Len(s) = 2 /\ H[s[1]].kind = "input_set" /\ H[s[2]].kind = "architectures"

LocalsInv == LocalsTyped(heap, locals)

\* The owners of an address, by where they are.
OnHandles(o) == Cardinality(Pointing(handle, o))
OnParts(o) == Cardinality(Holding(heap, o))
OnLocals(o) == Cardinality(Positions(locals, o))
OnReleasing(o) == Cardinality(Positions(releasing, o))

Counted ==
    \A o \in Address :
        /\ count[o] = OnHandles(o) + OnParts(o) + OnLocals(o) + OnReleasing(o)
        /\ o \in Alive <=> count[o] > 0

\* The inductive invariant.
Inv == TypeOK /\ Counted /\ PartsInv /\ LocalsInv

LEMMA OwnersSum ==
    \A o : Owners(o) = OnHandles(o) + OnParts(o) + OnLocals(o) + OnReleasing(o)
BY DEF Owners, OnHandles, OnParts, OnLocals, OnReleasing, Pointing, Holding, Alive

LEMMA OwnersType ==
    ASSUME TypeOK, NEW o
    PROVE  /\ OnHandles(o) \in Nat /\ OnParts(o) \in Nat
           /\ OnLocals(o) \in Nat /\ OnReleasing(o) \in Nat
BY PointingType, HoldingType, PositionsType DEF TypeOK, OnHandles, OnParts, OnLocals, OnReleasing

\* What an object of a factory, or one being destroyed, points to is alive.
LEMMA OwnedIsAlive ==
    ASSUME TypeOK, Counted
    PROVE  /\ \A i \in DOMAIN locals : locals[i] \in Alive
           /\ \A i \in DOMAIN releasing : releasing[i] \in Alive
<1>1. \A i \in DOMAIN locals : locals[i] \in Alive
    <2> TAKE i \in DOMAIN locals
    <2>1. locals \in Seq(Address)
        BY DEF TypeOK
    <2>2. PICK o \in Address : o = locals[i]
        BY <2>1
    <2>3. OnLocals(o) > 0
        BY <2>1, <2>2, PositionsPositive DEF OnLocals
    <2>4. /\ OnHandles(o) \in Nat /\ OnParts(o) \in Nat
          /\ OnLocals(o) \in Nat /\ OnReleasing(o) \in Nat
        BY OwnersType
    <2> QED
        BY <2>2, <2>3, <2>4 DEF Counted
<1>2. \A i \in DOMAIN releasing : releasing[i] \in Alive
    <2> TAKE i \in DOMAIN releasing
    <2>1. releasing \in Seq(Address)
        BY DEF TypeOK
    <2>2. PICK o \in Address : o = releasing[i]
        BY <2>1
    <2>3. OnReleasing(o) > 0
        BY <2>1, <2>2, PositionsPositive DEF OnReleasing
    <2>4. /\ OnHandles(o) \in Nat /\ OnParts(o) \in Nat
          /\ OnLocals(o) \in Nat /\ OnReleasing(o) \in Nat
        BY OwnersType
    <2> QED
        BY <2>2, <2>3, <2>4 DEF Counted
<1> QED
    BY <1>1, <1>2

\* A representation stays well made while its parts stay what they are.
LEMMA StaysWellMade ==
    ASSUME NEW H, NEW G, NEW r, WellMade(H, r), r.parts \in Seq(Address),
           \A i \in DOMAIN r.parts : G[r.parts[i]] = H[r.parts[i]]
    PROVE  WellMade(G, r)
<1>1. /\ Len(r.parts) = 1 => G[r.parts[1]] = H[r.parts[1]]
      /\ Len(r.parts) = 2 => G[r.parts[1]] = H[r.parts[1]] /\ G[r.parts[2]] = H[r.parts[2]]
    <2>1. DOMAIN r.parts = 1..Len(r.parts)
        OBVIOUS
    <2> QED
        BY <2>1
<1>2. \A i \in DOMAIN r.parts : G[r.parts[i]] # Free
    BY DEF WellMade
<1>3. MadeAlone(H, r) => MadeAlone(G, r)
    BY DEF MadeAlone
<1>4. MadeOfInputs(H, r) => MadeOfInputs(G, r)
    <2>1. [i \in DOMAIN r.parts |-> G[r.parts[i]].value]
            = [i \in DOMAIN r.parts |-> H[r.parts[i]].value]
        OBVIOUS
    <2> QED
        BY <2>1 DEF MadeOfInputs
<1>5. MadeOfTwo(H, r) => MadeOfTwo(G, r)
    BY <1>1 DEF MadeOfTwo
<1>6. MadeOfRequest(H, r) => MadeOfRequest(G, r)
    BY <1>1 DEF MadeOfRequest
<1> QED
    BY <1>2, <1>3, <1>4, <1>5, <1>6 DEF WellMade

\* A factory's objects stay what they are.
LEMMA LocalsStay ==
    ASSUME NEW H, NEW G, NEW s \in Seq(Address), LocalsTyped(H, s),
           \A i \in DOMAIN s : G[s[i]] = H[s[i]]
    PROVE  LocalsTyped(G, s)
<1>1. DOMAIN s = 1..Len(s)
    OBVIOUS
<1>2. /\ Len(s) = 1 => G[s[1]] = H[s[1]]
      /\ Len(s) = 2 => G[s[1]] = H[s[1]] /\ G[s[2]] = H[s[2]]
    BY <1>1
<1> QED
    BY <1>2 DEF LocalsTyped

\* The memory is not touched.
LEMMA HeapKept ==
    ASSUME UNCHANGED heap
    PROVE  /\ PartsInv => PartsInv'
           /\ \A o : OnParts(o)' = OnParts(o)
           /\ Alive' = Alive
BY DEF PartsInv, OnParts, Alive

\* Objects are counted while the places that hold an address and its use count
\* change by the same amount.
LEMMA CountKept ==
    ASSUME TypeOK, TypeOK', Counted, UNCHANGED heap, NEW x, x \in Address => x \in Alive,
           count' = Retained(count, x),
           \A o \in Address :
                OnHandles(o)' + OnLocals(o)' + OnReleasing(o)'
                    = OnHandles(o) + OnLocals(o) + OnReleasing(o) + Weight(x, o)
    PROVE  Counted'
<1> SUFFICES ASSUME NEW o \in Address
             PROVE  /\ count'[o] = OnHandles(o)' + OnParts(o)' + OnLocals(o)' + OnReleasing(o)'
                    /\ o \in Alive' <=> count'[o] > 0
    BY DEF Counted
<1>1. OnParts(o)' = OnParts(o) /\ Alive' = Alive
    BY HeapKept
<1>2. count'[o] = count[o] + Weight(x, o)
    BY DEF Retained, Weight, TypeOK
<1>3. /\ OnHandles(o) \in Nat /\ OnParts(o) \in Nat
      /\ OnLocals(o) \in Nat /\ OnReleasing(o) \in Nat
    BY OwnersType
<1>4. /\ OnHandles(o)' \in Nat /\ OnLocals(o)' \in Nat /\ OnReleasing(o)' \in Nat
    BY PointingType, PositionsType DEF TypeOK, OnHandles, OnLocals, OnReleasing
<1>5. Weight(x, o) \in Nat /\ (Weight(x, o) > 0 => o \in Alive)
    BY DEF Weight
<1> QED
    BY <1>1, <1>2, <1>3, <1>4, <1>5 DEF Counted

LEMMA RetainedType ==
    ASSUME NEW c \in [Address -> Nat], NEW x
    PROVE  Retained(c, x) \in [Address -> Nat]
BY DEF Retained

\* A pointer that is dropped is one place, unless it is null.
LEMMA DroppedPlaces ==
    ASSUME NEW x
    PROVE  /\ Dropped(x) \in Seq(Address)
           /\ \A o \in Address : Cardinality(Positions(Dropped(x), o)) = Weight(x, o)
<1>1. CASE x \in Address
    BY <1>1, PositionsSingle DEF Dropped
<1>2. CASE x \notin Address
    BY <1>2, PositionsEmpty DEF Dropped, Weight
<1> QED
    BY <1>1, <1>2

\* Places hold an address, or nothing that is counted.
LEMMA MarksAreNoAddress == Absent \notin Address /\ MovedFrom \notin Address
BY MarkAssumption

\* At first nothing is alive and nothing points anywhere.
LEMMA InitInv == Init => Inv
<1> SUFFICES ASSUME Init PROVE Inv
    OBVIOUS
<1>1. TypeOK
    BY MarksAreNoAddress DEF Init, TypeOK
<1>2. Alive = {}
    BY DEF Init, Alive
<1>3. Counted
    <2> SUFFICES ASSUME NEW o \in Address
                 PROVE  OnHandles(o) = 0 /\ OnParts(o) = 0 /\ OnLocals(o) = 0 /\ OnReleasing(o) = 0
        BY <1>2 DEF Counted, Init
    <2>1. Pointing(handle, o) = {}
        BY MarksAreNoAddress DEF Init, Pointing
    <2>2. Holding(heap, o) = {}
        BY DEF Init, Holding
    <2> QED
        BY <2>1, <2>2, FS_EmptySet, PositionsEmpty
           DEF Init, OnHandles, OnParts, OnLocals, OnReleasing
<1>4. PartsInv
    BY <1>2 DEF PartsInv
<1>5. LocalsInv
    BY SizeAssumption DEF Init, LocalsInv, LocalsTyped
<1> QED
    BY <1>1, <1>3, <1>4, <1>5 DEF Inv

-----------------------------------------------------------------------------
(* Special member functions and accessors *)

\* The places of the client that point to an address, when one or two change.
LEMMA OnHandlesPoint ==
    \A o : /\ OnHandles(o) = Cardinality(Pointing(handle, o))
           /\ OnHandles(o)' = Cardinality(Pointing(handle', o))
BY DEF OnHandles, Pointing

LEMMA HandleChanges ==
    \A h \in Handle :
        (\A k \in Handle : k # h => handle'[k] = handle[k])
        => \A o : OnHandles(o)' = OnHandles(o) - Weight(handle[h], o) + Weight(handle'[h], o)
<1>1. \A h \in Handle : \A f, g :
        (\A k \in Handle : k # h => g[k] = f[k])
        => \A o : Cardinality(Pointing(g, o))
                    = Cardinality(Pointing(f, o)) - Weight(f[h], o) + Weight(g[h], o)
    BY PointingUpdate
<1> QED
    BY <1>1, OnHandlesPoint

LEMMA HandlesChange ==
    \A h, g \in Handle :
        h # g /\ (\A k \in Handle : k # h /\ k # g => handle'[k] = handle[k])
        => \A o : OnHandles(o)' = OnHandles(o) - Weight(handle[h], o) + Weight(handle'[h], o)
                                    - Weight(handle[g], o) + Weight(handle'[g], o)
BY PointingUpdates, OnHandlesPoint

\* An object of the client is assigned, or made where there was none, and what
\* it pointed to is dropped.
LEMMA AssignInv ==
    ASSUME Inv, UNCHANGED <<heap, locals>>, releasing = <<>>,
           NEW h \in Handle, NEW x \in Address \cup {Absent, MovedFrom},
           x \in Address => x \in Alive /\ heap[x].kind = KindOf[h],
           handle' = [handle EXCEPT ![h] = x],
           count' = Retained(count, x),
           releasing' = Dropped(handle[h])
    PROVE  Inv'
<1>1. TypeOK /\ Counted /\ PartsInv /\ LocalsInv
    BY DEF Inv
<1>2. handle'[h] = x /\ \A k \in Handle : k # h => handle'[k] = handle[k]
    BY <1>1 DEF TypeOK
<1>3. Alive' = Alive
    BY HeapKept
<1>4. TypeOK'
    BY <1>1, <1>2, <1>3, RetainedType, DroppedPlaces DEF TypeOK
<1>5. \A o \in Address :
        /\ OnHandles(o)' = OnHandles(o) - Weight(handle[h], o) + Weight(x, o)
        /\ OnLocals(o)' = OnLocals(o)
        /\ OnReleasing(o)' = Weight(handle[h], o)
        /\ OnReleasing(o) = 0
    <2> TAKE o \in Address
    <2>1. OnHandles(o)' = OnHandles(o) - Weight(handle[h], o) + Weight(handle'[h], o)
        BY <1>2, HandleChanges
    <2> QED
        BY <1>2, <2>1, DroppedPlaces, PositionsEmpty DEF OnLocals, OnReleasing
<1>6. \A o \in Address :
        OnHandles(o)' + OnLocals(o)' + OnReleasing(o)'
            = OnHandles(o) + OnLocals(o) + OnReleasing(o) + Weight(x, o)
    BY <1>1, <1>5, OwnersType, WeightType
<1>7. Counted'
    BY <1>1, <1>4, <1>6, CountKept
<1>8. LocalsInv'
    BY <1>1 DEF LocalsInv
<1> QED
    BY <1>1, <1>4, <1>7, <1>8, HeapKept DEF Inv

\* An object of the client is moved into another.
LEMMA MoveInv ==
    ASSUME Inv, UNCHANGED <<heap, locals, count>>, releasing = <<>>,
           NEW h \in Handle, NEW g \in Handle, h # g, KindOf[h] = KindOf[g],
           handle' \in [Handle -> Address \cup {Absent, MovedFrom}],
           handle'[h] = handle[g], handle'[g] = MovedFrom,
           \A k \in Handle : k # h /\ k # g => handle'[k] = handle[k],
           releasing' = Dropped(handle[h])
    PROVE  Inv'
<1>1. TypeOK /\ Counted /\ PartsInv /\ LocalsInv
    BY DEF Inv
<1>2. Alive' = Alive
    BY HeapKept
<1>3. TypeOK'
    BY <1>1, <1>2, MarksAreNoAddress, DroppedPlaces DEF TypeOK
<1>4. \A o \in Address :
        /\ OnHandles(o)' = OnHandles(o) - Weight(handle[h], o) + Weight(handle[g], o)
                                - Weight(handle[g], o) + Weight(MovedFrom, o)
        /\ OnLocals(o)' = OnLocals(o)
        /\ OnReleasing(o)' = Weight(handle[h], o)
        /\ OnReleasing(o) = 0
        /\ Weight(MovedFrom, o) = 0
    <2> TAKE o \in Address
    <2>1. Weight(MovedFrom, o) = 0
        BY MarksAreNoAddress DEF Weight
    <2>2. OnHandles(o)' = OnHandles(o) - Weight(handle[h], o) + Weight(handle'[h], o)
                                - Weight(handle[g], o) + Weight(handle'[g], o)
        BY HandlesChange
    <2> QED
        BY <2>1, <2>2, DroppedPlaces, PositionsEmpty DEF OnLocals, OnReleasing
<1>5. \A o \in Address :
        OnHandles(o)' + OnLocals(o)' + OnReleasing(o)'
            = OnHandles(o) + OnLocals(o) + OnReleasing(o) + Weight(Absent, o)
    BY <1>1, <1>4, OwnersType, WeightType, MarksAreNoAddress DEF Weight
<1>6. Counted'
    <2>1. count' = Retained(count, Absent)
        BY MarksAreNoAddress DEF Retained
    <2> QED
        BY <1>1, <1>3, <1>5, <2>1, MarksAreNoAddress, CountKept
<1>7. LocalsInv'
    BY <1>1 DEF LocalsInv
<1> QED
    BY <1>1, <1>3, <1>6, <1>7, HeapKept DEF Inv

\* A mark is not counted.
LEMMA MarkRetained == ASSUME NEW x \in {Absent, MovedFrom} PROVE Retained(count, x) = count /\ Dropped(x) = <<>>
BY MarksAreNoAddress DEF Retained, Dropped

\* The copies.
LEMMA CopyConstructInv ==
    ASSUME Inv, NEW h \in Handle, NEW g \in Handle, CopyConstruct(h, g) PROVE Inv'
<1>1. handle[g] \in Address \cup {Absent, MovedFrom}
    BY DEF Inv, TypeOK
<1>2. handle[g] \in Address => handle[g] \in Alive /\ heap[handle[g]].kind = KindOf[h]
    BY DEF Inv, TypeOK, CopyConstruct
<1>3. releasing' = Dropped(handle[h]) /\ releasing = <<>>
    BY MarkRetained DEF CopyConstruct, Running
<1> QED
    BY <1>1, <1>2, <1>3, AssignInv DEF CopyConstruct

LEMMA CopyAssignInv ==
    ASSUME Inv, NEW h \in Handle, NEW g \in Handle, CopyAssign(h, g) PROVE Inv'
<1>1. handle[g] \in Address \cup {Absent, MovedFrom}
    BY DEF Inv, TypeOK
<1>2. handle[g] \in Address => handle[g] \in Alive /\ heap[handle[g]].kind = KindOf[h]
    BY DEF Inv, TypeOK, CopyAssign
<1> QED
    BY <1>1, <1>2, AssignInv DEF CopyAssign, CopyAssigned, Running

\* A part is alive, and an object of its class.
LEMMA PartIsAlive ==
    ASSUME TypeOK, PartsInv, NEW o \in Alive, NEW i \in DOMAIN heap[o].parts
    PROVE  heap[o].parts[i] \in Alive
<1>1. heap[o].parts \in Seq(Address)
    BY MarkAssumption DEF TypeOK, Alive, Representation
<1>2. WellMade(heap, heap[o])
    BY DEF PartsInv
<1>3. heap[heap[o].parts[i]] # Free
    BY <1>2 DEF WellMade
<1> QED
    BY <1>1, <1>3 DEF Alive

LEMMA CopyPartInv ==
    ASSUME Inv, NEW h \in Handle, NEW g \in Handle, CopyPart(h, g) PROVE Inv'
<1>1. PICK i \in DOMAIN heap[handle[g]].parts :
        /\ heap[heap[handle[g]].parts[i]].kind = KindOf[h]
        /\ handle' = [handle EXCEPT ![h] = heap[handle[g]].parts[i]]
        /\ count' = Retained(count, heap[handle[g]].parts[i])
    BY DEF CopyPart
<1>2. handle[g] \in Alive
    BY DEF Inv, TypeOK, CopyPart
<1>3. PICK x : x = heap[handle[g]].parts[i]
    OBVIOUS
<1>4. x \in Alive /\ x \in Address /\ heap[x].kind = KindOf[h]
    BY <1>1, <1>2, <1>3, PartIsAlive DEF Inv, Alive
<1>5. releasing' = Dropped(handle[h]) /\ releasing = <<>>
    BY MarkRetained DEF CopyPart, Running
<1> QED
    BY <1>1, <1>3, <1>4, <1>5, AssignInv DEF CopyPart

\* An object is destroyed, or moved into a call that throws.
LEMMA DestroyInv == ASSUME Inv, NEW h \in Handle, Destroy(h) PROVE Inv'
<1>1. count' = Retained(count, Absent)
    BY MarkRetained DEF Destroy
<1> QED
    BY <1>1, MarksAreNoAddress, AssignInv DEF Destroy, Running

LEMMA ResultThrowsInv == ASSUME Inv, NEW g \in Handle, ResultThrows(g) PROVE Inv'
<1>1. count' = Retained(count, MovedFrom) /\ releasing' = Dropped(handle[g])
    BY MarkRetained DEF ResultThrows, Dropped
<1> QED
    BY <1>1, MarksAreNoAddress, AssignInv DEF ResultThrows, Running

\* The moves.
LEMMA MovedHandles ==
    ASSUME TypeOK, NEW h \in Handle, NEW g \in Handle, h # g,
           handle' = [handle EXCEPT ![h] = handle[g], ![g] = MovedFrom]
    PROVE  /\ handle' \in [Handle -> Address \cup {Absent, MovedFrom}]
           /\ handle'[h] = handle[g] /\ handle'[g] = MovedFrom
           /\ \A k \in Handle : k # h /\ k # g => handle'[k] = handle[k]
BY DEF TypeOK

LEMMA MoveConstructInv ==
    ASSUME Inv, NEW h \in Handle, NEW g \in Handle, MoveConstruct(h, g) PROVE Inv'
<1>1. h # g /\ handle' = [handle EXCEPT ![h] = handle[g], ![g] = MovedFrom]
    BY DEF MoveConstruct, AfterMove
<1>2. releasing' = Dropped(handle[h]) /\ releasing = <<>>
    BY MarkRetained DEF MoveConstruct, Running
<1>3. TypeOK /\ KindOf[h] = KindOf[g] /\ UNCHANGED <<heap, locals, count>>
    BY DEF MoveConstruct, Inv
<1> QED
    BY <1>1, <1>2, <1>3, MovedHandles, MoveInv

LEMMA MoveAssignInv ==
    ASSUME Inv, NEW h \in Handle, NEW g \in Handle, MoveAssign(h, g) PROVE Inv'
<1>1. h # g /\ handle' = [handle EXCEPT ![h] = handle[g], ![g] = MovedFrom]
    BY DEF MoveAssign, AfterMove
<1>2. releasing' = Dropped(handle[h]) /\ releasing = <<>>
    BY DEF MoveAssign, Running
<1>3. TypeOK /\ KindOf[h] = KindOf[g] /\ UNCHANGED <<heap, locals, count>>
    BY DEF MoveAssign, Inv
<1> QED
    BY <1>1, <1>2, <1>3, MovedHandles, MoveInv

-----------------------------------------------------------------------------
(* Factories *)

\* r is a new representation, at an address where none was.
AllocatedAt(a, r) ==
    /\ a \in Address /\ a \notin Alive /\ heap[a] = Free
    /\ r \in Representation /\ r # Free
    /\ heap' \in [Address -> Representation \cup {Free}]
    /\ heap'[a] = r
    /\ \A b \in Address : b # a => heap'[b] = heap[b]
    /\ Alive' = Alive \cup {a}

LEMMA Allocation ==
    ASSUME TypeOK, HasMemory, NEW kind \in Kind, NEW v \in Value, NEW parts \in Seq(Address),
           heap' = Allocated(kind, v, parts)
    PROVE  AllocatedAt(Fresh, [kind |-> kind, value |-> v, parts |-> parts])
<1>1. \E o \in Address : o \notin Alive
    BY DEF HasMemory, Alive
<1>2. PICK a \in Address : a = Fresh /\ a \notin Alive
    BY <1>1 DEF Fresh
<1> DEFINE r == [kind |-> kind, value |-> v, parts |-> parts]
<1>3. r \in Representation /\ r # Free
    BY MarkAssumption DEF Representation
<1>4. heap' = [heap EXCEPT ![a] = r]
    BY <1>2 DEF Allocated
<1> HIDE DEF r
<1>5. heap[a] = Free
    BY <1>2 DEF Alive
<1>6. /\ heap' \in [Address -> Representation \cup {Free}]
      /\ \A b \in Address : b # a => heap'[b] = heap[b]
      /\ heap'[a] = r
    BY <1>3, <1>4 DEF TypeOK
<1>7. Alive' = Alive \cup {a}
    BY <1>3, <1>5, <1>6 DEF Alive
<1> QED
    BY <1>2, <1>3, <1>5, <1>6, <1>7 DEF r, AllocatedAt

\* What is alive stays well made beside a new representation that is.
LEMMA AllocatedParts ==
    ASSUME TypeOK, PartsInv, NEW a \in Address, a \notin Alive, Alive' = Alive \cup {a},
           \A b \in Address : b # a => heap'[b] = heap[b], WellMade(heap', heap'[a])
    PROVE  PartsInv'
<1> SUFFICES ASSUME NEW o \in Alive' PROVE WellMade(heap', heap'[o])
    BY DEF PartsInv
<1>1. CASE o = a
    BY <1>1
<1>2. CASE o # a
    <2>1. o \in Alive /\ o \in Address /\ heap'[o] = heap[o]
        BY <1>2 DEF Alive
    <2>2. heap[o].parts \in Seq(Address)
        BY <2>1 DEF TypeOK, Alive, Representation
    <2>3. \A i \in DOMAIN heap[o].parts : heap'[heap[o].parts[i]] = heap[heap[o].parts[i]]
        <3> TAKE i \in DOMAIN heap[o].parts
        <3>1. heap[o].parts[i] \in Alive /\ heap[o].parts[i] \in Address
            BY <2>1, PartIsAlive DEF Alive
        <3> QED
            BY <3>1
    <2>4. WellMade(heap, heap[o])
        BY <2>1 DEF PartsInv
    <2> QED
        BY <2>1, <2>2, <2>3, <2>4, StaysWellMade
<1> QED
    BY <1>1, <1>2

\* Its parts are counted at their new place, and the address at its first owner.
LEMMA AllocatedPlaces ==
    ASSUME TypeOK, NEW a \in Address, heap[a] = Free, heap'[a] # Free,
           \A b \in Address : b # a => heap'[b] = heap[b],
           heap'[a].parts \in Seq(Address), Len(heap'[a].parts) <= MaxInputs + 2
    PROVE  \A o : OnParts(o)' = OnParts(o) + Cardinality(Positions(heap'[a].parts, o))
<1>1. \A H, G :
        /\ H[a] = Free /\ G[a] # Free
        /\ \A b \in Address : b # a => G[b] = H[b]
        /\ G[a].parts \in Seq(Address) /\ Len(G[a].parts) <= MaxInputs + 2
        => \A o : Cardinality(Holding(G, o))
                    = Cardinality(Holding(H, o)) + Cardinality(Positions(G[a].parts, o))
    BY HoldingGrows
<1>2. \A o : Cardinality(Holding(heap', o))
                = Cardinality(Holding(heap, o)) + Cardinality(Positions(heap'[a].parts, o))
    BY <1>1
<1>3. \A o : OnParts(o) = Cardinality(Holding(heap, o))
             /\ OnParts(o)' = Cardinality(Holding(heap', o))
    BY DEF OnParts, Holding
<1> QED
    BY <1>2, <1>3

\* The count of a new representation is that of its first owner.
LEMMA AllocatedCount ==
    ASSUME TypeOK, Counted, TypeOK', NEW a \in Address, a \notin Alive, Alive' = Alive \cup {a},
           NEW x, x \in Address => x \in Alive,
           count' = [Retained(count, x) EXCEPT ![a] = 1],
           \A o \in Address :
                OnHandles(o)' + OnParts(o)' + OnLocals(o)' + OnReleasing(o)'
                    = OnHandles(o) + OnParts(o) + OnLocals(o) + OnReleasing(o)
                        + Weight(x, o) + Weight(a, o)
    PROVE  Counted'
<1> SUFFICES ASSUME NEW o \in Address
             PROVE  /\ count'[o] = OnHandles(o)' + OnParts(o)' + OnLocals(o)' + OnReleasing(o)'
                    /\ o \in Alive' <=> count'[o] > 0
    BY DEF Counted
<1>1. /\ OnHandles(o) \in Nat /\ OnParts(o) \in Nat
      /\ OnLocals(o) \in Nat /\ OnReleasing(o) \in Nat
    BY OwnersType
<1>2. /\ count[o] = OnHandles(o) + OnParts(o) + OnLocals(o) + OnReleasing(o)
      /\ o \in Alive <=> count[o] > 0
      /\ count[o] \in Nat
    BY DEF Counted, TypeOK
<1>3. CASE o = a
    <2>1. count'[o] = 1 /\ count[o] = 0 /\ o \in Alive'
        BY <1>2, <1>3, RetainedType DEF TypeOK
    <2>2. Weight(x, o) = 0 /\ Weight(a, o) = 1
        BY <1>3 DEF Weight
    <2> QED
        BY <1>1, <1>2, <2>1, <2>2
<1>4. CASE o # a
    <2>1. count'[o] = count[o] + Weight(x, o)
        BY <1>4 DEF Retained, Weight, TypeOK
    <2>2. Weight(a, o) = 0 /\ (Weight(x, o) > 0 => o \in Alive) /\ Weight(x, o) \in Nat
        BY <1>4 DEF Weight
    <2> QED
        BY <1>1, <1>2, <1>4, <2>1, <2>2
<1> QED
    BY <1>3, <1>4

\* Places that move from one sum to another.
LEMMA MovedSum ==
    ASSUME NEW h \in Nat, NEW l \in Nat, NEW m \in Nat,
           NEW o, NEW x, NEW a, TypeOK,
           h + l + m = OnHandles(o) + OnLocals(o) + Weight(x, o) + Weight(a, o)
    PROVE  h + (OnParts(o) + m) + l + OnReleasing(o)
            = OnHandles(o) + OnParts(o) + OnLocals(o) + OnReleasing(o) + Weight(x, o) + Weight(a, o)
BY OwnersType, WeightType

\* A factory makes a representation r of objects that are alive, at address a,
\* moves places and copies x.
Allocates(a, r, x) ==
    /\ AllocatedAt(a, r)
    /\ WellMade(heap, r) /\ Len(r.parts) <= MaxInputs + 2
    /\ handle' \in [Handle -> Address \cup {Absent, MovedFrom}]
    /\ \A h \in Handle : \/ handle'[h] \in {handle[h], MovedFrom}
                         \/ handle'[h] = a /\ KindOf[h] = r.kind
    /\ locals' \in Seq(Address)
    /\ UNCHANGED releasing
    /\ x \in Address => x \in Alive
    /\ count' = [Retained(count, x) EXCEPT ![a] = 1]
    /\ \A o \in Address :
            OnHandles(o)' + OnLocals(o)' + Cardinality(Positions(r.parts, o))
                = OnHandles(o) + OnLocals(o) + Weight(x, o) + Weight(a, o)

LEMMA AllocateInv ==
    ASSUME Inv, LocalsInv', NEW a, NEW r, NEW x, Allocates(a, r, x)
    PROVE  Inv'
<1>1. TypeOK /\ Counted /\ PartsInv
    BY DEF Inv
<1>2. /\ a \in Address /\ a \notin Alive /\ heap[a] = Free
      /\ heap' \in [Address -> Representation \cup {Free}]
      /\ heap'[a] = r /\ r # Free /\ r.parts \in Seq(Address)
      /\ \A b \in Address : b # a => heap'[b] = heap[b]
      /\ Alive' = Alive \cup {a}
    BY DEF Allocates, AllocatedAt, Representation
<1>3. TypeOK'
    <2>1. count' \in [Address -> Nat]
        BY <1>1, <1>2, RetainedType DEF TypeOK, Allocates
    <2>2. \A h \in Handle : handle'[h] \in Address =>
            handle'[h] \in Alive' /\ heap'[handle'[h]].kind = KindOf[h]
        BY <1>1, <1>2, MarksAreNoAddress DEF TypeOK, Allocates
    <2>3. releasing' \in Seq(Address)
        BY <1>1 DEF TypeOK, Allocates
    <2>4. handle' \in [Handle -> Address \cup {Absent, MovedFrom}] /\ locals' \in Seq(Address)
        BY DEF Allocates
    <2> QED
        BY <1>2, <2>1, <2>2, <2>3, <2>4 DEF TypeOK
<1>4. WellMade(heap', heap'[a])
    <2>1. \A i \in DOMAIN r.parts : heap'[r.parts[i]] = heap[r.parts[i]]
        <3> TAKE i \in DOMAIN r.parts
        <3>1. PICK o : o = r.parts[i]
            OBVIOUS
        <3>2. heap[o] # Free
            BY <3>1 DEF WellMade, Allocates
        <3>3. o \in Address
            BY <1>2, <3>1
        <3>4. heap'[o] = heap[o]
            BY <1>2, <3>2, <3>3
        <3> QED
            BY <3>1, <3>4
    <2>2. WellMade(heap, r)
        BY DEF Allocates
    <2> QED
        BY <1>2, <2>1, <2>2, StaysWellMade
<1>5. PartsInv'
    BY <1>1, <1>2, <1>4, AllocatedParts
<1>6. \A o : OnParts(o)' = OnParts(o) + Cardinality(Positions(r.parts, o))
    <2>1. Len(r.parts) <= MaxInputs + 2
        BY DEF Allocates
    <2> QED
        BY <1>1, <1>2, <2>1, AllocatedPlaces
<1>7. \A o \in Address :
        OnHandles(o)' + OnParts(o)' + OnLocals(o)' + OnReleasing(o)'
            = OnHandles(o) + OnParts(o) + OnLocals(o) + OnReleasing(o) + Weight(x, o) + Weight(a, o)
    <2> TAKE o \in Address
    <2>1. OnReleasing(o)' = OnReleasing(o)
        BY DEF OnReleasing, Allocates
    <2>2. /\ OnHandles(o) \in Nat /\ OnParts(o) \in Nat
          /\ OnLocals(o) \in Nat /\ OnReleasing(o) \in Nat
        BY <1>1, OwnersType
    <2>3. PICK h \in Nat, l \in Nat : h = OnHandles(o)' /\ l = OnLocals(o)'
        BY PointingType, PositionsType DEF OnHandles, OnLocals, Allocates
    <2>4. Weight(x, o) \in Nat /\ Weight(a, o) \in Nat
        BY WeightType
    <2>5. PICK moved \in Nat : moved = Cardinality(Positions(r.parts, o))
        BY <1>2, PositionsType
    <2>6. OnParts(o)' = OnParts(o) + moved
        BY <1>6, <2>5
    <2>7. h + l + moved = OnHandles(o) + OnLocals(o) + Weight(x, o) + Weight(a, o)
        BY <2>3, <2>5 DEF Allocates
    <2>8. h + (OnParts(o) + moved) + l + OnReleasing(o)
            = OnHandles(o) + OnParts(o) + OnLocals(o) + OnReleasing(o) + Weight(x, o) + Weight(a, o)
        BY <1>1, <2>7, MovedSum
    <2> QED
        BY <2>1, <2>3, <2>6, <2>8
<1>8. Counted'
    <2>1. (x \in Address => x \in Alive) /\ count' = [Retained(count, x) EXCEPT ![a] = 1]
        BY DEF Allocates
    <2> QED
        BY <1>1, <1>2, <1>3, <1>7, <2>1, AllocatedCount
<1> QED
    BY <1>3, <1>5, <1>8 DEF Inv

\* No class has more parts than its vector of inputs or its two members.
LEMMA LocalsAreFew == ASSUME LocalsInv, TypeOK PROVE Len(locals) <= MaxInputs + 2
<1>1. PICK n \in Nat : n = Len(locals)
    BY DEF TypeOK
<1>2. n <= MaxInputs \/ n = 1 \/ n = 2
    BY <1>1 DEF LocalsInv, LocalsTyped
<1>3. n <= MaxInputs + 2
    BY <1>2, SizeAssumption
<1> QED
    BY <1>1, <1>3

\* The objects that a factory holds may be followed by one of this class.
Followed(H, kept, kind) ==
    \/ /\ kind = "input" /\ Len(kept) < MaxInputs
       /\ \A i \in DOMAIN kept : H[kept[i]].kind = "input"
    \/ kind \in {"input_set", "architectures"} /\ Len(kept) = 0
    \/ kind = "architectures" /\ Len(kept) = 1 /\ H[kept[1]].kind = "input_set"

LEMMA AppendedLocals ==
    ASSUME NEW H, NEW G, NEW kept \in Seq(Address), NEW a \in Address,
           \A i \in DOMAIN kept : G[kept[i]] = H[kept[i]], Followed(H, kept, G[a].kind)
    PROVE  LocalsTyped(G, Append(kept, a))
<1>1. PICK n \in Nat : n = Len(kept) /\ DOMAIN kept = 1..n
    OBVIOUS
<1>2. PICK s : s = Append(kept, a)
    OBVIOUS
<1>3. s \in Seq(Address) /\ Len(s) = n + 1 /\ s[n + 1] = a /\ \A i \in 1..n : s[i] = kept[i]
    BY <1>1, <1>2, AppendProperties
<1>4. DOMAIN s = 1..n + 1
    BY <1>3
<1>5. CASE G[a].kind = "input" /\ n < MaxInputs /\ \A i \in DOMAIN kept : H[kept[i]].kind = "input"
    <2>1. \A i \in DOMAIN s : G[s[i]].kind = "input"
        <3> TAKE i \in DOMAIN s
        <3>1. CASE i \in 1..n
            BY <1>1, <1>3, <1>5, <3>1
        <3>2. CASE i = n + 1
            BY <1>3, <1>5, <3>2
        <3> QED
            BY <1>4, <3>1, <3>2
    <2>2. Len(s) <= MaxInputs
        BY <1>3, <1>5, SizeAssumption
    <2> QED
        BY <1>2, <2>1, <2>2 DEF LocalsTyped
<1>6. CASE G[a].kind \in {"input_set", "architectures"} /\ n = 0
    <2>1. n + 1 = 1
        BY <1>6
    <2> QED
        BY <1>2, <1>3, <1>6, <2>1 DEF LocalsTyped
<1>7. CASE G[a].kind = "architectures" /\ n = 1 /\ H[kept[1]].kind = "input_set"
    <2>1. n + 1 = 2 /\ 1 \in 1..n
        BY <1>7
    <2>2. G[s[1]] = H[kept[1]]
        BY <1>1, <1>3, <2>1
    <2> QED
        BY <1>2, <1>3, <1>7, <2>1, <2>2 DEF LocalsTyped
<1> QED
    BY <1>1, <1>5, <1>6, <1>7 DEF Followed

\* The objects move from the factory to the representation that holds them.
LEMMA MovedPlaces ==
    ASSUME TypeOK, NEW a \in Address, NEW parts, NEW kept, locals' = Append(kept, a),
           (kept = locals /\ parts = <<>>) \/ (kept = <<>> /\ parts = locals)
    PROVE  \A o \in Address :
                OnLocals(o)' + Cardinality(Positions(parts, o)) = OnLocals(o) + Weight(a, o)
<1> TAKE o \in Address
<1>1. locals \in Seq(Address) /\ kept \in Seq(Address) /\ parts \in Seq(Address)
    <2>1. locals \in Seq(Address) /\ <<>> \in Seq(Address)
        BY DEF TypeOK
    <2> QED
        BY <2>1, Zenon
<1>2. /\ OnLocals(o) = Cardinality(Positions(locals, o))
      /\ OnLocals(o)' = Cardinality(Positions(Append(kept, a), o))
    BY DEF OnLocals, Positions
<1>3. Cardinality(Positions(Append(kept, a), o)) = Cardinality(Positions(kept, o)) + Weight(a, o)
    BY <1>1, PositionsAppend
<1>4. Cardinality(Positions(kept, o)) + Cardinality(Positions(parts, o)) = OnLocals(o)
    <2>1. CASE kept = locals /\ parts = <<>>
        BY <1>2, <2>1, PositionsEmpty, OwnersType
    <2>2. CASE kept = <<>> /\ parts = locals
        BY <1>2, <2>2, PositionsEmpty, OwnersType
    <2> QED
        BY <2>1, <2>2
<1>5. Cardinality(Positions(kept, o)) \in Nat /\ Cardinality(Positions(parts, o)) \in Nat
    BY <1>1, PositionsType
<1> QED
    BY <1>2, <1>3, <1>4, <1>5, WeightType

\* An object of the factory: made of data, or of the objects the factory holds.
LEMMA MakeLocalInv ==
    ASSUME Inv, NEW kind \in Kind, NEW v \in Value, NEW parts, NEW kept,
           MakeLocal(kind, v, parts, kept),
           (kept = locals /\ parts = <<>>) \/ (kept = <<>> /\ parts = locals),
           WellMade(heap, [kind |-> kind, value |-> v, parts |-> parts]),
           Followed(heap, kept, kind)
    PROVE  Inv'
<1> DEFINE r == [kind |-> kind, value |-> v, parts |-> parts]
<1>1. TypeOK /\ Counted /\ LocalsInv
    BY DEF Inv
<1>2. kept \in Seq(Address) /\ parts \in Seq(Address)
    <2>1. locals \in Seq(Address) /\ <<>> \in Seq(Address)
        BY <1>1 DEF TypeOK
    <2> QED
        BY <2>1, Zenon
<1>3. PICK a : a = Fresh /\ AllocatedAt(a, r)
    BY <1>1, <1>2, Allocation DEF MakeLocal
<1>4. Len(parts) <= MaxInputs + 2
    BY <1>1, LocalsAreFew, SizeAssumption
<1>5. r.kind = kind /\ r.parts = parts
    OBVIOUS
<1> HIDE DEF r
<1>6. a \in Address /\ a \notin Alive /\ heap'[a] = r /\ \A b \in Address : b # a => heap'[b] = heap[b]
    BY <1>3 DEF AllocatedAt
<1>7. locals' = Append(kept, a) /\ locals' \in Seq(Address)
    BY <1>2, <1>3, <1>6 DEF MakeLocal
<1>8. \A i \in DOMAIN kept : heap'[kept[i]] = heap[kept[i]]
    <2> TAKE i \in DOMAIN kept
    <2>1. kept[i] \in Alive /\ kept[i] \in Address
        BY <1>1, <1>2, OwnedIsAlive
    <2> QED
        BY <1>6, <2>1
<1>9. LocalsInv'
    <2>1. heap'[a].kind = kind
        BY <1>5, <1>6
    <2>2. LocalsTyped(heap', Append(kept, a))
        BY <1>2, <1>6, <1>8, <2>1, AppendedLocals
    <2> QED
        BY <1>7, <2>2 DEF LocalsInv, LocalsTyped
<1>10. \A o \in Address :
        OnHandles(o)' + OnLocals(o)' + Cardinality(Positions(parts, o))
            = OnHandles(o) + OnLocals(o) + Weight(Absent, o) + Weight(a, o)
    <2> TAKE o \in Address
    <2>1. OnHandles(o)' = OnHandles(o) /\ Weight(Absent, o) = 0
        BY MarksAreNoAddress DEF OnHandles, MakeLocal, Weight
    <2>2. OnLocals(o)' + Cardinality(Positions(parts, o)) = OnLocals(o) + Weight(a, o)
        BY <1>1, <1>6, <1>7, MovedPlaces
    <2>3. Cardinality(Positions(parts, o)) \in Nat /\ OnLocals(o)' \in Nat
        BY <1>2, <1>7, PositionsType DEF OnLocals
    <2>4. OnHandles(o) \in Nat /\ OnLocals(o) \in Nat /\ Weight(a, o) \in Nat
        BY <1>1, OwnersType, WeightType
    <2> QED
        BY <2>1, <2>2, <2>3, <2>4
<1>11. count' = [Retained(count, Absent) EXCEPT ![a] = 1]
    BY <1>3, MarkRetained DEF MakeLocal
<1>12. /\ handle' \in [Handle -> Address \cup {Absent, MovedFrom}]
       /\ \A h \in Handle : handle'[h] \in {handle[h], MovedFrom}
       /\ UNCHANGED releasing
    BY <1>1 DEF TypeOK, MakeLocal
<1>13. WellMade(heap, r)
    BY DEF r
<1>14. Allocates(a, r, Absent)
    <2>1. Len(r.parts) <= MaxInputs + 2
        BY <1>4, <1>5
    <2>2. \A o \in Address :
            OnHandles(o)' + OnLocals(o)' + Cardinality(Positions(r.parts, o))
                = OnHandles(o) + OnLocals(o) + Weight(Absent, o) + Weight(a, o)
        BY <1>5, <1>10
    <2>3. /\ handle' \in [Handle -> Address \cup {Absent, MovedFrom}]
          /\ \A h \in Handle : \/ handle'[h] \in {handle[h], MovedFrom}
                               \/ handle'[h] = a /\ KindOf[h] = r.kind
          /\ releasing' = releasing
        BY <1>12
    <2>4. Absent \in Address => Absent \in Alive
        BY MarksAreNoAddress
    <2> HIDE DEF Address, Alive, Positions
    <2> QED
        BY <1>3, <1>7, <1>11, <1>13, <2>1, <2>2, <2>3, <2>4, Zenon DEF Allocates
<1> QED
    BY <1>9, <1>14, AllocateInv

\* The classes of the objects that a factory holds.
LEMMA LocalKindsAre ==
    ASSUME TypeOK
    PROVE  /\ LocalKinds = <<>> => Len(locals) = 0
           /\ \A k : LocalKinds = <<k>> => Len(locals) = 1 /\ heap[locals[1]].kind = k
           /\ \A j, k : LocalKinds = <<j, k>> =>
                /\ Len(locals) = 2
                /\ heap[locals[1]].kind = j /\ heap[locals[2]].kind = k
<1>1. PICK n \in Nat : n = Len(locals) /\ DOMAIN locals = 1..n
    BY DEF TypeOK
<1>2. DOMAIN LocalKinds = 1..n /\ \A i \in 1..n : LocalKinds[i] = heap[locals[i]].kind
    BY <1>1 DEF LocalKinds
<1>3. LocalKinds = <<>> => n = 0
    BY <1>2
<1>4. ASSUME NEW k, LocalKinds = <<k>> PROVE n = 1 /\ heap[locals[1]].kind = k
    <2>1. DOMAIN LocalKinds = 1..1 /\ LocalKinds[1] = k
        BY <1>4
    <2>2. 1..n = 1..1
        BY <1>2, <2>1
    <2>3. n = 1
        BY <2>2
    <2> QED
        BY <1>2, <2>1, <2>3
<1>5. ASSUME NEW j, NEW k, LocalKinds = <<j, k>>
      PROVE  n = 2 /\ heap[locals[1]].kind = j /\ heap[locals[2]].kind = k
    <2>1. DOMAIN LocalKinds = 1..2 /\ LocalKinds[1] = j /\ LocalKinds[2] = k
        BY <1>5
    <2>2. 1..n = 1..2
        BY <1>2, <2>1
    <2>3. n = 2
        <3>1. 2 \in 1..n /\ n \in 1..n
            BY <2>2
        <3> QED
            BY <2>2, <3>1
    <2> QED
        BY <1>2, <2>1, <2>3
<1> QED
    BY <1>1, <1>3, <1>4, <1>5

\* An object of each class has a value of its class.
LEMMA ValuesOfKinds ==
    ASSUME TypeOK, PartsInv
    PROVE  \A o \in Alive :
                /\ heap[o].kind = "input" => heap[o].value \in Input
                /\ heap[o].kind = "architectures" => heap[o].value \in Architecture
                /\ heap[o].kind = "input_set" => heap[o].value \in InputSets
                /\ heap[o].kind = "request" => heap[o].value \in Request
                /\ heap[o].kind = "result" => heap[o].value \in Result
<1>1. \A o \in Alive : /\ WellMade(heap, heap[o])
                       /\ heap[o].parts \in Seq(Address)
                       /\ \A i \in DOMAIN heap[o].parts : heap[o].parts[i] \in Alive
    BY PartIsAlive DEF PartsInv, TypeOK, Alive, Representation
<1>2. \A o \in Alive : /\ heap[o].kind = "input" => heap[o].value \in Input
                       /\ heap[o].kind = "architectures" => heap[o].value \in Architecture
    BY <1>1 DEF WellMade, MadeAlone
<1>3. ASSUME NEW o \in Alive, heap[o].kind = "input_set" PROVE heap[o].value \in InputSets
    <2>1. PICK n \in Nat : n = Len(heap[o].parts) /\ DOMAIN heap[o].parts = 1..n
        BY <1>1
    <2>2. MadeOfInputs(heap, heap[o])
        BY <1>1, <1>3 DEF WellMade
    <2>3. n \in 0..MaxInputs
        BY <2>1, <2>2, SizeAssumption DEF MadeOfInputs
    <2>4. \A i \in 1..n : heap[heap[o].parts[i]].value \in Input
        BY <1>1, <1>2, <2>1, <2>2 DEF MadeOfInputs
    <2>5. heap[o].value = [i \in 1..n |-> heap[heap[o].parts[i]].value]
        BY <2>1, <2>2 DEF MadeOfInputs
    <2>6. heap[o].value \in [1..n -> Input]
        BY <2>4, <2>5
    <2> QED
        BY <2>3, <2>6 DEF InputSets
<1>4. ASSUME NEW o \in Alive, heap[o].kind = "request" PROVE heap[o].value \in Request
    <2>1. MadeOfTwo(heap, heap[o])
        BY <1>1, <1>4 DEF WellMade
    <2>2. 1 \in DOMAIN heap[o].parts /\ 2 \in DOMAIN heap[o].parts
        BY <1>1, <2>1 DEF MadeOfTwo
    <2>3. /\ heap[heap[o].parts[1]].value \in InputSets
          /\ heap[heap[o].parts[2]].value \in Architecture
        BY <1>1, <1>2, <1>3, <2>1, <2>2 DEF MadeOfTwo
    <2> QED
        BY <2>1, <2>3 DEF MadeOfTwo, Request
<1>5. ASSUME NEW o \in Alive, heap[o].kind = "result" PROVE heap[o].value \in Result
    <2>1. MadeOfRequest(heap, heap[o])
        BY <1>1, <1>5 DEF WellMade
    <2>2. 1 \in DOMAIN heap[o].parts
        BY <1>1, <2>1 DEF MadeOfRequest
    <2>3. heap[heap[o].parts[1]].value \in Request
        BY <1>1, <1>4, <2>1, <2>2 DEF MadeOfRequest
    <2> QED
        BY <2>1, <2>3 DEF MadeOfRequest, Result
<1> QED
    BY <1>2, <1>3, <1>4, <1>5

\* The objects that a factory makes for itself.
LEMMA MakeInputInv == ASSUME Inv, MakeInput PROVE Inv'
<1>1. TypeOK
    BY DEF Inv
<1>2. PICK v \in Input : MakeLocal("input", v, <<>>, locals)
    BY DEF MakeInput
<1>3. v \in Value /\ "input" \in Kind
    BY DEF Value, Kind
<1>4. WellMade(heap, [kind |-> "input", value |-> v, parts |-> <<>>])
    BY DEF WellMade, MadeAlone
<1>5. Followed(heap, locals, "input")
    BY <1>1 DEF Followed, MakeInput, LocalKinds
<1> QED
    BY <1>2, <1>3, <1>4, <1>5, MakeLocalInv

LEMMA MakeInputSetInv == ASSUME Inv, MakeInputSet PROVE Inv'
<1>1. TypeOK /\ Counted /\ PartsInv /\ LocalsInv
    BY DEF Inv
<1>2. locals \in Seq(Address) /\ \A i \in DOMAIN locals : locals[i] \in Alive
    BY <1>1, OwnedIsAlive DEF TypeOK
<1>3. PICK n \in Nat : n = Len(locals) /\ DOMAIN locals = 1..n
    BY <1>2
<1>4. \A i \in 1..n : heap[locals[i]].kind = "input"
    BY <1>3 DEF MakeInputSet, LocalKinds
<1>5. n <= MaxInputs
    BY <1>1, <1>3, <1>4 DEF LocalsInv, LocalsTyped
<1>6. \A i \in 1..n : heap[locals[i]].value \in Input
    BY <1>1, <1>2, <1>3, <1>4, ValuesOfKinds
<1>7. PICK v : v = InputSetOf(locals)
    OBVIOUS
<1>8. v = [i \in 1..n |-> heap[locals[i]].value]
    BY <1>3, <1>7 DEF InputSetOf
<1>9. v \in InputSets
    <2>1. v \in [1..n -> Input] /\ n \in 0..MaxInputs
        BY <1>5, <1>6, <1>8, SizeAssumption
    <2> QED
        BY <2>1 DEF InputSets
<1>10. v \in Value /\ "input_set" \in Kind
    BY <1>9 DEF Value, Kind
<1>11. PICK s : s = locals
    OBVIOUS
<1>12. WellMade(heap, [kind |-> "input_set", value |-> v, parts |-> s])
    <2>1. PICK r : r = [kind |-> "input_set", value |-> v, parts |-> s]
        OBVIOUS
    <2>2. r.kind = "input_set" /\ r.value = v /\ r.parts = s
        BY <2>1
    <2>3. MadeOfInputs(heap, r)
        BY <1>3, <1>4, <1>5, <1>8, <1>11, <2>2 DEF MadeOfInputs
    <2>4. \A i \in DOMAIN r.parts : heap[r.parts[i]] # Free
        BY <1>2, <1>11, <2>2 DEF Alive
    <2>5. WellMade(heap, r)
        BY <2>2, <2>3, <2>4 DEF WellMade
    <2> QED
        BY <2>1, <2>5
<1>13. Followed(heap, <<>>, "input_set")
    BY DEF Followed
<1>14. MakeLocal("input_set", v, s, <<>>)
    BY <1>7, <1>11 DEF MakeInputSet
<1> QED
    BY <1>10, <1>11, <1>12, <1>13, <1>14, MakeLocalInv

LEMMA MakeArchitecturesInv == ASSUME Inv, MakeArchitectures PROVE Inv'
<1>1. TypeOK
    BY DEF Inv
<1>2. PICK v \in Architecture : MakeLocal("architectures", v, <<>>, locals)
    BY DEF MakeArchitectures
<1>3. v \in Value /\ "architectures" \in Kind
    BY DEF Value, Kind
<1>4. WellMade(heap, [kind |-> "architectures", value |-> v, parts |-> <<>>])
    BY DEF WellMade, MadeAlone
<1>5. Followed(heap, locals, "architectures")
    BY <1>1, LocalKindsAre DEF Followed, MakeArchitectures
<1> QED
    BY <1>2, <1>3, <1>4, <1>5, MakeLocalInv

\* A factory returns the one object that it holds.
LEMMA ReturnInv == ASSUME Inv, NEW h \in Handle, Return(h) PROVE Inv'
<1>1. TypeOK /\ Counted /\ PartsInv
    BY DEF Inv
<1>2. PICK x \in Address : x = locals[1] /\ x \in Alive /\ locals = <<x>>
    <2>1. Len(locals) = 1 /\ locals \in Seq(Address)
        BY <1>1, LocalKindsAre DEF Return, TypeOK
    <2>2. locals[1] \in Alive /\ locals[1] \in Address /\ locals = <<locals[1]>>
        BY <1>1, <2>1, OwnedIsAlive
    <2> QED
        BY <2>2
<1>3. heap[x].kind = KindOf[h]
    BY <1>1, <1>2, LocalKindsAre DEF Return
<1>4. /\ handle'[h] = x /\ handle[h] = Absent
      /\ \A k \in Handle : k # h => handle'[k] = handle[k]
      /\ handle' \in [Handle -> Address \cup {Absent, MovedFrom}]
    BY <1>1, <1>2 DEF TypeOK, Return
<1>5. UNCHANGED <<heap, count, releasing>> /\ locals' = <<>>
    BY DEF Return
<1>6. Alive' = Alive
    BY <1>5, HeapKept
<1>7. TypeOK'
    <2>1. \A k \in Handle : handle'[k] \in Address =>
            handle'[k] \in Alive' /\ heap'[handle'[k]].kind = KindOf[k]
        BY <1>1, <1>2, <1>3, <1>4, <1>5, <1>6 DEF TypeOK
    <2> QED
        BY <1>1, <1>4, <1>5, <2>1 DEF TypeOK
<1>8. \A o \in Address :
        OnHandles(o)' + OnLocals(o)' + OnReleasing(o)'
            = OnHandles(o) + OnLocals(o) + OnReleasing(o) + Weight(Absent, o)
    <2> TAKE o \in Address
    <2>1. OnHandles(o)' = OnHandles(o) - Weight(handle[h], o) + Weight(handle'[h], o)
        BY <1>4, HandleChanges
    <2>2. Weight(Absent, o) = 0
        BY MarksAreNoAddress DEF Weight
    <2>3. OnLocals(o) = Weight(x, o) /\ OnLocals(o)' = 0 /\ OnReleasing(o)' = OnReleasing(o)
        BY <1>2, <1>5, PositionsSingle, PositionsEmpty DEF OnLocals, OnReleasing
    <2> QED
        BY <1>1, <1>4, <2>1, <2>2, <2>3, OwnersType, WeightType
<1>9. Counted'
    <2>1. count' = Retained(count, Absent)
        BY <1>5, MarkRetained
    <2> QED
        BY <1>1, <1>5, <1>7, <1>8, <2>1, MarksAreNoAddress, CountKept
<1>10. LocalsInv'
    BY <1>5, SizeAssumption DEF LocalsInv, LocalsTyped
<1> QED
    BY <1>1, <1>5, <1>7, <1>9, <1>10, HeapKept DEF Inv

\* What a factory allocates for an object of the client.
LEMMA MakeRequestInv == ASSUME Inv, NEW h \in Handle, MakeRequest(h) PROVE Inv'
<1>1. TypeOK /\ Counted /\ PartsInv /\ LocalsInv
    BY DEF Inv
<1>2. PICK s \in Seq(Address) : s = locals
    BY <1>1 DEF TypeOK
<1>3. Len(s) = 2 /\ heap[s[1]].kind = "input_set" /\ heap[s[2]].kind = "architectures"
    BY <1>1, <1>2, LocalKindsAre DEF MakeRequest
<1>4. DOMAIN s = 1..2 /\ s[1] \in Alive /\ s[2] \in Alive
    BY <1>1, <1>2, <1>3, OwnedIsAlive
<1>5. PICK v : v = [inputs |-> heap[s[1]].value, architectures |-> heap[s[2]].value]
    OBVIOUS
<1>6. v \in Value /\ "request" \in Kind
    <2>1. heap[s[1]].value \in InputSets /\ heap[s[2]].value \in Architecture
        BY <1>1, <1>3, <1>4, ValuesOfKinds
    <2> QED
        BY <1>5, <2>1 DEF Value, Kind, Request
<1>7. PICK r : r = [kind |-> "request", value |-> v, parts |-> s]
    OBVIOUS
<1>8. r.kind = "request" /\ r.value = v /\ r.parts = s
    BY <1>7
<1>9. PICK a : a = Fresh /\ AllocatedAt(a, r)
    <2>1. heap' = Allocated("request", v, s) /\ HasMemory
        BY <1>2, <1>5 DEF MakeRequest, RequestOf
    <2> QED
        BY <1>1, <1>6, <1>7, <2>1, Allocation
<1>10. WellMade(heap, r) /\ Len(r.parts) <= MaxInputs + 2
    <2>1. MadeOfTwo(heap, r)
        BY <1>3, <1>5, <1>8 DEF MadeOfTwo
    <2>2. \A i \in DOMAIN r.parts : heap[r.parts[i]] # Free
        BY <1>4, <1>8 DEF Alive
    <2>3. 2 <= MaxInputs + 2
        BY SizeAssumption
    <2>4. Len(r.parts) <= MaxInputs + 2
        BY <1>3, <1>8, <2>3
    <2> QED
        BY <1>8, <2>1, <2>2, <2>4 DEF WellMade
<1>11. /\ handle'[h] = a /\ handle[h] = Absent /\ KindOf[h] = r.kind
       /\ \A k \in Handle : k # h => handle'[k] = handle[k]
       /\ handle' \in [Handle -> Address \cup {Absent, MovedFrom}]
    BY <1>1, <1>8, <1>9 DEF TypeOK, MakeRequest, AllocatedAt
<1>12. /\ locals' = <<>> /\ locals' \in Seq(Address)
       /\ releasing' = releasing
       /\ count' = [Retained(count, Absent) EXCEPT ![a] = 1]
    BY <1>9, MarkRetained DEF MakeRequest
<1>13. LocalsInv'
    BY <1>12, SizeAssumption DEF LocalsInv, LocalsTyped
<1>14. \A o \in Address :
        OnHandles(o)' + OnLocals(o)' + Cardinality(Positions(r.parts, o))
            = OnHandles(o) + OnLocals(o) + Weight(Absent, o) + Weight(a, o)
    <2> TAKE o \in Address
    <2>1. OnHandles(o)' = OnHandles(o) - Weight(handle[h], o) + Weight(handle'[h], o)
        BY <1>11, HandleChanges
    <2>2. Weight(handle[h], o) = 0 /\ Weight(Absent, o) = 0
        BY <1>11, MarksAreNoAddress DEF Weight
    <2>3. OnLocals(o)' = 0 /\ OnLocals(o) = Cardinality(Positions(r.parts, o))
        BY <1>2, <1>8, <1>12, PositionsEmpty DEF OnLocals
    <2>4. OnHandles(o) \in Nat /\ OnLocals(o) \in Nat /\ Weight(a, o) \in Nat
        BY <1>1, OwnersType, WeightType
    <2> QED
        BY <1>11, <2>1, <2>2, <2>3, <2>4
<1>15. Allocates(a, r, Absent)
    <2>1. \A k \in Handle : \/ handle'[k] \in {handle[k], MovedFrom}
                            \/ handle'[k] = a /\ KindOf[k] = r.kind
        BY <1>11
    <2>2. Absent \in Address => Absent \in Alive
        BY MarksAreNoAddress
    <2> QED
        BY <1>9, <1>10, <1>11, <1>12, <1>14, <2>1, <2>2, Zenon DEF Allocates
<1> QED
    BY <1>13, <1>15, AllocateInv

\* The request of a result is the client's, or a copy of it.
LEMMA MakeResultInv == ASSUME Inv, NEW h \in Handle, NEW g \in Handle, MakeResult(h, g) PROVE Inv'
<1>1. TypeOK /\ Counted /\ PartsInv /\ LocalsInv
    BY DEF Inv
<1>2. PICK x \in Address : x = handle[g] /\ x \in Alive /\ heap[x].kind = "request"
    BY <1>1 DEF TypeOK, MakeResult
<1>3. h # g /\ handle[h] = Absent
    BY <1>2, MarksAreNoAddress DEF MakeResult
<1>4. PICK e \in Evidence :
        heap' = Allocated("result", ResultOf(<<handle[g]>>, e), <<handle[g]>>)
    BY DEF MakeResult
<1>5. PICK v : v = [request |-> heap[x].value, evidence |-> e]
    OBVIOUS
<1>6. v \in Value /\ "result" \in Kind
    <2>1. heap[x].value \in Request
        BY <1>1, <1>2, ValuesOfKinds
    <2> QED
        BY <1>5, <2>1 DEF Value, Kind, Result
<1>7. PICK s \in Seq(Address) : s = <<x>>
    <2>1. <<x>> \in Seq(Address)
        OBVIOUS
    <2> QED
        BY <2>1
<1>8. PICK r : r = [kind |-> "result", value |-> v, parts |-> s]
    OBVIOUS
<1>9. r.kind = "result" /\ r.value = v /\ r.parts = s
    BY <1>8
<1>10. PICK a : a = Fresh /\ AllocatedAt(a, r)
    <2>1. heap' = Allocated("result", v, s) /\ HasMemory
        <3>1. ResultOf(<<handle[g]>>, e) = v
            BY <1>2, <1>5 DEF ResultOf
        <3> QED
            BY <1>2, <1>4, <1>7, <3>1 DEF MakeResult
    <2> QED
        BY <1>1, <1>6, <1>8, <2>1, Allocation
<1>11. WellMade(heap, r) /\ Len(r.parts) <= MaxInputs + 2
    <2>1. Len(s) = 1 /\ DOMAIN s = 1..1 /\ s[1] = x
        BY <1>7
    <2>2. MadeOfRequest(heap, r)
        BY <1>2, <1>5, <1>9, <2>1 DEF MadeOfRequest
    <2>3. \A i \in DOMAIN r.parts : heap[r.parts[i]] # Free
        BY <1>2, <1>9, <2>1 DEF Alive
    <2> QED
        BY <1>9, <2>1, <2>2, <2>3, SizeAssumption DEF WellMade
<1>12. /\ locals' = locals /\ locals' \in Seq(Address)
       /\ releasing' = releasing /\ locals = <<>>
    BY <1>1 DEF MakeResult, Running, TypeOK
<1>13. LocalsInv'
    BY <1>12, SizeAssumption DEF LocalsInv, LocalsTyped
<1>14. \A o : OnLocals(o)' = OnLocals(o)
    BY <1>12 DEF OnLocals
<1>15. \A o : Cardinality(Positions(r.parts, o)) = Weight(x, o)
    BY <1>7, <1>9, PositionsSingle
<1>16. CASE /\ handle' = [handle EXCEPT ![h] = Fresh]
            /\ count' = [Retained(count, handle[g]) EXCEPT ![Fresh] = 1]
    <2>1. /\ handle'[h] = a /\ KindOf[h] = r.kind
          /\ \A k \in Handle : k # h => handle'[k] = handle[k]
          /\ handle' \in [Handle -> Address \cup {Absent, MovedFrom}]
        BY <1>1, <1>9, <1>10, <1>16 DEF TypeOK, MakeResult, AllocatedAt
    <2>2. \A o \in Address :
            OnHandles(o)' + OnLocals(o)' + Cardinality(Positions(r.parts, o))
                = OnHandles(o) + OnLocals(o) + Weight(x, o) + Weight(a, o)
        <3> TAKE o \in Address
        <3>1. OnHandles(o)' = OnHandles(o) - Weight(handle[h], o) + Weight(handle'[h], o)
            BY <2>1, HandleChanges
        <3>2. Weight(handle[h], o) = 0
            BY <1>3, MarksAreNoAddress DEF Weight
        <3>3. /\ OnHandles(o) \in Nat /\ OnLocals(o) \in Nat
              /\ Weight(a, o) \in Nat /\ Weight(x, o) \in Nat
            BY <1>1, OwnersType, WeightType
        <3> QED
            BY <1>14, <1>15, <2>1, <3>1, <3>2, <3>3
    <2>3. \A k \in Handle : \/ handle'[k] \in {handle[k], MovedFrom}
                            \/ handle'[k] = a /\ KindOf[k] = r.kind
        BY <2>1
    <2>4. count' = [Retained(count, x) EXCEPT ![a] = 1]
        BY <1>2, <1>10, <1>16
    <2>5. Allocates(a, r, x)
        BY <1>2, <1>10, <1>11, <1>12, <2>1, <2>2, <2>3, <2>4, Zenon DEF Allocates
    <2> QED
        BY <1>13, <2>5, AllocateInv
<1>17. CASE /\ handle' = [handle EXCEPT ![h] = Fresh, ![g] = MovedFrom]
            /\ count' = [count EXCEPT ![Fresh] = 1]
    <2>1. /\ handle'[h] = a /\ handle'[g] = MovedFrom /\ KindOf[h] = r.kind
          /\ \A k \in Handle : k # h /\ k # g => handle'[k] = handle[k]
          /\ handle' \in [Handle -> Address \cup {Absent, MovedFrom}]
        BY <1>1, <1>3, <1>9, <1>10, <1>17 DEF TypeOK, MakeResult, AllocatedAt
    <2>2. \A o \in Address :
            OnHandles(o)' + OnLocals(o)' + Cardinality(Positions(r.parts, o))
                = OnHandles(o) + OnLocals(o) + Weight(Absent, o) + Weight(a, o)
        <3> TAKE o \in Address
        <3>1. OnHandles(o)' = OnHandles(o) - Weight(handle[h], o) + Weight(handle'[h], o)
                                - Weight(handle[g], o) + Weight(handle'[g], o)
            BY <1>3, <2>1, HandlesChange
        <3>2. Weight(handle[h], o) = 0 /\ Weight(Absent, o) = 0 /\ Weight(handle'[g], o) = 0
            BY <1>3, <2>1, MarksAreNoAddress DEF Weight
        <3>3. /\ OnHandles(o) \in Nat /\ OnLocals(o) \in Nat
              /\ Weight(a, o) \in Nat /\ Weight(x, o) \in Nat
            BY <1>1, OwnersType, WeightType
        <3> QED
            BY <1>2, <1>14, <1>15, <2>1, <3>1, <3>2, <3>3
    <2>3. \A k \in Handle : \/ handle'[k] \in {handle[k], MovedFrom}
                            \/ handle'[k] = a /\ KindOf[k] = r.kind
        BY <2>1
    <2>4. count' = [Retained(count, Absent) EXCEPT ![a] = 1]
        BY <1>10, <1>17, MarkRetained
    <2>5. Absent \in Address => Absent \in Alive
        BY MarksAreNoAddress
    <2>6. Allocates(a, r, Absent)
        BY <1>10, <1>11, <1>12, <2>1, <2>2, <2>3, <2>4, <2>5, Zenon DEF Allocates
    <2> QED
        BY <1>13, <2>6, AllocateInv
<1> QED
    BY <1>16, <1>17 DEF MakeResult

-----------------------------------------------------------------------------
(* Destruction *)

\* An exception turns the objects of a factory over to be destroyed.
LEMMA FactoryThrowsInv == ASSUME Inv, FactoryThrows PROVE Inv'
<1>1. TypeOK /\ Counted /\ PartsInv
    BY DEF Inv
<1>2. PICK s \in Seq(Address) : s = locals
    BY <1>1 DEF TypeOK
<1>3. PICK t : t = [i \in DOMAIN s |-> s[Len(s) + 1 - i]]
    OBVIOUS
<1>4. /\ UNCHANGED <<handle, heap, count>>
      /\ releasing = <<>> /\ releasing' = t /\ locals' = <<>>
    BY <1>2, <1>3 DEF FactoryThrows
<1>5. t \in Seq(Address)
    <2>1. PICK n \in Nat : n = Len(s) /\ DOMAIN s = 1..n
        OBVIOUS
    <2>2. \A i \in 1..n : n + 1 - i \in 1..n /\ s[n + 1 - i] \in Address
        BY <2>1
    <2>3. t = [i \in 1..n |-> s[n + 1 - i]]
        BY <1>3, <2>1
    <2> QED
        BY <2>2, <2>3
<1>6. \A o : Cardinality(Positions(t, o)) = Cardinality(Positions(s, o))
    BY <1>3, PositionsReversed
<1>7. TypeOK'
    BY <1>1, <1>4, <1>5, HeapKept DEF TypeOK
<1>8. \A o \in Address :
        OnHandles(o)' + OnLocals(o)' + OnReleasing(o)'
            = OnHandles(o) + OnLocals(o) + OnReleasing(o) + Weight(Absent, o)
    <2> TAKE o \in Address
    <2>1. OnHandles(o)' = OnHandles(o) /\ Weight(Absent, o) = 0
        BY <1>4, MarksAreNoAddress DEF OnHandles, Weight
    <2>2. OnLocals(o)' = 0 /\ OnReleasing(o) = 0 /\ OnReleasing(o)' = OnLocals(o)
        BY <1>2, <1>4, <1>6, PositionsEmpty DEF OnLocals, OnReleasing
    <2> QED
        BY <1>1, <2>1, <2>2, OwnersType
<1>9. Counted'
    <2>1. count' = Retained(count, Absent)
        BY <1>4, MarkRetained
    <2> QED
        BY <1>1, <1>4, <1>7, <1>8, <2>1, MarksAreNoAddress, CountKept
<1>10. LocalsInv'
    BY <1>4, SizeAssumption DEF LocalsInv, LocalsTyped
<1> QED
    BY <1>1, <1>4, <1>7, <1>9, <1>10, HeapKept DEF Inv

\* A representation has no more parts than a vector of inputs or two members.
LEMMA PartsAreFew ==
    ASSUME TypeOK, PartsInv, NEW o \in Alive
    PROVE  heap[o].parts \in Seq(Address) /\ Len(heap[o].parts) <= MaxInputs + 2
<1>1. heap[o].parts \in Seq(Address) /\ heap[o].kind \in Kind
    BY DEF TypeOK, Alive, Representation
<1>2. PICK n \in Nat : n = Len(heap[o].parts)
    BY <1>1
<1>3. WellMade(heap, heap[o])
    BY DEF PartsInv
<1>4. n = 0 \/ n <= MaxInputs \/ n = 1 \/ n = 2
    BY <1>1, <1>2, <1>3 DEF Kind, WellMade, MadeAlone, MadeOfInputs, MadeOfTwo, MadeOfRequest
<1>5. n <= MaxInputs + 2
    BY <1>4, SizeAssumption
<1> QED
    BY <1>1, <1>2, <1>5

\* Nothing points to an address that nothing owns.
LEMMA UnownedPlaces ==
    ASSUME TypeOK, PartsInv, NEW o,
           OnHandles(o) = 0, OnParts(o) = 0, OnLocals(o) = 0
    PROVE  /\ \A h \in Handle : handle[h] # o
           /\ \A a \in Alive : \A i \in DOMAIN heap[a].parts : heap[a].parts[i] # o
           /\ \A i \in DOMAIN locals : locals[i] # o
<1>1. \A h \in Handle : handle[h] # o
    <2>1. Pointing(handle, o) = {}
        BY PointingType, OnHandlesPoint, FS_EmptySet
    <2> QED
        BY <2>1 DEF Pointing
<1>2. ASSUME NEW a \in Alive, NEW i \in DOMAIN heap[a].parts PROVE heap[a].parts[i] # o
    <2>1. Holding(heap, o) = {}
        BY HoldingType, FS_EmptySet DEF OnParts
    <2>2. PICK n \in Nat : n = Len(heap[a].parts) /\ DOMAIN heap[a].parts = 1..n /\ n <= MaxInputs + 2
        BY PartsAreFew
    <2>3. i \in 1..MaxInputs + 2
        BY <2>2, SizeAssumption
    <2>4. <<a, i>> \notin Holding(heap, o)
        BY <2>1
    <2>5. a \in Address /\ heap[a] # Free
        BY DEF Alive
    <2> QED
        BY <2>3, <2>4, <2>5 DEF Holding, Positions
<1>3. \A i \in DOMAIN locals : locals[i] # o
    <2>1. locals \in Seq(Address)
        BY DEF TypeOK
    <2>2. IsFiniteSet(Positions(locals, o)) /\ Cardinality(Positions(locals, o)) = 0
        BY <2>1, PositionsType DEF OnLocals
    <2>3. Positions(locals, o) = {}
        BY <2>2, FS_EmptySet
    <2> QED
        BY <2>3 DEF Positions
<1> QED
    BY <1>1, <1>2, <1>3

\* The owner that goes is counted out.
LEMMA ReleasedCount ==
    ASSUME TypeOK, TypeOK', Counted, NEW o \in Address, count[o] > 0,
           count' = [count EXCEPT ![o] = @ - 1],
           Alive' = IF count[o] = 1 THEN Alive \ {o} ELSE Alive,
           \A p \in Address :
                OnHandles(p)' + OnParts(p)' + OnLocals(p)' + OnReleasing(p)' + Weight(o, p)
                    = OnHandles(p) + OnParts(p) + OnLocals(p) + OnReleasing(p)
    PROVE  Counted'
<1> SUFFICES ASSUME NEW p \in Address
             PROVE  /\ count'[p] = OnHandles(p)' + OnParts(p)' + OnLocals(p)' + OnReleasing(p)'
                    /\ p \in Alive' <=> count'[p] > 0
    BY DEF Counted
<1>1. /\ OnHandles(p)' \in Nat /\ OnParts(p)' \in Nat
      /\ OnLocals(p)' \in Nat /\ OnReleasing(p)' \in Nat
    BY PointingType, HoldingType, PositionsType
       DEF TypeOK, OnHandles, OnParts, OnLocals, OnReleasing
<1>2. /\ count[p] = OnHandles(p) + OnParts(p) + OnLocals(p) + OnReleasing(p)
      /\ p \in Alive <=> count[p] > 0
      /\ count[p] \in Nat
    BY DEF Counted, TypeOK
<1>3. CASE p = o
    <2>1. count'[p] = count[p] - 1 /\ Weight(o, p) = 1
        BY <1>3 DEF TypeOK, Weight
    <2>2. p \in Alive' <=> count[p] # 1
        BY <1>2, <1>3
    <2>3. OnHandles(p)' + OnParts(p)' + OnLocals(p)' + OnReleasing(p)' + 1 = count[p]
        BY <1>2, <2>1
    <2>4. PICK n \in Nat : n = OnHandles(p)' + OnParts(p)' + OnLocals(p)' + OnReleasing(p)'
        BY <1>1
    <2>5. n + 1 = count[p] /\ count'[p] = n
        BY <1>2, <2>1, <2>3, <2>4
    <2> QED
        BY <1>2, <1>3, <2>2, <2>4, <2>5
<1>4. CASE p # o
    <2>1. count'[p] = count[p] /\ Weight(o, p) = 0
        BY <1>4 DEF TypeOK, Weight
    <2>2. p \in Alive' <=> p \in Alive
        BY <1>4
    <2> QED
        BY <1>1, <1>2, <2>1, <2>2
<1> QED
    BY <1>3, <1>4

\* The object that is next to be destroyed.
LEMMA NextReleased ==
    ASSUME Inv, releasing # <<>>
    PROVE  \E o \in Address : \E s \in Seq(Address) :
                /\ o = Head(releasing) /\ s = Tail(releasing)
                /\ count[o] > 0
                /\ \A p : OnReleasing(p) = Weight(o, p) + Cardinality(Positions(s, p))
<1>1. TypeOK /\ Counted
    BY DEF Inv
<1>2. releasing \in Seq(Address)
    BY <1>1 DEF TypeOK
<1>3. PICK o \in Address : o = Head(releasing)
    BY <1>2
<1>4. PICK s \in Seq(Address) : s = Tail(releasing)
    <2>1. Tail(releasing) \in Seq(Address)
        BY <1>2, HeadTailProperties
    <2> QED
        BY <2>1
<1>5. \A p : OnReleasing(p) = Weight(o, p) + Cardinality(Positions(s, p))
    BY <1>2, <1>3, <1>4, PositionsHead DEF OnReleasing
<1>6. o \in Alive
    <2>1. 1 \in DOMAIN releasing /\ releasing[1] = o
        BY <1>2, <1>3
    <2> QED
        BY <1>1, <2>1, OwnedIsAlive
<1>7. count[o] > 0
    BY <1>1, <1>6 DEF Counted
<1> QED
    BY <1>3, <1>4, <1>5, <1>7

\* One of several owners goes.
LEMMA ReleaseSharedInv ==
    ASSUME Inv, Release, count[Head(releasing)] # 1
    PROVE  Inv'
<1>1. TypeOK /\ Counted /\ PartsInv /\ LocalsInv
    BY DEF Inv
<1>2. PICK o \in Address, s \in Seq(Address) :
        /\ o = Head(releasing) /\ s = Tail(releasing)
        /\ count[o] > 0
        /\ \A p : OnReleasing(p) = Weight(o, p) + Cardinality(Positions(s, p))
    BY NextReleased DEF Release
<1>3. /\ UNCHANGED <<handle, heap, locals>>
      /\ releasing' = s
      /\ count' = [count EXCEPT ![o] = @ - 1]
      /\ count[o] # 1
    BY <1>2 DEF Release
<1>4. Alive' = Alive
    BY <1>3, HeapKept
<1>5. TypeOK'
    <2>1. count' \in [Address -> Nat]
        BY <1>1, <1>2, <1>3 DEF TypeOK
    <2> QED
        BY <1>1, <1>3, <1>4, <2>1 DEF TypeOK
<1>6. \A p \in Address :
        OnHandles(p)' + OnParts(p)' + OnLocals(p)' + OnReleasing(p)' + Weight(o, p)
            = OnHandles(p) + OnParts(p) + OnLocals(p) + OnReleasing(p)
    <2> TAKE p \in Address
    <2>1. OnHandles(p)' = OnHandles(p) /\ OnParts(p)' = OnParts(p) /\ OnLocals(p)' = OnLocals(p)
        BY <1>3 DEF OnHandles, OnParts, OnLocals
    <2>2. PICK n \in Nat : n = Cardinality(Positions(s, p))
        BY PositionsType
    <2>3. OnReleasing(p)' = n /\ OnReleasing(p) = Weight(o, p) + n
        BY <1>2, <1>3, <2>2 DEF OnReleasing
    <2>4. OnHandles(p) \in Nat /\ OnParts(p) \in Nat /\ OnLocals(p) \in Nat /\ Weight(o, p) \in Nat
        BY <1>1, OwnersType, WeightType
    <2> QED
        BY <2>1, <2>3, <2>4
<1>7. Counted'
    BY <1>1, <1>2, <1>3, <1>4, <1>5, <1>6, ReleasedCount
<1>8. LocalsInv'
    BY <1>1, <1>3 DEF LocalsInv
<1> QED
    BY <1>1, <1>3, <1>5, <1>7, <1>8, HeapKept DEF Inv

\* The last owner goes: nothing else points to the representation, which is
\* freed, and its parts are next to be destroyed.
LEMMA ReleaseLastInv ==
    ASSUME Inv, Release, count[Head(releasing)] = 1
    PROVE  Inv'
<1>1. TypeOK /\ Counted /\ PartsInv /\ LocalsInv
    BY DEF Inv
<1>2. PICK o \in Address, s \in Seq(Address) :
        /\ o = Head(releasing) /\ s = Tail(releasing)
        /\ count[o] > 0
        /\ \A p : OnReleasing(p) = Weight(o, p) + Cardinality(Positions(s, p))
    BY NextReleased DEF Release
<1>3. count[o] = 1 /\ o \in Alive
    BY <1>1, <1>2 DEF Counted
<1>4. PICK t \in Seq(Address) : t = heap[o].parts
    BY <1>1, <1>3, PartsAreFew
<1>5. /\ UNCHANGED <<handle, locals>>
      /\ heap' = [heap EXCEPT ![o] = Free]
      /\ releasing' = t \o s
      /\ count' = [count EXCEPT ![o] = @ - 1]
    BY <1>2, <1>3, <1>4 DEF Release, PartsOf
<1>6. /\ heap' \in [Address -> Representation \cup {Free}]
      /\ heap'[o] = Free /\ \A p \in Address : p # o => heap'[p] = heap[p]
    BY <1>1, <1>5 DEF TypeOK
<1>7. Alive' = Alive \ {o}
    BY <1>6 DEF Alive
<1>8. OnHandles(o) = 0 /\ OnParts(o) = 0 /\ OnLocals(o) = 0
    <2>1. PICK n \in Nat : n = Cardinality(Positions(s, o))
        BY PositionsType
    <2>2. OnReleasing(o) = 1 + n
        BY <1>2, <2>1 DEF Weight
    <2>3. 1 = OnHandles(o) + OnParts(o) + OnLocals(o) + OnReleasing(o)
        BY <1>1, <1>3 DEF Counted
    <2>4. OnHandles(o) \in Nat /\ OnParts(o) \in Nat /\ OnLocals(o) \in Nat
        BY <1>1, OwnersType
    <2> QED
        BY <2>2, <2>3, <2>4
<1>9. /\ \A h \in Handle : handle[h] # o
      /\ \A a \in Alive : \A i \in DOMAIN heap[a].parts : heap[a].parts[i] # o
      /\ \A i \in DOMAIN locals : locals[i] # o
    BY <1>1, <1>8, UnownedPlaces
<1>10. TypeOK'
    <2>1. count' \in [Address -> Nat]
        BY <1>1, <1>3, <1>5 DEF TypeOK
    <2>2. \A h \in Handle : handle'[h] \in Address =>
            handle'[h] \in Alive' /\ heap'[handle'[h]].kind = KindOf[h]
        BY <1>1, <1>5, <1>6, <1>7, <1>9 DEF TypeOK
    <2>3. releasing' \in Seq(Address)
        BY <1>5
    <2> QED
        BY <1>1, <1>5, <1>6, <2>1, <2>2, <2>3 DEF TypeOK
<1>11. PartsInv'
    <2> SUFFICES ASSUME NEW a \in Alive' PROVE WellMade(heap', heap'[a])
        BY DEF PartsInv
    <2>1. a \in Alive /\ heap'[a] = heap[a]
        BY <1>6, <1>7 DEF Alive
    <2>2. PICK r : r = heap[a]
        OBVIOUS
    <2>3. WellMade(heap, r) /\ r.parts \in Seq(Address)
        BY <1>1, <2>1, <2>2, PartsAreFew DEF PartsInv
    <2>4. \A i \in DOMAIN r.parts : heap'[r.parts[i]] = heap[r.parts[i]]
        <3> TAKE i \in DOMAIN r.parts
        <3>1. r.parts[i] # o
            BY <1>9, <2>1, <2>2
        <3>2. r.parts[i] \in Address
            BY <2>3
        <3> QED
            BY <1>6, <3>1, <3>2
    <2>5. WellMade(heap', r)
        BY <2>3, <2>4, StaysWellMade
    <2> QED
        BY <2>1, <2>2, <2>5
<1>12. LocalsInv'
    <2>1. locals \in Seq(Address)
        BY <1>1 DEF TypeOK
    <2>2. \A i \in DOMAIN locals : heap'[locals[i]] = heap[locals[i]]
        <3> TAKE i \in DOMAIN locals
        <3>1. locals[i] \in Address
            BY <2>1
        <3> QED
            BY <1>6, <1>9, <3>1
    <2>3. LocalsTyped(heap', locals)
        BY <1>1, <2>1, <2>2, LocalsStay DEF LocalsInv
    <2> QED
        BY <1>5, <2>3 DEF LocalsInv, LocalsTyped
<1>13. \A p : OnParts(p) = OnParts(p)' + Cardinality(Positions(t, p))
    <2>1. /\ heap[o] # Free /\ \A b \in Address : b # o => heap[b] = heap'[b]
          /\ heap[o].parts \in Seq(Address) /\ Len(heap[o].parts) <= MaxInputs + 2
        BY <1>1, <1>3, <1>6, PartsAreFew DEF Alive
    <2>2. PICK G, H : G = heap /\ H = heap'
        OBVIOUS
    <2>3. \A p : Cardinality(Holding(G, p))
                    = Cardinality(Holding(H, p)) + Cardinality(Positions(G[o].parts, p))
        BY <1>6, <2>1, <2>2, HoldingGrows
    <2>4. \A p : OnParts(p) = Cardinality(Holding(G, p)) /\ OnParts(p)' = Cardinality(Holding(H, p))
        BY <2>2 DEF OnParts, Holding
    <2> QED
        BY <1>4, <2>2, <2>3, <2>4
<1>14. \A p \in Address :
        OnHandles(p)' + OnParts(p)' + OnLocals(p)' + OnReleasing(p)' + Weight(o, p)
            = OnHandles(p) + OnParts(p) + OnLocals(p) + OnReleasing(p)
    <2> TAKE p \in Address
    <2>1. OnHandles(p)' = OnHandles(p) /\ OnLocals(p)' = OnLocals(p)
        BY <1>5 DEF OnHandles, OnLocals
    <2>2. PICK n \in Nat, m \in Nat :
            n = Cardinality(Positions(s, p)) /\ m = Cardinality(Positions(t, p))
        BY PositionsType
    <2>3. OnReleasing(p) = Weight(o, p) + n
        BY <1>2, <2>2
    <2>4. OnReleasing(p)' = m + n
        <3>1. OnReleasing(p)' = Cardinality(Positions(t \o s, p))
            BY <1>5 DEF OnReleasing, Positions
        <3> QED
            BY <2>2, <3>1, PositionsConcat
    <2>5. PICK q \in Nat : q = OnParts(p)'
        BY HoldingType DEF OnParts
    <2>6. OnParts(p) = q + m
        BY <1>13, <2>2, <2>5
    <2>7. PICK h \in Nat, l \in Nat, w \in Nat :
            h = OnHandles(p) /\ l = OnLocals(p) /\ w = Weight(o, p)
        BY <1>1, OwnersType, WeightType
    <2>8. h + q + l + (m + n) + w = h + (q + m) + l + (w + n)
        OBVIOUS
    <2> QED
        BY <2>1, <2>3, <2>4, <2>5, <2>6, <2>7, <2>8, Zenon
<1>15. Counted'
    BY <1>1, <1>2, <1>3, <1>5, <1>7, <1>10, <1>14, ReleasedCount
<1> QED
    BY <1>10, <1>11, <1>12, <1>15 DEF Inv

LEMMA ReleaseInv == ASSUME Inv, Release PROVE Inv'
BY ReleaseSharedInv, ReleaseLastInv

-----------------------------------------------------------------------------
(* The properties *)

\* Every step keeps the invariant.
LEMMA NextInv == Inv /\ [Next]_vars => Inv'
<1> SUFFICES ASSUME Inv, [Next]_vars PROVE Inv'
    OBVIOUS
<1>1. CASE MakeInput
    BY <1>1, MakeInputInv
<1>2. CASE MakeInputSet
    BY <1>2, MakeInputSetInv
<1>3. CASE MakeArchitectures
    BY <1>3, MakeArchitecturesInv
<1>4. CASE FactoryThrows
    BY <1>4, FactoryThrowsInv
<1>5. CASE Release
    BY <1>5, ReleaseInv
<1>6. ASSUME NEW h \in Handle,
             Return(h) \/ MakeRequest(h) \/ ResultThrows(h) \/ Destroy(h)
      PROVE  Inv'
    BY <1>6, ReturnInv, MakeRequestInv, ResultThrowsInv, DestroyInv
<1>7. ASSUME NEW h \in Handle, NEW g \in Handle,
             \/ MakeResult(h, g) \/ CopyConstruct(h, g) \/ MoveConstruct(h, g)
             \/ CopyAssign(h, g) \/ MoveAssign(h, g) \/ CopyPart(h, g)
      PROVE  Inv'
    BY <1>7, MakeResultInv, CopyConstructInv, MoveConstructInv, CopyAssignInv, MoveAssignInv,
       CopyPartInv
<1>8. CASE UNCHANGED vars
    BY <1>8 DEF vars, Inv, TypeOK, Counted, PartsInv, LocalsInv, Alive,
                OnHandles, OnParts, OnLocals, OnReleasing
<1> QED
    BY <1>1, <1>2, <1>3, <1>4, <1>5, <1>6, <1>7, <1>8 DEF Next

LEMMA InvHolds == Spec => []Inv
<1>1. Init => Inv
    BY InitInv
<1>2. Inv /\ [Next]_vars => Inv'
    BY NextInv
<1> QED
    BY <1>1, <1>2, PTL DEF Spec

\* An object points to a live representation of its class, whatever the client
\* does and whichever factory throws.
THEOREM HandlesTypeCorrect == Spec => []TypeOK
<1>1. Inv => TypeOK
    BY DEF Inv
<1> QED
    BY <1>1, InvHolds, PTL

\* The use count of a representation is the number of its owners, and it is alive
\* as long as it has one: it neither leaks nor is freed under an owner.
THEOREM OwnersAreCountedHolds == Spec => []OwnersAreCounted
<1>1. Inv => OwnersAreCounted
    BY OwnersSum DEF Inv, Counted, OwnersAreCounted
<1> QED
    BY <1>1, InvHolds, PTL

\* A representation keeps its parts alive, and gives out what it was made of.
THEOREM PartsAreRetainedHolds == Spec => []PartsAreRetained
<1>1. ASSUME Inv, NEW o \in Alive, NEW r, r = heap[o]
      PROVE  /\ {r.parts[i] : i \in DOMAIN r.parts} \subseteq Alive
             /\ r.kind = "input_set" => r.value = InputSetOf(r.parts)
             /\ r.kind = "request" => r.value = RequestOf(r.parts)
             /\ r.kind = "result" => r.value.request = heap[r.parts[1]].value
    <2>1. WellMade(heap, r)
        BY <1>1 DEF Inv, PartsInv
    <2>2. {r.parts[i] : i \in DOMAIN r.parts} \subseteq Alive
        BY <1>1, PartIsAlive DEF Inv
    <2>3. r.kind = "input_set" => r.value = InputSetOf(r.parts)
        BY <2>1 DEF WellMade, MadeOfInputs, InputSetOf
    <2>4. r.kind = "request" => r.value = RequestOf(r.parts)
        BY <2>1 DEF WellMade, MadeOfTwo, RequestOf
    <2>5. r.kind = "result" => r.value.request = heap[r.parts[1]].value
        <3> HAVE r.kind = "result"
        <3>1. PICK e \in Evidence : r.value = [request |-> heap[r.parts[1]].value, evidence |-> e]
            BY <2>1 DEF WellMade, MadeOfRequest
        <3> QED
            BY <3>1
    <2> QED
        BY <2>2, <2>3, <2>4, <2>5
<1>2. Inv => PartsAreRetained
    BY <1>1 DEF PartsAreRetained
<1> QED
    BY <1>2, InvHolds, PTL

-----------------------------------------------------------------------------
(* Sharing cannot be observed *)

\* The value of an object of the client, when objects point to f in memory H.
ValueAt(f, H, k) ==
    IF f[k] \in {o \in Address : H[o] # Free} THEN H[f[k]].value
    ELSE IF f[k] = Absent THEN Absent ELSE MovedFrom

LEMMA ValuesAre ==
    /\ ValueOf = [k \in Handle |-> ValueAt(handle, heap, k)]
    /\ ValueOf' = [k \in Handle |-> ValueAt(handle', heap', k)]
BY DEF ValueOf, ValueAt, Alive

\* An object has the value of its representation, or is marked.
LEMMA ValuePoints ==
    ASSUME TypeOK, NEW k \in Handle
    PROVE  /\ handle[k] \in Address =>
                ValueOf[k] = heap[handle[k]].value /\ ValueOf[k] \notin {Absent, MovedFrom}
           /\ handle[k] \in {Absent, MovedFrom} => ValueOf[k] = handle[k]
<1>1. ValueOf[k] = ValueAt(handle, heap, k)
    BY ValuesAre
<1>2. ASSUME handle[k] \in Address
      PROVE  ValueOf[k] = heap[handle[k]].value /\ ValueOf[k] \notin {Absent, MovedFrom}
    <2>1. handle[k] \in Alive /\ heap[handle[k]] \in Representation
        BY <1>2 DEF TypeOK, Alive
    <2>2. heap[handle[k]].value \in Value
        BY <2>1 DEF Representation
    <2> QED
        BY <1>1, <2>1, <2>2, MarkAssumption DEF ValueAt, Alive
<1>3. handle[k] \in {Absent, MovedFrom} => ValueOf[k] = handle[k]
    BY <1>1, MarksAreNoAddress DEF ValueAt
<1> QED
    BY <1>2, <1>3

\* No step changes a representation that is alive before and after it.
MemoryKept == \A o \in Alive : o \in Alive' => heap'[o] = heap[o]

LEMMA AllocationKeeps ==
    ASSUME TypeOK, HasMemory, NEW r, heap' = [heap EXCEPT ![Fresh] = r]
    PROVE  MemoryKept
<1>1. \E o \in Address : o \notin Alive
    BY DEF HasMemory, Alive
<1>2. Fresh \notin Alive
    BY <1>1 DEF Fresh
<1> QED
    BY <1>2 DEF MemoryKept, Alive, TypeOK

LEMMA NextKeeps == ASSUME TypeOK, Next PROVE MemoryKept
<1>1. CASE UNCHANGED heap
    BY <1>1 DEF MemoryKept
<1>2. ASSUME HasMemory, NEW r, heap' = [heap EXCEPT ![Fresh] = r] PROVE MemoryKept
    BY <1>2, AllocationKeeps
<1>3. CASE MakeInput \/ MakeInputSet \/ MakeArchitectures
    BY <1>2, <1>3 DEF MakeInput, MakeInputSet, MakeArchitectures, MakeLocal, Allocated
<1>4. CASE Release
    BY <1>1, <1>4 DEF Release, MemoryKept, Alive, TypeOK
<1>5. CASE \E h \in Handle : MakeRequest(h)
    BY <1>2, <1>5 DEF MakeRequest, Allocated
<1>6. CASE \E h, g \in Handle : MakeResult(h, g)
    BY <1>2, <1>6 DEF MakeResult, Allocated
<1>7. CASE \/ FactoryThrows
           \/ \E h \in Handle :
                \/ Return(h) \/ ResultThrows(h) \/ Destroy(h)
                \/ \E g \in Handle :
                    \/ CopyConstruct(h, g) \/ MoveConstruct(h, g)
                    \/ CopyAssign(h, g) \/ MoveAssign(h, g) \/ CopyPart(h, g)
    BY <1>1, <1>7 DEF FactoryThrows, Return, ResultThrows, Destroy, CopyConstruct,
                      MoveConstruct, CopyAssign, MoveAssign, CopyPart
<1> QED
    BY <1>3, <1>4, <1>5, <1>6, <1>7 DEF Next

\* An object that points to where another one pointed has its value.
LEMMA SameValue ==
    ASSUME TypeOK, TypeOK', MemoryKept, NEW h \in Handle, NEW g \in Handle, handle'[h] = handle[g]
    PROVE  ValueOf'[h] = ValueOf[g]
<1>1. ValueOf[g] = ValueAt(handle, heap, g) /\ ValueOf'[h] = ValueAt(handle', heap', h)
    BY ValuesAre
<1>2. CASE handle[g] \in Address
    <2>1. PICK o \in Address : o = handle[g] /\ o \in Alive /\ o \in Alive' /\ o = handle'[h]
        BY <1>2 DEF TypeOK
    <2>2. heap'[o] = heap[o] /\ heap[o] # Free
        BY <2>1 DEF MemoryKept, Alive
    <2> QED
        BY <1>1, <2>1, <2>2 DEF ValueAt
<1>3. CASE handle[g] \notin Address
    BY <1>1, <1>3 DEF ValueAt
<1> QED
    BY <1>2, <1>3

\* The value of an object that is pointed elsewhere, and of one that is marked.
LEMMA ValueAfter ==
    ASSUME TypeOK', NEW h \in Handle
    PROVE  /\ handle'[h] \in Address => ValueOf'[h] = heap'[handle'[h]].value
           /\ handle'[h] \in {Absent, MovedFrom} => ValueOf'[h] = handle'[h]
<1>1. ValueOf'[h] = ValueAt(handle', heap', h)
    BY ValuesAre
<1>2. handle'[h] \in Address => heap'[handle'[h]] # Free
    BY DEF TypeOK, Alive
<1> QED
    BY <1>1, <1>2, MarksAreNoAddress DEF ValueAt

\* One object, or two, take other values.
LEMMA OneBecomes ==
    ASSUME TypeOK, TypeOK', MemoryKept, NEW h \in Handle,
           \A k \in Handle : k # h => handle'[k] = handle[k]
    PROVE  Values!Becomes(h, ValueOf'[h])
<1>1. \A k \in Handle : k # h => ValueOf'[k] = ValueOf[k]
    BY SameValue
<1>2. PICK V, W : V = ValueOf /\ W = ValueOf'
    OBVIOUS
<1>3. DOMAIN V = Handle /\ DOMAIN W = Handle /\ W = [k \in Handle |-> W[k]] /\ V = [k \in Handle |-> V[k]]
    BY <1>2, ValuesAre
<1>4. W = [V EXCEPT ![h] = W[h]]
    BY <1>1, <1>2, <1>3
<1> QED
    BY <1>2, <1>4 DEF Values!Becomes

LEMMA TwoBecome ==
    ASSUME TypeOK, TypeOK', MemoryKept, NEW h \in Handle, NEW g \in Handle, h # g,
           \A k \in Handle : k # h /\ k # g => handle'[k] = handle[k]
    PROVE  ValueOf' = [ValueOf EXCEPT ![h] = ValueOf'[h], ![g] = ValueOf'[g]]
<1>1. \A k \in Handle : k # h /\ k # g => ValueOf'[k] = ValueOf[k]
    BY SameValue
<1>2. PICK V, W : V = ValueOf /\ W = ValueOf'
    OBVIOUS
<1>3. DOMAIN V = Handle /\ DOMAIN W = Handle /\ W = [k \in Handle |-> W[k]] /\ V = [k \in Handle |-> V[k]]
    BY <1>2, ValuesAre
<1>4. W = [V EXCEPT ![h] = W[h], ![g] = W[g]]
    BY <1>1, <1>2, <1>3
<1> QED
    BY <1>2, <1>4

\* No object is pointed elsewhere.
LEMMA NoneBecomes ==
    ASSUME TypeOK, TypeOK', MemoryKept, UNCHANGED handle
    PROVE  UNCHANGED ValueOf
<1>1. \A k \in Handle : ValueOf'[k] = ValueOf[k]
    BY SameValue
<1>2. PICK V, W : V = ValueOf /\ W = ValueOf'
    OBVIOUS
<1>3. W = [k \in Handle |-> W[k]] /\ V = [k \in Handle |-> V[k]]
    BY <1>2, ValuesAre
<1> QED
    BY <1>1, <1>2, <1>3

\* Each operation of the client is an operation on values.
LEMMA CopyOfValue ==
    ASSUME TypeOK, TypeOK', MemoryKept, NEW h \in Handle, NEW g \in Handle,
           KindOf[h] = KindOf[g], handle[g] # Absent, handle' = [handle EXCEPT ![h] = handle[g]]
    PROVE  Values!Copy(h, g)
<1>1. handle'[h] = handle[g] /\ \A k \in Handle : k # h => handle'[k] = handle[k]
    BY DEF TypeOK
<1>2. Values!Becomes(h, ValueOf'[h]) /\ ValueOf'[h] = ValueOf[g]
    BY <1>1, OneBecomes, SameValue
<1>3. ValueOf[g] # Absent
    BY ValuePoints, MarkAssumption DEF TypeOK
<1> QED
    BY <1>2, <1>3 DEF Values!Copy

LEMMA MoveOfValue ==
    ASSUME TypeOK, TypeOK', MemoryKept, NEW h \in Handle, NEW g \in Handle, h # g,
           KindOf[h] = KindOf[g], handle[g] # Absent,
           handle' = [handle EXCEPT ![h] = handle[g], ![g] = MovedFrom]
    PROVE  Values!Move(h, g)
<1>1. /\ handle'[h] = handle[g] /\ handle'[g] = MovedFrom
      /\ \A k \in Handle : k # h /\ k # g => handle'[k] = handle[k]
    BY MovedHandles
<1>2. ValueOf' = [ValueOf EXCEPT ![h] = ValueOf'[h], ![g] = ValueOf'[g]]
    BY <1>1, TwoBecome
<1>3. ValueOf'[h] = ValueOf[g] /\ ValueOf'[g] = MovedFrom
    BY <1>1, SameValue, ValueAfter
<1>4. ValueOf[g] # Absent
    BY ValuePoints, MarkAssumption DEF TypeOK
<1> QED
    BY <1>2, <1>3, <1>4 DEF Values!Move

LEMMA MarkOfValue ==
    ASSUME TypeOK, TypeOK', MemoryKept, NEW h \in Handle, NEW mark \in {Absent, MovedFrom},
           handle' = [handle EXCEPT ![h] = mark]
    PROVE  Values!Becomes(h, mark)
<1>1. handle'[h] = mark /\ \A k \in Handle : k # h => handle'[k] = handle[k]
    BY DEF TypeOK
<1> QED
    BY <1>1, OneBecomes, ValueAfter

\* A factory returns a value of the class of the object.
LEMMA ReturnOfValue ==
    ASSUME Inv, Inv', MemoryKept, NEW h \in Handle, Return(h)
    PROVE  Values!Make(h)
<1>1. TypeOK /\ TypeOK' /\ PartsInv /\ Counted
    BY DEF Inv
<1>2. PICK x : x = locals[1] /\ x \in Alive /\ x \in Address /\ heap[x].kind = KindOf[h]
    <2>1. Len(locals) = 1 /\ locals \in Seq(Address) /\ heap[locals[1]].kind = KindOf[h]
        BY <1>1, LocalKindsAre DEF Return, TypeOK
    <2> QED
        BY <1>1, <2>1, OwnedIsAlive
<1>3. KindOf[h] \in {"input_set", "architectures"}
    <2>1. Len(locals) = 1 /\ heap[locals[1]].kind = KindOf[h] /\ KindOf[h] # "input"
        BY <1>1, LocalKindsAre DEF Return
    <2>2. 1 \in DOMAIN locals
        BY <1>1, <2>1 DEF TypeOK
    <2> QED
        BY <2>1, <2>2 DEF Inv, LocalsInv, LocalsTyped
<1>4. handle'[h] = x /\ heap'[x] = heap[x] /\ \A k \in Handle : k # h => handle'[k] = handle[k]
    BY <1>1, <1>2 DEF Return, TypeOK
<1>5. Values!Becomes(h, ValueOf'[h]) /\ ValueOf'[h] = heap[x].value
    BY <1>1, <1>2, <1>4, OneBecomes, ValueAfter
<1>6. heap[x].value \in Values!Made(KindOf[h])
    BY <1>1, <1>2, <1>3, ValuesOfKinds DEF Values!Made
<1>7. ValueOf[h] = Absent
    BY <1>1, ValuePoints DEF Return
<1> QED
    BY <1>3, <1>5, <1>6, <1>7 DEF Values!Make

LEMMA RequestOfValue ==
    ASSUME Inv, Inv', MemoryKept, NEW h \in Handle, MakeRequest(h)
    PROVE  Values!Make(h)
<1>1. TypeOK /\ TypeOK' /\ PartsInv /\ PartsInv'
    BY DEF Inv
<1>2. PICK a : a = Fresh /\ a \in Address /\ a \notin Alive
    <2>1. \E o \in Address : o \notin Alive
        BY DEF MakeRequest, HasMemory, Alive
    <2> QED
        BY <2>1 DEF Fresh
<1>3. handle'[h] = a /\ \A k \in Handle : k # h => handle'[k] = handle[k]
    BY <1>1, <1>2 DEF MakeRequest, TypeOK
<1>4. PICK s, v : s = locals /\ v = RequestOf(locals)
    OBVIOUS
<1>5. heap'[a].value = v /\ v \in Request
    <2>1. heap'[a] = [kind |-> "request", value |-> v, parts |-> s]
        BY <1>1, <1>2, <1>4 DEF MakeRequest, Allocated, TypeOK
    <2>2. Len(s) = 2 /\ heap[s[1]].kind = "input_set" /\ heap[s[2]].kind = "architectures"
        BY <1>1, <1>4, LocalKindsAre DEF MakeRequest
    <2>3. s \in Seq(Address) /\ \A i \in DOMAIN s : s[i] \in Alive
        BY <1>1, <1>4, OwnedIsAlive DEF Inv, TypeOK
    <2>4. s[1] \in Alive /\ s[2] \in Alive
        BY <2>2, <2>3
    <2>5. v \in Request
        BY <1>1, <1>4, <2>2, <2>4, ValuesOfKinds DEF RequestOf, Request
    <2> QED
        BY <2>1, <2>5
<1>6. Values!Becomes(h, ValueOf'[h]) /\ ValueOf'[h] = v
    BY <1>1, <1>2, <1>3, <1>5, OneBecomes, ValueAfter
<1>7. ValueOf[h] = Absent /\ KindOf[h] = "request"
    BY <1>1, ValuePoints DEF MakeRequest
<1>8. v \in Values!Made("request")
    BY <1>5 DEF Values!Made, Values!Request, Request
<1> QED
    BY <1>6, <1>7, <1>8 DEF Values!Make

LEMMA ResultOfValue ==
    ASSUME Inv, Inv', MemoryKept, NEW h \in Handle, NEW g \in Handle, MakeResult(h, g)
    PROVE  Values!Conclude(h, g)
<1>1. TypeOK /\ TypeOK'
    BY DEF Inv
<1>2. PICK a : a = Fresh /\ a \in Address /\ a \notin Alive
    <2>1. \E o \in Address : o \notin Alive
        BY DEF MakeResult, HasMemory, Alive
    <2> QED
        BY <2>1 DEF Fresh
<1>3. h # g /\ handle[h] = Absent /\ handle[g] \in Address
    BY MarksAreNoAddress DEF MakeResult
<1>4. ValueOf[h] = Absent /\ ValueOf[g] \notin {Absent, MovedFrom} /\ ValueOf[g] = heap[handle[g]].value
    BY <1>1, <1>3, ValuePoints
<1>5. PICK e \in Evidence :
        heap' = Allocated("result", ResultOf(<<handle[g]>>, e), <<handle[g]>>)
    BY DEF MakeResult
<1>6. heap'[a].value = [request |-> ValueOf[g], evidence |-> e]
    <2>1. heap'[a] = [kind |-> "result", value |-> ResultOf(<<handle[g]>>, e), parts |-> <<handle[g]>>]
        BY <1>1, <1>2, <1>5 DEF Allocated, TypeOK
    <2>2. ResultOf(<<handle[g]>>, e) = [request |-> ValueOf[g], evidence |-> e]
        BY <1>4 DEF ResultOf
    <2> QED
        BY <2>1, <2>2
<1>7. \/ handle' = [handle EXCEPT ![h] = Fresh]
      \/ handle' = [handle EXCEPT ![h] = Fresh, ![g] = MovedFrom]
    BY DEF MakeResult
<1>8. /\ handle'[h] = a /\ handle'[g] \in {handle[g], MovedFrom}
      /\ \A k \in Handle : k # h /\ k # g => handle'[k] = handle[k]
    BY <1>1, <1>2, <1>3, <1>7 DEF TypeOK
<1>9. ValueOf' = [ValueOf EXCEPT ![h] = ValueOf'[h], ![g] = ValueOf'[g]]
    BY <1>1, <1>3, <1>8, TwoBecome
<1>10. ValueOf'[h] = [request |-> ValueOf[g], evidence |-> e]
    BY <1>1, <1>2, <1>6, <1>8, ValueAfter
<1>11. ValueOf'[g] \in {ValueOf[g], MovedFrom}
    BY <1>1, <1>8, SameValue, ValueAfter
<1>12. KindOf[h] = "result" /\ KindOf[g] = "request"
    BY DEF MakeResult
<1> QED
    BY <1>4, <1>9, <1>10, <1>11, <1>12 DEF Values!Conclude, Values!Empty

\* An accessor gives out what the value of its object is made of.
LEMMA PartOfValue ==
    ASSUME Inv, Inv', MemoryKept, NEW h \in Handle, NEW g \in Handle, CopyPart(h, g)
    PROVE  Values!Project(h, g)
<1>1. TypeOK /\ TypeOK' /\ PartsInv
    BY DEF Inv
<1>2. PICK o \in Alive : o = handle[g] /\ heap[o].kind = KindOf[g] /\ KindOf[g] \in Kind
    BY <1>1, HandleAssumption DEF TypeOK, CopyPart
<1>3. PICK i \in DOMAIN heap[o].parts :
        /\ heap[heap[o].parts[i]].kind = KindOf[h]
        /\ handle' = [handle EXCEPT ![h] = heap[o].parts[i]]
    BY <1>2 DEF CopyPart
<1>4. PICK x : /\ x = heap[o].parts[i]
               /\ heap[x].kind = KindOf[h]
               /\ handle' = [handle EXCEPT ![h] = x]
    BY <1>3
<1>5. x \in Alive /\ x \in Address
    BY <1>1, <1>4, PartIsAlive DEF Alive
<1>6. /\ handle'[h] = x /\ heap'[x] = heap[x]
      /\ \A k \in Handle : k # h => handle'[k] = handle[k]
    BY <1>1, <1>4 DEF CopyPart, TypeOK
<1>7. Values!Becomes(h, ValueOf'[h]) /\ ValueOf'[h] = heap[x].value
    BY <1>1, <1>5, <1>6, OneBecomes, ValueAfter
<1>8. ValueOf[h] = Absent /\ ValueOf[g] \notin Values!Empty /\ ValueOf[g] = heap[o].value
    BY <1>1, <1>2, ValuePoints DEF CopyPart, Values!Empty
<1>9. PICK r : r = heap[o]
    OBVIOUS
<1>10. WellMade(heap, r) /\ r.parts \in Seq(Address) /\ r.kind = KindOf[g] /\ x = r.parts[i] /\ i \in DOMAIN r.parts
    BY <1>1, <1>2, <1>4, <1>9, PartsAreFew DEF PartsInv
<1>11. CASE KindOf[g] \in {"input", "architectures"}
    BY <1>10, <1>11 DEF WellMade, MadeAlone
<1>12. CASE KindOf[g] = "input_set"
    <2>1. KindOf[h] = "input" /\ i \in DOMAIN r.value /\ r.value[i] = heap[x].value
        BY <1>4, <1>10, <1>12 DEF WellMade, MadeOfInputs
    <2> QED
        BY <1>7, <1>8, <1>9, <1>12, <2>1 DEF Values!Project
<1>13. CASE KindOf[g] = "request"
    <2>1. MadeOfTwo(heap, r)
        BY <1>10, <1>13 DEF WellMade
    <2>2. i = 1 \/ i = 2
        <3>1. DOMAIN r.parts = 1..2
            BY <1>10, <2>1 DEF MadeOfTwo
        <3> QED
            BY <1>10, <3>1
    <2>3. CASE i = 1
        <3>1. KindOf[h] = "input_set" /\ r.value.inputs = heap[x].value
            BY <1>4, <1>10, <2>1, <2>3 DEF MadeOfTwo
        <3> QED
            BY <1>7, <1>8, <1>9, <1>13, <3>1 DEF Values!Project
    <2>4. CASE i = 2
        <3>1. KindOf[h] = "architectures" /\ r.value.architectures = heap[x].value
            BY <1>4, <1>10, <2>1, <2>4 DEF MadeOfTwo
        <3> QED
            BY <1>7, <1>8, <1>9, <1>13, <3>1 DEF Values!Project
    <2> QED
        BY <2>2, <2>3, <2>4
<1>14. CASE KindOf[g] = "result"
    <2>1. MadeOfRequest(heap, r)
        BY <1>10, <1>14 DEF WellMade
    <2>2. i = 1
        <3>1. DOMAIN r.parts = 1..1
            BY <1>10, <2>1 DEF MadeOfRequest
        <3> QED
            BY <1>10, <3>1
    <2>3. PICK e \in Evidence : r.value = [request |-> heap[r.parts[1]].value, evidence |-> e]
        BY <2>1 DEF MadeOfRequest
    <2>4. KindOf[h] = "request" /\ r.value.request = heap[x].value
        BY <1>4, <1>10, <2>1, <2>2, <2>3 DEF MadeOfRequest
    <2> QED
        BY <1>7, <1>8, <1>9, <1>14, <2>4 DEF Values!Project
<1> QED
    BY <1>2, <1>11, <1>12, <1>13, <1>14 DEF Kind

\* Every step is an operation on values, or is not seen.
LEMMA StepOfValues == ASSUME Inv, [Next]_vars PROVE [Values!Next]_ValueOf
<1>1. Inv' /\ TypeOK /\ TypeOK'
    BY NextInv DEF Inv
<1>2. CASE UNCHANGED vars
    BY <1>2 DEF vars, ValueOf, Alive
<1> SUFFICES ASSUME Next PROVE Values!Next \/ UNCHANGED ValueOf
    BY <1>2
<1>3. MemoryKept
    BY <1>1, NextKeeps
<1>4. CASE MakeInput \/ MakeInputSet \/ MakeArchitectures \/ FactoryThrows \/ Release
    <2>1. UNCHANGED handle
        BY <1>4 DEF MakeInput, MakeInputSet, MakeArchitectures, MakeLocal, FactoryThrows, Release
    <2> QED
        BY <1>1, <1>3, <2>1, NoneBecomes
<1>5. ASSUME NEW h \in Handle, Return(h) \/ MakeRequest(h) PROVE Values!Next
    <2>1. Values!Make(h)
        BY <1>1, <1>3, <1>5, ReturnOfValue, RequestOfValue
    <2> QED
        BY <2>1 DEF Values!Next
<1>6. ASSUME NEW h \in Handle, ResultThrows(h) PROVE Values!Next
    <2>1. Values!Becomes(h, MovedFrom)
        BY <1>1, <1>3, <1>6, MarkOfValue DEF ResultThrows
    <2>2. ValueOf[h] # Absent /\ KindOf[h] = "request"
        BY <1>1, <1>6, ValuePoints DEF ResultThrows
    <2> QED
        BY <2>1, <2>2 DEF Values!Next, Values!Lose
<1>7. ASSUME NEW h \in Handle, Destroy(h) PROVE Values!Next
    <2>1. Values!Becomes(h, Absent)
        BY <1>1, <1>3, <1>7, MarkOfValue DEF Destroy
    <2> QED
        BY <2>1 DEF Values!Next, Values!Destroy
<1>8. ASSUME NEW h \in Handle, NEW g \in Handle, MakeResult(h, g) PROVE Values!Next
    BY <1>1, <1>3, <1>8, ResultOfValue DEF Values!Next
<1>9. ASSUME NEW h \in Handle, NEW g \in Handle, CopyConstruct(h, g) \/ CopyAssign(h, g)
      PROVE  Values!Next
    <2>1. Values!Copy(h, g)
        BY <1>1, <1>3, <1>9, CopyOfValue DEF CopyConstruct, CopyAssign
    <2> QED
        BY <2>1 DEF Values!Next
<1>10. ASSUME NEW h \in Handle, NEW g \in Handle, MoveConstruct(h, g) \/ MoveAssign(h, g)
       PROVE  Values!Next
    <2>1. h # g
        BY <1>10 DEF MoveConstruct, MoveAssign
    <2>2. Values!Move(h, g)
        BY <1>1, <1>3, <1>10, <2>1, MoveOfValue DEF MoveConstruct, MoveAssign, AfterMove
    <2> QED
        BY <2>2 DEF Values!Next
<1>11. ASSUME NEW h \in Handle, NEW g \in Handle, CopyPart(h, g) PROVE Values!Next
    BY <1>1, <1>3, <1>11, PartOfValue DEF Values!Next
<1> QED
    BY <1>4, <1>5, <1>6, <1>7, <1>8, <1>9, <1>10, <1>11 DEF Next

\* Sharing cannot be observed: objects that share a representation behave as if
\* each held a value of its own, which changes only when the object itself is
\* assigned, moved from or destroyed.
THEOREM SharingIsHidden == Spec => HandlesAreValues
<1>1. Init => Values!Init
    BY MarksAreNoAddress DEF Init, Values!Init, ValueOf, Alive
<1>2. Inv /\ [Next]_vars => [Values!Next]_ValueOf
    BY StepOfValues
<1> QED
    BY <1>1, <1>2, InvHolds, PTL DEF Spec, HandlesAreValues, Values!Spec

=============================================================================
