---------------------------- MODULE OpaqueHandles ----------------------------
(***************************************************************************)
(* build_input, build_input_set, architecture_binding, build_request and   *)
(* build_result: an object of each is one std::shared_ptr to a constant    *)
(* representation, which may hold objects of the others.  A representation *)
(* is shared by all copies and freed with the last of them.                *)
(*                                                                         *)
(* The client makes, copies, moves, assigns and destroys objects in any    *)
(* order.  It does not use what it moved from, other than to assign or     *)
(* destroy it or to copy or move it on: an accessor would dereference null.*)
(* A factory may run out of memory, or fail to derive an identity, between *)
(* any two of the objects it makes.                                        *)
(*                                                                         *)
(* LeftBehind, Uncounted and KeepsParts are not used here: each is the     *)
(* definition after it with one mistake, which the properties are known to *)
(* notice (PROJECT.json, "mutants").                                       *)
(***************************************************************************)
EXTENDS Naturals, Sequences, FiniteSets

CONSTANTS
    Handle, KindOf,     \* objects of the client and the class of each
    Input, Architecture, Evidence,
    MaxInputs,          \* bound: inputs of one set
    Size,               \* bound: representations alive at once
    Absent,             \* no object is alive in this place
    MovedFrom,          \* impl_ is null
    Free                \* no representation is at this address

Address == 1..Size

Kind == {"input", "input_set", "architectures", "request", "result"}

\* What objects of each class stand for; an input set has an input per element.
InputSets == UNION {[1..n -> Input] : n \in 0..MaxInputs}
Request == [inputs : InputSets, architectures : Architecture]
Result == [request : Request, evidence : Evidence]
Value == Input \cup InputSets \cup Architecture \cup Request \cup Result

\* The objects a representation holds are its parts, in the order of its members.
Representation == [kind : Kind, value : Value, parts : Seq(Address)]

ASSUME SizeAssumption == Size \in Nat /\ MaxInputs \in Nat
ASSUME HandleAssumption == IsFiniteSet(Handle) /\ KindOf \in [Handle -> Kind]

\* The marks are no addresses and no values.
ASSUME MarkAssumption ==
    /\ Absent # MovedFrom
    /\ \A mark \in {Absent, MovedFrom} : mark \notin Address /\ mark \notin Value
    /\ Free \notin Representation

VARIABLES
    handle,     \* impl_ of each object of the client
    heap,       \* the representation at each address
    count,      \* the use count beside it
    locals,     \* objects of the factory that is running, oldest first
    releasing   \* impl_ of objects being destroyed, next first

vars == <<handle, heap, count, locals, releasing>>

Init ==
    /\ handle = [h \in Handle |-> Absent]
    /\ heap = [o \in Address |-> Free]
    /\ count = [o \in Address |-> 0]
    /\ locals = <<>>
    /\ releasing = <<>>

-----------------------------------------------------------------------------
(* Representations *)

Alive == {o \in Address : heap[o] # Free}

\* The members of a representation: the objects in it, and data of its own.
InputSetOf(parts) == [i \in DOMAIN parts |-> heap[parts[i]].value]
RequestOf(parts) ==
    [inputs |-> heap[parts[1]].value, architectures |-> heap[parts[2]].value]
ResultOf(parts, evidence) == [request |-> heap[parts[1]].value, evidence |-> evidence]

\* std::make_shared: a free address, and a use count of one.
HasMemory == Alive # Address
Fresh == CHOOSE o \in Address : o \notin Alive
Allocated(kind, v, parts) ==
    [heap EXCEPT ![Fresh] = [kind |-> kind, value |-> v, parts |-> parts]]

Retained(counts, o) == IF o \in Address THEN [counts EXCEPT ![o] = @ + 1] ELSE counts
Dropped(o) == IF o \in Address THEN <<o>> ELSE <<>>

\* The client runs: nothing is being destroyed and no factory is running.
Running == releasing = <<>> /\ locals = <<>>

-----------------------------------------------------------------------------
(* Factories *)

LocalKinds == [i \in DOMAIN locals |-> heap[locals[i]].kind]

MakeLocal(kind, v, parts, kept) ==
    /\ HasMemory
    /\ heap' = Allocated(kind, v, parts)
    /\ count' = [count EXCEPT ![Fresh] = 1]
    /\ locals' = Append(kept, Fresh)
    /\ UNCHANGED <<handle, releasing>>

\* The loop of build_input_set::admit.
MakeInput ==
    /\ releasing = <<>>
    /\ \A i \in DOMAIN locals : LocalKinds[i] = "input"
    /\ Len(locals) < MaxInputs
    /\ \E v \in Input : MakeLocal("input", v, <<>>, locals)

\* Its return: the vector of inputs is moved into the representation.
MakeInputSet ==
    /\ releasing = <<>>
    /\ \A i \in DOMAIN locals : LocalKinds[i] = "input"
    /\ MakeLocal("input_set", InputSetOf(locals), locals, <<>>)

\* architecture_binding::select, called by the client or by seal.
MakeArchitectures ==
    /\ releasing = <<>>
    /\ LocalKinds \in {<<>>, <<"input_set">>}
    /\ \E v \in Architecture : MakeLocal("architectures", v, <<>>, locals)

\* The object is constructed where the caller of admit or select wants it.
Return(h) ==
    /\ releasing = <<>>
    /\ handle[h] = Absent
    /\ LocalKinds = <<KindOf[h]>> /\ KindOf[h] # "input"
    /\ handle' = [handle EXCEPT ![h] = locals[1]]
    /\ locals' = <<>>
    /\ UNCHANGED <<heap, count, releasing>>

\* build_request::seal moves its two objects into the representation.
MakeRequest(h) ==
    /\ releasing = <<>>
    /\ handle[h] = Absent /\ KindOf[h] = "request"
    /\ LocalKinds = <<"input_set", "architectures">>
    /\ HasMemory
    /\ heap' = Allocated("request", RequestOf(locals), locals)
    /\ count' = [count EXCEPT ![Fresh] = 1]
    /\ handle' = [handle EXCEPT ![h] = Fresh]
    /\ locals' = <<>>
    /\ UNCHANGED releasing

\* An exception leaves the factory: its objects are destroyed, newest first.
FactoryThrows ==
    /\ releasing = <<>>
    /\ locals # <<>>
    /\ releasing' = [i \in DOMAIN locals |-> locals[Len(locals) + 1 - i]]
    /\ locals' = <<>>
    /\ UNCHANGED <<handle, heap, count>>

\* build_result::succeeded and failed: the parameter is a copy of the client's
\* request or was moved from it, and is moved into the representation.
MakeResult(h, g) ==
    /\ Running
    /\ handle[h] = Absent /\ KindOf[h] = "result"
    /\ handle[g] \in Address /\ KindOf[g] = "request"
    /\ HasMemory
    /\ \E e \in Evidence :
            heap' = Allocated("result", ResultOf(<<handle[g]>>, e), <<handle[g]>>)
    /\ \/ /\ handle' = [handle EXCEPT ![h] = Fresh]
          /\ count' = [Retained(count, handle[g]) EXCEPT ![Fresh] = 1]
       \/ /\ handle' = [handle EXCEPT ![h] = Fresh, ![g] = MovedFrom]
          /\ count' = [count EXCEPT ![Fresh] = 1]
    /\ UNCHANGED <<locals, releasing>>

\* They throw: a parameter that was moved into is destroyed with its request.
ResultThrows(g) ==
    /\ Running
    /\ handle[g] \in Address /\ KindOf[g] = "request"
    /\ handle' = [handle EXCEPT ![g] = MovedFrom]
    /\ releasing' = <<handle[g]>>
    /\ UNCHANGED <<heap, count, locals>>

-----------------------------------------------------------------------------
(* Special member functions and accessors *)

\* The defaulted copies are those of std::shared_ptr.
CopyConstruct(h, g) ==
    /\ Running
    /\ handle[h] = Absent /\ handle[g] # Absent /\ KindOf[h] = KindOf[g]
    /\ handle' = [handle EXCEPT ![h] = handle[g]]
    /\ count' = Retained(count, handle[g])
    /\ UNCHANGED <<heap, locals, releasing>>

LeftBehind(g) == handle[g]
AfterMove(g) == MovedFrom

MoveConstruct(h, g) ==
    /\ Running
    /\ handle[h] = Absent /\ handle[g] # Absent /\ KindOf[h] = KindOf[g]
    /\ handle' = [handle EXCEPT ![h] = handle[g], ![g] = AfterMove(g)]
    /\ UNCHANGED <<heap, count, locals, releasing>>

Uncounted(h, g) == count
\* The new representation is retained before the old one is released, which
\* makes the assignment of an object to itself safe.
CopyAssigned(h, g) == Retained(count, handle[g])

CopyAssign(h, g) ==
    /\ Running
    /\ handle[h] # Absent /\ handle[g] # Absent /\ KindOf[h] = KindOf[g]
    /\ handle' = [handle EXCEPT ![h] = handle[g]]
    /\ count' = CopyAssigned(h, g)
    /\ releasing' = Dropped(handle[h])
    /\ UNCHANGED <<heap, locals>>

\* Moving an object to itself changes nothing.
MoveAssign(h, g) ==
    /\ Running
    /\ h # g
    /\ handle[h] # Absent /\ handle[g] # Absent /\ KindOf[h] = KindOf[g]
    /\ handle' = [handle EXCEPT ![h] = handle[g], ![g] = AfterMove(g)]
    /\ releasing' = Dropped(handle[h])
    /\ UNCHANGED <<heap, count, locals>>

Destroy(h) ==
    /\ Running
    /\ handle[h] # Absent
    /\ handle' = [handle EXCEPT ![h] = Absent]
    /\ releasing' = Dropped(handle[h])
    /\ UNCHANGED <<heap, count, locals>>

\* A copy of an object in the representation: request(), inputs(),
\* architectures(), an element of inputs() or of for_scope(scope).
CopyPart(h, g) ==
    /\ Running
    /\ handle[h] = Absent /\ handle[g] \in Address
    /\ \E i \in DOMAIN heap[handle[g]].parts :
        LET part == heap[handle[g]].parts[i] IN
            /\ heap[part].kind = KindOf[h]
            /\ handle' = [handle EXCEPT ![h] = part]
            /\ count' = Retained(count, part)
    /\ UNCHANGED <<heap, locals, releasing>>

-----------------------------------------------------------------------------
(* Destruction *)

KeepsParts(o) == <<>>
\* The objects destroyed with a representation.
PartsOf(o) == heap[o].parts

\* ~shared_ptr; the last one destroys the representation.
Release ==
    /\ releasing # <<>>
    /\ LET o == Head(releasing) IN
        /\ count' = [count EXCEPT ![o] = @ - 1]
        /\ IF count[o] = 1
           THEN /\ heap' = [heap EXCEPT ![o] = Free]
                /\ releasing' = PartsOf(o) \o Tail(releasing)
           ELSE /\ releasing' = Tail(releasing)
                /\ UNCHANGED heap
    /\ UNCHANGED <<handle, locals>>

Next ==
    \/ MakeInput
    \/ MakeInputSet
    \/ MakeArchitectures
    \/ FactoryThrows
    \/ Release
    \/ \E h \in Handle :
        \/ Return(h)
        \/ MakeRequest(h)
        \/ ResultThrows(h)
        \/ Destroy(h)
        \/ \E g \in Handle :
            \/ MakeResult(h, g)
            \/ CopyConstruct(h, g)
            \/ MoveConstruct(h, g)
            \/ CopyAssign(h, g)
            \/ MoveAssign(h, g)
            \/ CopyPart(h, g)

Spec == Init /\ [][Next]_vars

-----------------------------------------------------------------------------
(* Properties *)

\* The variables hold the values their C++ types allow: an object of a class
\* points to a representation of that class.
TypeOK ==
    /\ handle \in [Handle -> Address \cup {Absent, MovedFrom}]
    /\ heap \in [Address -> Representation \cup {Free}]
    /\ count \in [Address -> Nat]
    /\ \A h \in Handle : handle[h] \in Address =>
            handle[h] \in Alive /\ heap[handle[h]].kind = KindOf[h]
    /\ locals \in Seq(Address)
    /\ releasing \in Seq(Address)

Positions(s, o) == {i \in DOMAIN s : s[i] = o}

\* The objects that own a representation: of the client, in another
\* representation, of a factory, or in the middle of their destruction.
Owners(o) ==
    Cardinality({h \in Handle : handle[h] = o})
    + Cardinality({m \in Alive \X (1..MaxInputs + 2) :
                        m[2] \in Positions(heap[m[1]].parts, o)})
    + Cardinality(Positions(locals, o))
    + Cardinality(Positions(releasing, o))

\* A representation is alive as long as an object owns it, and no longer: none
\* leaks, is freed twice or is freed under an owner, whatever is copied, moved,
\* assigned to itself or thrown out of a factory half way.
OwnersAreCounted ==
    \A o \in Address : count[o] = Owners(o) /\ (o \in Alive <=> Owners(o) > 0)

\* What a representation gives out is what it was made of, though its parts have
\* other owners and addresses are used again.
PartsAreRetained ==
    \A o \in Alive : LET r == heap[o] IN
        /\ {r.parts[i] : i \in DOMAIN r.parts} \subseteq Alive
        /\ r.kind = "input_set" => r.value = InputSetOf(r.parts)
        /\ r.kind = "request" => r.value = RequestOf(r.parts)
        /\ r.kind = "result" => r.value.request = heap[r.parts[1]].value

ValueOf ==
    [h \in Handle |->
        IF handle[h] \in Alive THEN heap[handle[h]].value
        ELSE IF handle[h] = Absent THEN Absent ELSE MovedFrom]

Values == INSTANCE HandleValues WITH value <- ValueOf

\* Sharing cannot be observed: an object has a value of its own, which no
\* operation on another object changes.
HandlesAreValues == Values!Spec

=============================================================================
