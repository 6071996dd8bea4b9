---------------------------- MODULE HandleValues ----------------------------
(***************************************************************************)
(* What the opaque classes of libpkgbuild promise a client that copies,    *)
(* moves and destroys their objects: each object holds a value of its own, *)
(* which changes only when that object is assigned or moved from.          *)
(***************************************************************************)
EXTENDS Sequences

CONSTANTS
    Handle,         \* C++ objects of the client
    KindOf,         \* the class of each
    Architecture,   \* pairs of a build and a target architecture
    Evidence,       \* what a result says beside its request
    InputSets,      \* values of build_input_set: sequences of inputs
    Absent,         \* no object is alive in this place
    MovedFrom       \* an object that was moved from

Request == [inputs : InputSets, architectures : Architecture]

Made(kind) ==
    CASE kind = "input_set" -> InputSets
      [] kind = "architectures" -> Architecture
      [] kind = "request" -> Request

VARIABLE value

Empty == {Absent, MovedFrom}

Init == value = [h \in Handle |-> Absent]

Becomes(h, v) == value' = [value EXCEPT ![h] = v]

\* admit, select and seal make a value out of their arguments.
Make(h) ==
    /\ value[h] = Absent
    /\ KindOf[h] \in {"input_set", "architectures", "request"}
    /\ \E v \in Made(KindOf[h]) : Becomes(h, v)

\* succeeded and failed take a request, by copy or by move.
Conclude(h, g) ==
    /\ value[h] = Absent /\ value[g] \notin Empty
    /\ KindOf[h] = "result" /\ KindOf[g] = "request"
    /\ \E e \in Evidence, left \in {value[g], MovedFrom} :
            value' = [value EXCEPT ![h] = [request |-> value[g], evidence |-> e],
                                   ![g] = left]

\* A request moved into a call that throws is lost.
Lose(g) ==
    /\ value[g] # Absent
    /\ KindOf[g] = "request"
    /\ Becomes(g, MovedFrom)

Copy(h, g) ==
    /\ KindOf[h] = KindOf[g]
    /\ value[g] # Absent
    /\ Becomes(h, value[g])

Move(h, g) ==
    /\ h # g
    /\ KindOf[h] = KindOf[g]
    /\ value[g] # Absent
    /\ value' = [value EXCEPT ![h] = value[g], ![g] = MovedFrom]

\* A copy of an object that the value of another one gives out.
Project(h, g) ==
    /\ value[h] = Absent /\ value[g] \notin Empty
    /\ \/ /\ KindOf[g] = "input_set" /\ KindOf[h] = "input"
          /\ \E i \in DOMAIN value[g] : Becomes(h, value[g][i])
       \/ /\ KindOf[g] = "request" /\ KindOf[h] = "input_set"
          /\ Becomes(h, value[g].inputs)
       \/ /\ KindOf[g] = "request" /\ KindOf[h] = "architectures"
          /\ Becomes(h, value[g].architectures)
       \/ /\ KindOf[g] = "result" /\ KindOf[h] = "request"
          /\ Becomes(h, value[g].request)

Destroy(h) == Becomes(h, Absent)

Next ==
    \E h \in Handle :
        \/ Make(h)
        \/ Lose(h)
        \/ Destroy(h)
        \/ \E g \in Handle : Conclude(h, g) \/ Copy(h, g) \/ Move(h, g) \/ Project(h, g)

Spec == Init /\ [][Next]_value

=============================================================================
