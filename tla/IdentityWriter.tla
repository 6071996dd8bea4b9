--------------------------- MODULE IdentityWriter ---------------------------
(***************************************************************************)
(* identity_writer of src/identity_support.cpp, as the *_id functions use  *)
(* it: a local object is constructed, the fields of a record are written,  *)
(* finish turns the stream into a digest, and the object is destroyed when *)
(* the function is left, by a return or by an exception.                   *)
(*                                                                         *)
(* OpenSSL may fail in every call.  The names given so far are kept, to    *)
(* compare the streams of different records.                               *)
(*                                                                         *)
(* KeptPointer and NeverReleased are not used here: each is the definition *)
(* after it with one mistake, which the properties are known to notice     *)
(* (PROJECT.json, "mutants").                                              *)
(***************************************************************************)
EXTENDS IdentityRecords, FiniteSets

CONSTANTS
    Records,    \* the records to name: the kind of each and its parts
    MaxNamed    \* bound: how many records are named

ASSUME RecordsAssumption == Records \subseteq Record

VARIABLES
    stage,      \* "outside", "initializing", "writing", "finished", "throwing"
    record,     \* the record being named
    todo,       \* its fields not written yet
    stream,     \* the bytes given to the digest
    context,    \* context_: a pointer to an OpenSSL context, or null
    allocated,  \* number of OpenSSL contexts not freed
    named       \* pairs of a record and the stream its digest is of

object == <<record, todo, stream>>
vars == <<stage, object, context, allocated, named>>

\* The function that names a record, as the fields it writes.
fields(r) ==
    CASE r.kind = "environment-policy" -> environment_id(r)
      [] r.kind = "build-policy" -> policy_id(r)
      [] r.kind = "build-input" -> input_id(r)
      [] r.kind = "build-input-set" -> input_set_id(r)
      [] r.kind = "build-request" -> request_id(r)
      [] r.kind = "payload-manifest" -> manifest_id(r)
      [] r.kind = "artifact" -> artifact_id(r)
      [] r.kind = "artifact-binding" -> binding_id(r)
      [] r.kind = "success" -> success_id(r)
      [] r.kind = "failure" -> failure_id(r)

Init ==
    /\ stage = "outside"
    /\ record = Absent /\ todo = <<>> /\ stream = <<>>
    /\ context = "null"
    /\ allocated = 0
    /\ named = {}

-----------------------------------------------------------------------------
(* Construction *)

\* EVP_MD_CTX_new returns a context (else the constructor throws with nothing done).
Allocate ==
    /\ stage = "outside"
    /\ Cardinality(named) < MaxNamed
    /\ record' \in Records
    /\ todo' = fields(record')
    /\ stream' = <<>>
    /\ context' = "pointer"
    /\ allocated' = allocated + 1
    /\ stage' = "initializing"
    /\ UNCHANGED named

Initialize ==
    /\ stage = "initializing"
    /\ stage' = "writing"
    /\ UNCHANGED <<object, context, allocated, named>>

\* The constructor frees the context itself: an object that is not constructed
\* is not destroyed.
InitializeFails ==
    /\ stage = "initializing"
    /\ context' = "null"
    /\ allocated' = allocated - 1
    /\ stage' = "outside"
    /\ UNCHANGED <<object, named>>

-----------------------------------------------------------------------------
(* Writing and finishing *)

WriteField ==
    /\ stage = "writing"
    /\ todo # <<>>
    /\ stream' = stream \o Head(todo)
    /\ todo' = Tail(todo)
    /\ UNCHANGED <<stage, record, context, allocated, named>>

\* EVP_DigestUpdate fails for a field, or EVP_DigestFinal_ex after the last one.
CallFails ==
    /\ stage = "writing"
    /\ stage' = "throwing"
    /\ UNCHANGED <<object, context, allocated, named>>

KeptPointer == context
\* finish sets context_ to null after it freed the context.
AfterFinish == "null"

finish ==
    /\ stage = "writing"
    /\ todo = <<>>
    /\ named' = named \cup {<<record, stream>>}
    /\ allocated' = allocated - 1
    /\ context' = AfterFinish
    /\ stage' = "finished"
    /\ UNCHANGED object

-----------------------------------------------------------------------------
(* Destruction *)

NeverReleased == 0
Released == IF context # "null" THEN 1 ELSE 0

Destroy ==
    /\ stage \in {"finished", "throwing"}
    /\ allocated' = allocated - Released
    /\ context' = "null"
    /\ record' = Absent /\ todo' = <<>> /\ stream' = <<>>
    /\ stage' = "outside"
    /\ UNCHANGED named

\* The bound is reached.
Stop == stage = "outside" /\ Cardinality(named) = MaxNamed /\ UNCHANGED vars

Next ==
    \/ Allocate
    \/ Initialize
    \/ InitializeFails
    \/ WriteField
    \/ CallFails
    \/ finish
    \/ Destroy
    \/ Stop

Spec == Init /\ [][Next]_vars

-----------------------------------------------------------------------------
(* Properties *)

\* The variables hold values of their types; no context is freed twice.
TypeOK ==
    /\ stage \in {"outside", "initializing", "writing", "finished", "throwing"}
    /\ record \in Records \cup {Absent}
    /\ todo \in Seq(Seq(Byte))
    /\ stream \in Seq(Byte)
    /\ context \in {"null", "pointer"}
    /\ allocated \in {0, 1}
    /\ \A n \in named : n[1] \in Records /\ n[2] \in Seq(Byte)

\* A context exists exactly while the writer that owns it does and has not
\* finished: none leaks when a call in the middle of a record throws.
ContextsAreOwned ==
    /\ allocated = 1 <=> context # "null"
    /\ stage \in {"outside", "finished"} => allocated = 0

\* Different records are different streams, whatever their kinds: two identities
\* are equal only if everything they were derived from is.
StreamsNameRecords ==
    \A a, b \in named : a[2] = b[2] => a[1] = b[1]

=============================================================================
