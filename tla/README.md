# Verification of libpkgbuild

TLA+ models of libpkgbuild, TLC configurations that check them on small
instances, and TLAPS proofs of what holds for every instance.  Paths are
relative to the repository.

## The system

libpkgbuild turns the sealed facts of other libraries into two kinds of values:
a *build request* and a *build result*.  It has no threads, files, clocks or
retries.  Its functions read their arguments, throw `pkgbuild::error` or return
an immutable value with an identity, a SHA-256 over the record of its parts.
What is hard in it is not concurrency but correspondence: loops with early exits
and side containers must decide exactly what the documentation promises about
whole graphs and whole payloads; every call may throw in the middle; one
expression is evaluated in an order the language leaves open; and an identity
must bind everything it is said to bind.

### Inventory

| Component | Source | State it keeps | Operations | What is hard | What makes it correct |
|---|---|---|---|---|---|
| input admission | `src/request.cpp` 22-139, 143-301 | of one call: subject, active requirements, inputs bound so far, consumed edge identities | `build_input_set::admit`, `for_scope` | three filters of the same edges in different forms; a scan that ends at the first defect; a set consulted iterations later; a derivation that needs the sort before it | requirements and direct edges correspond one to one, or the call is refused for a defect it has; edge and requirement order do not matter |
| build request | `src/request.cpp` 90-112, 303-430 | of one call: the input set, the source, the architectures | `architecture_binding::select`, `build_request::seal` | a reference into an object that is moved from in the same argument list; an empty declaration means unrestricted | the request is the one named, its identity binds exactly its parts, a refusal is just |
| environment policy, build policy | `src/model.cpp` 34-51, 165-203; `src/request.cpp` 79-88, 339-360 | the value | `hermetic`, `make` | boundaries; a signed epoch hashed as unsigned | accepted values are in range; the identity binds them |
| payload path | `src/model.cpp` 205-241 | the parts so far, a position | `parse` | empty, `.` and `..` parts at every place, a trailing slash | exactly the relative paths below the root are accepted; equal values name the same object |
| payload entries | `src/model.cpp` 243-345 | the value | seven factories, comparisons | which optional fields which type has; a nanosecond count that reaches a second; equality and the hashed record are written out apart | the shape fits the type; times are instants; equal entries are those with equal records |
| payload manifest | `src/model.cpp` 53-88, 347-383 | paths seen, the regular entries so far | `seal` | two containers filled at different moments of an iteration; pointers read iterations later | a vector is accepted iff it has no defect; the first defect is blamed; an inode has one anchor |
| sealed artifact | `src/model.cpp` 90-156, 385-417 | the value | `make`, `to_string` | all values outside an enumeration share one name | the identity binds the bytes and their encoding |
| build result | `src/result.cpp` | the value | `succeeded`, `failed` | a part forgotten in a binding is invisible to a test of one build | no partial result; binding and identity bind what they are said to |
| identity writer | `src/identity_support.cpp` 13-82 | an OpenSSL context | constructor, `text`, `number`, `boolean`, `finish`, destructor | every call may fail, the context has several owners of its end | a context is freed once; different records are different streams |
| identity values | `src/identity.cpp`, `src/identity_support.cpp` 65-93 | a string | the end of `finish`, `from_sha256`, comparisons | a small byte has a leading zero; inputs are ordered by the text | a value is the spelling of exactly one digest, and texts are ordered as digests are |
| opaque handles | `src/request.cpp`, `src/result.cpp` | a shared pointer to an immutable representation that may hold other handles | factories, copy, move, assignment, destruction, accessors | representations are shared, nested and moved; a factory that throws half way destroys its parts | every object behaves as a value of its own; a representation lives exactly as long as its owners |
| export script generator | `tools/generate-elf-export-script.sh` | symbols seen, a count | one pass over the manifest | `exit` in a rule still runs `END` | the status is zero exactly for a valid manifest |

Interactions are calls and shared immutable values: `build_request::seal` calls
`admit`, then `select`; every factory calls an `*_id` function, which drives an
identity writer; a result retains a request and depends on a manifest and an artifact.  From
outside come `resolution_result` (libpkgresolve), `source_snapshot`
(libpkgsource) and OpenSSL.

## Modules

| Module | Models | State and actions |
|---|---|---|
| `ResolverAuthority` | the values read from libpkgresolve and libpkgsource (external) | sets of records, no state |
| `InputAdmission` | `build_input_set::admit` | `resolution`, `subject_identity`: the arguments; `pc`: which stage runs; `requirements`, `inputs`, `consumed`: the locals; `outcome`: the exception or the set.  One step for the subject, one per requirement, one for the sweep; every `invalid` is a disjunct in the order of the code |
| `AdmissionContract` | what DESIGN.md promises of `admit`, in one step | only the arguments and `outcome`; shares no operator with the module above |
| `AdmissionRefinement` | - | the refinement and the properties of the loop |
| `BuildRequest` | `build_request::seal`, `architecture_binding::select` | extends `InputAdmission`: `Admitting` is a step of `admit`; then selection, naming, and the constructor's two dependent arguments in either order (`ConstructSubject`, `ConstructInputs`) |
| `PayloadPath` | `payload_path::parse` | `begin`, `parts`: the locals; one action per iteration |
| `PayloadEntry` | the seven factories of `payload_entry`, its constructor's checks, the comparisons of entries and of times | operators: `Refused` is the reason of the throw, `Entry` the set of entries there can be |
| `PayloadManifest` | `payload_manifest::seal` | `seen`, `regular`: the two containers, the second a function from a path to a position, as the map holds pointers into the vector; one action per iteration |
| `PayloadAssembly` | a client that fills a vector with calls of the factories and seals it | extends `PayloadManifest`: one action per factory (`CallRegular` to `CallDevice`), then `CallSeal` and the steps of `seal` |
| `IdentityRecords` | the parts of every class that has an identity, the ten `*_id` functions and the bytes of a field | operators; `Record` is what can be named, `fields` of `IdentityWriter` what is written of it |
| `IdentityWriter` | `identity_writer` | extends `IdentityRecords`: one action per field, failure, `finish` and destruction; `allocated` counts contexts |
| `IdentityValues` | the end of `finish`, `require_sha256_hex`, `from_sha256`, `operator<` of identities | one action per byte spelled and per byte validated; `values` are the strings accepted |
| `OpaqueHandles` | the special members of the five classes with an `impl_`, the objects their factories create, and the accessors that return such objects | `handle`: each object's pointer; `heap` and `count`: representations and their use counts; `locals`: the objects of the running factory; `releasing`: the destructors still to run |
| `HandleValues` | what value semantics promises for these classes | one `value` per object; no pointers, counts or memory |
| `ExportScript` | `tools/generate-elf-export-script.sh` | one action per branch of each awk rule; `status` is what `exit` has set |
| `BuildOutcome` | `hermetic`, `build_policy::make`, `sealed_artifact::make` with `to_string`, `succeeded`, `failed` | several clients, each making one value after the other; `seal` is abstract |
| `*_proofs` | - | theorems about the module of that name; those of `InputAdmission` are in `BuildRequest_proofs`, those of `PayloadManifest` in `PayloadAssembly_proofs` and the lemmas on `IdentityRecords` in `IdentityWriter_proofs`, with the modules that compose them |
| `MC*` | - | the small worlds of the runs |

How they fit together.  Two modules are abstract specifications that a detailed one
is shown to implement.  `AdmissionRefinement` instantiates `AdmissionContract` as
`Contract`: the loop of `admit` stutters until it returns or throws, and
`ImplementsContract` says that it then does what the contract allows.
`OpaqueHandles` instantiates `HandleValues` as `Values`, with the value of an
object read through its pointer: the sharing of representations, use counts and
destruction must not be seen by a client.  `BuildRequest` composes `admit` with
the rest of `seal`.  `PayloadAssembly` composes the factories of `PayloadEntry`
with `PayloadManifest`, and takes the bytes of an entry from `IdentityRecords`.

In `InputAdmission`, `BuildRequest` and `BuildOutcome`, the digest of a record *is* the
record.  `StreamsNameRecords`, proved, is what justifies this: streams
differ whenever records do, so only a collision of SHA-256 could identify two, and
`ValuesAreDigests` says that the hexadecimal text adds no collision of its own.
The order of digests is a constant strict total order (`IdentityLess`), unrelated to
what is digested; that the order of the texts is one follows from `OrderIsOfDigests`.  `BuildOutcome` takes as values (`Authority`, `Payload`) what
`BuildRequest` and `PayloadManifest` produce step by step.

Definitions named as "not used here" in a module header are mistakes kept next to
the definition they would replace; `PROJECT.json` lists which property notices
each of them.

## Runs

| Run | Question | World and why it is enough |
|---|---|---|
| `admission` | does `admit` implement the contract? | recipes with up to two build and one check requirement, twins and a run-scope requirement included; every listing of up to two of twelve edges, the exact triples in every order, and every order of three exact edges with any single extra one; ten kinds of defective subject.  Each throw needs at most two edges or one defect of the subject, and the sweep is exercised with up to four edges |
| `admission_colliding` | what remains if edge identities collide? | six edges, three of which repeat an identity, in listings of up to three |
| `extra_edges` | are extra edges refused, as the manual page says? | the world of `admission`; a counterexample, see below |
| `build_request` | is a sealed request exact, is a refusal just? | calls that `admit` accepts (requirements in both scopes, all orders of the edges) and refuses, under sources that declare any subset of two architectures for build and for target; two policies |
| `payload_path` | does `parse` end and decide exactly? | all 5461 strings of up to six bytes over slash, dot, line end and one letter: two names on both sides of `.` or of repeated slashes, `..` after a name or before one |
| `payload_assembly` | does every vector a client can fill have the shape `seal` takes for granted, and do times, equality and hashed bytes agree?  By the first of these, what `seal` makes of a vector is a question for `payload_manifest` alone | two paths; up to two entries, as the properties relate at most two; metadata at and beyond each boundary (mode 07777, 999999999 nanoseconds), times before and after 1970, one field changed at a time; link texts empty, with a forbidden byte and without.  Numbers are hashed in 30 bits (base 1024, width 3), enough to hold the nanoseconds |
| `payload_manifest` | is `seal` exact, is the blame right, are inodes consistent? | all vectors of up to four of fourteen entries over three paths, with each metadata field changed alone: a link, its anchor, a competing entry and a duplicate fit |
| `identity_writer` | is each context freed once, are records told apart? | all pairs of 117 records of the ten kinds with base 4 and width 2, every field of an entry changed alone, names that are prefixes of each other and texts made of the bytes of lengths; any OpenSSL call may fail.  Two records are all an injectivity claim needs; `MaxNamed` bounds the sequence to two |
| `build_outcome` | do identities bind their values? | two clients, both sides of each range check, two values of every part, and two compressions that are no enumerator |
| `opaque_handles` | do objects that share representations behave as values, and is each representation freed with its last owner? | two requests, a result, an input set and a binding, with one input per set and memory for six representations: a full chain (result, request, set, input, binding) and part of another, so that addresses run out and are used again and a factory throws at every point.  Two objects of one class suffice for every pairing of a source with a destination, itself included |
| `identity_values` | are the accepted texts exactly the spellings of digests, and are they ordered alike? | digests of two bytes at the boundaries of a digit and of the letters; texts one character short and long, and texts with one character beside the canonical ranges or upper-case.  Two values are all an order or an injectivity claim needs (`MaxValues`) |
| `export_script` | is the exit status zero exactly for a good list, although `exit` still runs `END`? | every list of up to five lines of three symbols, comments and malformed lines: a defect at the start, after a symbol, and before another defect |

The finding.  `man/pkgbuild_request.3.scdoc` says that extra edges are rejected.
The sweep (`src/request.cpp` 268-278) skips edges whose environment is not
`build`, as the matching loop does; a build-scope edge of the subject in the
target environment is therefore neither bound nor refused.  `extra_edges` shows
it.  Whether libpkgresolve can produce such an edge is not visible here: its
public types allow it.

### Fairness and deadlock

Only `Terminates` of `PayloadPath` needs fairness: `WF_vars(Next)`, since the
caller's thread runs a function that waits for nothing.  The other modules state
no liveness: their loops go over a finite vector once, and TLC's deadlock check
shows that no call gets stuck before it has returned or thrown.  A finished call
stutters by an explicit action (`Done`, `Returned`, `Finished`, `Stop`, `Exited`), so
deadlock checking stays on in every run.  In `OpaqueHandles` a client always has a
call to make.

## Proofs

The theorems hold for all constants that satisfy the named assumptions.

`BuildRequest_proofs` begins with `admit` alone (from `CallsAssumption`: the arguments are
typed).  `TypeCorrect` comes first.  `LoopIsOneToOne` and `AdmittedIsOneToOne` are not inductive:
the loop knows its requirements only as a permutation of the declared ones.
`Inv` adds that the requirements are an arrangement of the active slots of the
subject and that each bound input retains its authority.  At the seal the bijection from inputs to
slots is the composition of the sort, the correspondence of the loop and that
arrangement (`BijectionComposition`, `SlotListing`); the sweep supplies that no
direct edge is left over.  Neither theorem uses the assumption on
`IdentityLess` or that edge identities are faithful.
`AdmitImplementsContract` is the refinement: a resolution that the loop admits is one
the contract accepts, and the reason of each throw is a `Fault` it has.  A step
inside the loop stutters.  Its hypothesis `FaithfulEdges` (edges with one identity are
one edge) is what a digest as identity provides; `admission_colliding` checks what
remains without it.  `NoSourceAssumption` says that the empty optional of a witness is
no source, and the order of the inputs rests on `IdentityLessAssumption`.

`PayloadAssembly_proofs`, first about `seal` alone, from `ManifestsAssumption`: the
vector holds entries of `Entry`, the set that `PayloadEntry` defines.  `Inv` says
that `seen` is the set of paths before the position, that `regular` maps the path of
every regular entry before it to its position, and that no entry before it is
defective.  From it follow `SealIsExactHolds`, `BlameIsFirst` and
`InodesAreConsistentHolds`, for vectors of any length; `ManifestTypeCorrect` is its
first conjunct.  The rest of the module discharges that assumption:
`ConstructorMakesEntry` says that what the constructor does not refuse is in `Entry`,
`FactoriesMakeEntries` applies it to the seven factories, and `AssemblyTypeCorrect`
concludes that a client can seal no other vector, from `ArgumentsAssumption`,
`AbsentAssumption` and `MetadataAssumption` (the arguments are typed).
`TimesAreInstantsHolds` follows, with `InstantsOrder` about any two times within
their seconds.

`PayloadPath_proofs` (from `InputsAssumption`: the inputs are strings of bytes).
`PartsAreNamesHolds` says what the parts are.  `ParseIsExactHolds` needs where they come from: `Walked`
says that the parts list, in order, the words of the named components that start
before the next byte, and that no component before it is a reason to refuse; the part of
an iteration is the only component that starts in it (`PartIsComponent`, `WalkOn`).  The
path that is returned is the fold `FlattenSeq` over the parts.  Its value for every
number of parts is found by induction: the prover cannot take the library's
induction theorems, so `Induction` states it for a set of numbers that contains 0 and
all successors of its members, and is proved by the pigeonhole principle.
`JoinedSpelled` concludes that the components of the joined string are the parts, and
`NamesListed` that two strings whose components list the same words have the same
names.  `PathTypeCorrect` follows from the same invariant.

The rest of `BuildRequest_proofs` is about `seal`.  `AdmissionInv` adds to the invariant
of `admit` that the subject is one the call names and whose authorities agree
(`Authentic`); `SealInv` then follows the admitted set through the call: it is in
the local handle until the constructor has it (`InFlight`), and the reference to
its subject stays good wherever it moved, in both orders of the two arguments.
`RequestTypeCorrect`, `RequestIsExactHolds` and `RefusalIsJustHolds` follow, from
`CallsAssumption` alone.

`BuildOutcome_proofs`.  The invariant says that every value a client holds comes
from its factory; that identities bind such values is shown kind by kind, each
from the kinds it is made of (`EnvironmentsBound` to `ResultsBound`).
`IdentitiesBindHolds` and `BindingIsOfTheArtifactHolds`, for any number of
clients and without `RangesAssumption`.

The first part of `IdentityWriter_proofs` shows that what is written of a record determines the record
(from `WidthAssumption`: a base of at least two and at least one digit, and
`SpellingAssumption`: the names of protocols, and those of one enumeration, are
different texts; the code satisfies both).  Three facts carry it.  `NumbersDiffer`: a
number takes `Width` bytes and these determine it, a signed number included
(`DigitsDetermine`, by induction over the digits).  `TextsDiffer`: no text begins another,
as its length comes first.  `Lockstep`: where the fields written so far are the same, they
say which field is next and when there is none, so two streams that are equal are equal
field by field.  `Chained` and `Nested` compose parts and lists of parts: a list is
preceded by its number, an optional part by a Boolean.  From them follows one lemma per
class, `EnvironmentCoded` to `ManifestCoded`, with `EntryCoded` for an entry of a payload.
The fold `FlattenSeq` has a value by the same `Induction` as in `PayloadPath_proofs`.

The second part adds `RecordsAssumption` (what is named is a record of one of the ten
kinds, with any values its integers and texts can have).  `WriterInv` says that the
stream and the fields still to write make, together, all fields of the record, and that
each name given so far is the stream of its record.  Records of different kinds differ in
the first field, the protocol, or, for the two outcomes of a build, in the second.
`StreamsNameRecordsHolds` is the conclusion, `WriterTypeCorrect` its first step.
`ContextsAreOwnedHolds` needs none of this: the count of contexts follows the pointer, and
each stage fixes the pointer.

`EqualityIsOfRecordsHolds` of `PayloadAssembly_proofs` is about the bytes of an entry, all
its fields put one after the other.  It applies `EntryBytesCoded`, through an instance of
`IdentityWriter_proofs` for a writer that names nothing, to the entries that the factories
make: equal bytes come from equal fields, and these from equal entries, as the record is of
all their parts; the comparison, written out apart, is equality of the entries too.  Its
`RecordsAssumption` says that lengths, numbers and times fit in the integers of the code.

`OpaqueHandles_proofs` (from `SizeAssumption`, `HandleAssumption`, `MarkAssumption`:
finitely many objects and addresses, marks that are neither).  No part of `Inv` is
inductive alone.  A count that equals the number of owners is what makes the last
release the right one; that a pointer leads to a living representation of its class
(`TypeOK`) is kept because whoever points has been counted; that parts keep their values
(`PartsInv`) needs that an address with an owner is never free to be used again; and
what a factory makes of its locals is right only because they are a prefix of what it
makes in order (`LocalsInv`).  The count is a sum of the owners in four places, and
each action moves an owner from one place to another: the lemmas before the steps
(`Pointing...`, `Holding...`, `Positions...`) say what each kind of update does to each
summand, so a step lemma only adds up.  `HandlesTypeCorrect`, `OwnersAreCountedHolds` and
`PartsAreRetainedHolds` are its parts.  `SharingIsHidden` is the refinement to
`HandleValues`: `NextKeeps` says that no step changes the value at an address that stays
alive, so each step becomes the abstract one on the objects it assigns and leaves the
values of the others alone.

`IdentityValues_proofs` (from `DigestsAssumption` and `TextsAssumption`: digests and
texts are sequences of bytes).  `Inv` says how much of the digest is spelled and how
much of the text is validated so far, and that a refused text is no spelling.  With
`SpellingIsCanonical` (the accepted characters are exactly the sixteen digits) and
`SpelledDigest` (reading the spelling of a digest gives the digest) follows
`ValuesAreDigestsHolds`.  `OrderIsOfDigestsHolds` needs no more than that values are
canonical: at the first difference, `BytesCompare` compares the halves of a byte.
Both hold for a digest of any size; `ValuesTypeCorrect` is part of `Inv`.

`ExportScript_proofs` (from `LinesAssumption`: a line is a symbol, a comment or malformed,
and these are different).  `Inv` says that the array is the set of the symbols read, that
no line read is malformed or repeats a symbol, and that the output is the head of the
script and a list of those symbols, to which END adds the tail.  It also says why END was
reached: after the last line with status zero, or from a line to refuse with the status
already set; only the second explains why a script that looks complete may come
with status one.  A list of exported symbols is stated by an increasing map of its
places to the lines they are from (`Lists`), so a step extends the map by one place
(`ListsSymbol`) or keeps it (`ListsSkip`) and no induction is needed.  `ExportedOf` reads the
symbols back from the printed script.  `ScriptTypeCorrect`, `StatusIsTheVerdictHolds` and
`RefusedScriptIsAPrefixHolds` follow, for lists of any length.

Only model-checked:

- `Terminates`: liveness and ENABLED are out of reach of the prover;
- that no call gets stuck (TLC's deadlock check), for the same reason.

Every other property of a run that passes is a theorem.  The counterexample of
`extra_edges` is TLC's.

## Not modelled

- The accessors that read a field and `for_scope` as a filter: they change
  nothing.  Those that return an opaque object are `CopyPart` in `OpaqueHandles`.
- An accessor called on a moved-from object: it dereferences null.  The client of
  `OpaqueHandles` only assigns, destroys, copies or moves such an object on, so no run
  would notice a caller that does more.  Within the library a moved-from handle is in
  reach only in `build_request::seal`, where `BuildRequest` checks that none is used.
- A writer used after `finish`: no function of the library does so, each returns
  the digest at once.
- Use counts changed by several threads: the counts are those of `std::shared_ptr`,
  which are atomic, and the representations are constant.
- `error`: a code and a message; a refusal carries its meaning.
- The regular expressions of the export script: a line is a symbol, a comment or
  malformed.
- Allocation failure (`std::bad_alloc`) outside `OpaqueHandles`: it leaves a call
  like any other exception and the functions keep no state outside themselves.
- libpkgresolve and libpkgsource beyond the values read from them, and how
  OpenSSL computes a digest: they are not in the repository.
- Build files, CI scripts and tests.

## Plan

Every part of the library that changes state is modelled, and so is the generator; every
safety property that a passing run checks is proved.  What could follow is outside this
repository: the values of libpkgresolve as its own code makes them, which would decide
whether the extra edge of `extra_edges` can occur, and how OpenSSL computes a digest.
