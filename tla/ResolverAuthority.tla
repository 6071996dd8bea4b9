------------------------- MODULE ResolverAuthority -------------------------
(***************************************************************************)
(* The values libpkgbuild receives from libpkgsource and libpkgresolve, as *)
(* far as src/request.cpp reads them.  Both libraries are outside this     *)
(* repository: every record below has exactly the accessors that the code  *)
(* calls.  An identity is a value of an uninterpreted set; a package, a    *)
(* release, an architecture or an origin list is compared and never looked *)
(* into.                                                                   *)
(*                                                                         *)
(* A resolution_result is a value with public constructors whose parts the *)
(* caller chooses (tests/integration/input_authority_test.cpp builds such  *)
(* values), so nothing here says that its parts agree with each other.     *)
(***************************************************************************)
EXTENDS Naturals, Sequences, FiniteSets

CONSTANTS
    SelectionId,    \* package_selection_identity values
    EdgeId,         \* requirement_edge_identity values
    ResolutionId,   \* resolution_result_identity values
    SourceId,       \* source_snapshot_identity values
    Release,        \* release identities
    Package,        \* package_reference values
    Origins,        \* vectors of requirement origins
    Architecture,   \* architecture_reference values
    NoCandidate,    \* the null pointer selected_package::candidate() may return
    NoSource        \* the empty optional requirement_witness::catalog_source()

\* An empty optional is no identity.
ASSUME NoSourceAssumption == NoSource \notin SourceId

\* Where a selected package is installed, and what a requirement is for.
Environment == {"build", "target"}
ScopeKind == {"build", "check", "run"}

\* One expanded requirement of a recipe.
Requirement == [scope : ScopeKind, package : Package, origins : Origins]

\* A sealed source: the declared architectures (an empty set is unrestricted)
\* and the requirements of its recipe.
Snapshot ==
    [identity : SourceId,
     build_requirements : Seq(Requirement),
     check_requirements : Seq(Requirement),
     architectures : [build : SUBSET Architecture, target : SUBSET Architecture]]

\* What the catalog knows about a package that can be built.
Candidate == [source : Snapshot, release : Release, package : Package]

ArchitectureContext == [build : Architecture, target : Architecture]

\* One selected package; an installed one has no candidate.
Selection ==
    [identity : SelectionId, environment : Environment,
     architectures : ArchitectureContext,
     candidate : Candidate \cup {NoCandidate},
     release : Release, source_snapshot : SourceId, package : Package]

\* Why an edge exists.
Witness ==
    [kind : {"catalog_source", "installed_state"},
     catalog_source : SourceId \cup {NoSource},
     catalog_origins : Origins]

\* "issuer needs required": one requirement of the resolved graph.
Edge ==
    [identity : EdgeId, issuer : SelectionId, required : SelectionId,
     scope : ScopeKind, environment : Environment, witness : Witness]

\* A goal with the identities of the selections that are its members.
Goal == [scope : ScopeKind, members : SUBSET SelectionId]

\* request: the architectures asked for, the target one per environment.
Resolution ==
    [identity : ResolutionId,
     request : [build : Architecture, target : [Environment -> Architecture]],
     selections : Seq(Selection), edges : Seq(Edge), goals : SUBSET Goal]

=============================================================================
