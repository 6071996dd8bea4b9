SPECIFICATION Spec
CONSTANTS
    SelectionId <- MCSelectionId
    EdgeId <- MCEdgeId
    ResolutionId = {"R"}
    SourceId = {"sa", "sh"}
    Release = {"r1", "r2"}
    Package <- MCPackage
    Origins <- MCOrigins
    Architecture = {"x86", "arm"}
    NoCandidate = NoCandidate
    NoSource = NoSource
    Calls <- MCCalls
    IdentityLess <- MCIdentityLess
INVARIANT TypeOK
PROPERTY ImplementsContract
