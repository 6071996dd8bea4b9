SPECIFICATION SealSpec
CONSTANTS
    SelectionId <- MCSelectionId
    EdgeId <- MCEdgeId
    ResolutionId = {"R"}
    SourceId = {"sa", "sh"}
    Release = {"r1", "r2"}
    Package <- MCPackage
    Origins <- MCOrigins
    Architecture = {"x86", "arm"}
    NoCandidate = NoCandidate
    NoSource = NoSource
    Policy = {"p1", "p2"}
    Null = Null
    Calls <- MCRequestCalls
    IdentityLess <- MCIdentityLess
INVARIANTS RequestTypeOK RequestIsExact RefusalIsJust
