SPECIFICATION Spec
CONSTANTS
    Path = {"p", "q", "r"}
    Mode = {0, 1}
    Uid = {0, 1}
    Gid = {0, 1}
    Size = {0}
    Time <- MCTime
    Target <- MCTarget
    Forbidden = {}
    Device = {}
    Digest = {"d"}
    Absent = Absent
    Manifests <- MCManifests
INVARIANTS TypeOK SealIsExact BlamesFirstDefect InodesAreConsistent
