SPECIFICATION Spec
CONSTANTS
    Client = {c1, c2}
    Parallelism = {0, 1}
    Mask = {511, 512}
    Epoch <- MCEpoch
    Layout = {"package-root", "other"}
    Encoding = {"package-tar", "other"}
    Compression = {"none", "zstd", "other", "another"}
    Size = {1}
    Digest = {"d1", "d2"}
    Authority = {"a1", "a2"}
    Payload = {"m1", "m2"}
    Evidence = {"e1", "e2"}
    Absent = Absent
SYMMETRY Symmetric
INVARIANTS IdentitiesBind BindingIsOfTheArtifact
