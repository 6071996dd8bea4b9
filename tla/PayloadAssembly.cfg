SPECIFICATION AssemblySpec
CONSTANTS
    Path <- MCPath
    Mode = {0, 4095, 4096}
    Uid = {0, 1}
    Gid = {0, 1}
    Size = {0, 1}
    Time <- MCTime
    Target <- MCTarget
    Forbidden = {3}
    Device <- MCDevice
    Digest <- MCDigest
    Absent = Absent
    Manifests = {}
    Metadata <- MCMetadata
    Base = 1024
    Width = 3
    Spelling <- MCSpelling
    MaxEntries = 2
INVARIANTS AssemblyTypeOK TimesAreInstants EqualityIsOfRecords
