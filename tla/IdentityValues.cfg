SPECIFICATION Spec
CONSTANTS
    DigestSize = 2
    Digests <- MCDigests
    Texts <- MCTexts
    MaxValues = 2
    NoDigest = NoDigest
INVARIANTS TypeOK ValuesAreDigests OrderIsOfDigests
