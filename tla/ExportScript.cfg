SPECIFICATION Spec
CONSTANTS
    Symbol = {"_Z1a", "_Z1b", "_Z1c"}
    Manifests <- MCManifests
INVARIANTS TypeOK StatusIsTheVerdict RefusedScriptIsAPrefix
