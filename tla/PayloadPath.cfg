SPECIFICATION Spec
CONSTANTS
    Letter = {"a"}
    Inputs <- MCInputs
INVARIANTS TypeOK PartsAreNames ParseIsExact
PROPERTY Terminates
