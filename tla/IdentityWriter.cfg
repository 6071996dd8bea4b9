SPECIFICATION Spec
CONSTANTS
    Base = 4
    Width = 2
    Spelling <- MCSpelling
    Absent = Absent
    Records <- MCRecords
    MaxNamed = 2
INVARIANTS TypeOK ContextsAreOwned StreamsNameRecords
