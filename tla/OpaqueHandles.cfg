SPECIFICATION Spec
CONSTANTS
    q1 = q1
    q2 = q2
    res = res
    ins = ins
    arch = arch
    i1 = i1
    a1 = a1
    a2 = a2
    e1 = e1
    Handle = {q1, q2, res, ins, arch}
    KindOf <- MCKindOf
    Input = {i1}
    Architecture = {a1, a2}
    Evidence = {e1}
    MaxInputs = 1
    Size = 6
    Absent = Absent
    MovedFrom = MovedFrom
    Free = Free
SYMMETRY Symmetric
INVARIANTS TypeOK OwnersAreCounted PartsAreRetained
PROPERTY HandlesAreValues
