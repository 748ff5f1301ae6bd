SPECIFICATION Spec
CONSTANTS
    Clients = {p1, p2}
    Binary = {p2}
    Junk = junk
    Absent = absent
    Unconditional = unconditional
    Malformed = malformed
INVARIANTS
    NoLostUpdate
    NoSpuriousConflict
CHECK_DEADLOCK FALSE
