CONSTANTS
    p1 = p1
    p2 = p2
    Preparers = {p1, p2}
    Requests <- RequestsOf
    Edits = {e}
    MaxVersion = 3
    MaxEvents = 2
SPECIFICATION Spec
INVARIANTS
    PreparedMerges
