SPECIFICATION Spec
CONSTANTS
    Processes = {p, q}
    Contents = {c1, c2, c3}
    Entities = {e, f}
    Quota = 1
    MaxRows = 4
    Nil = Nil
SYMMETRY Symmetric
INVARIANTS
    BytesUnlessRaced
    RowsMatchLinks
    
PROPERTY LinksEndByRemoval
CHECK_DEADLOCK FALSE
