\* Four rows, an OFFSET of four bits and an int of eight: rows come, go and
\* change their status between any two statements of a request.
CONSTANTS
    r1 = r1
    r2 = r2
    r3 = r3
    r4 = r4
    Rows = {r1, r2, r3, r4}
    Times = {1, 2, 3, 4}
    PageParams <- Pages
    SizeParams = {0, 1, 2, 3}
    DefaultPageSize = 1
    MaxPageSize = 2
    IntBits = 8
    OffsetBits = 4
SPECIFICATION Spec
SYMMETRY Symmetry
INVARIANTS
    WalkSeesAll
    PageIsItsOwn
