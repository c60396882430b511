SPECIFICATION ReadSpec
CONSTANTS
    Names <- MCNames
    DiskIds = {d1, d2}
    LIVE = LIVE
    Layouts <- MCLayouts
    None = None
    Shape <- MCShape
    Rows <- MCRows
INVARIANTS TypeOK ReadsItsVariable ThrowsOnlyIfLost ValueOfVariable
SYMMETRY MCSymmetry
