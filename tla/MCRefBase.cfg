CONSTANTS
    Ref = {a, b, c, d}
    Raw = Raw
    None = None
    Initial = 16
SPECIFICATION Spec
SYMMETRY Symmetry
CHECK_DEADLOCK FALSE
INVARIANTS
    NoUseAfterFree
