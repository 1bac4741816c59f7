SPECIFICATION Spec
CONSTANTS
    Key = {k1, k2}
    Version = {v1}
    None = None
    Aborts = TRUE
SYMMETRY Symmetry
INVARIANTS Exact
