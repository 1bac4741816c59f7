SPECIFICATION Spec
CONSTANTS
    Namespace = {ns1, ns2}
    Name = {n1, n2}
    Key <- ThreeKeys
    Version = {v1, v2}
    None = None
    Aborts = TRUE
    Created <- TwoAtOnce
SYMMETRY Symmetry
INVARIANTS TypeOK NoEmptyNamespace LiveIndexed DiagnosticsExact ChecksumTells
PROPERTIES SameAsCluster
