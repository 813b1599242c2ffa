CONSTANTS
    Indices = {0, 1, 2, 3}
    Values = {0, 1, 2, 3}
    MaxVersions = 4
SPECIFICATION Spec
INVARIANTS
    RanksBound
PROPERTIES
    FindsSets
