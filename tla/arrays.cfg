CONSTANTS
    Indices = {0, 1}
    Values = {0, 1}
    MaxCells = 4
SPECIFICATION Spec
INVARIANTS
    FramesCurrent
    Denotes
PROPERTIES
    Persistent
    CallsReturn
