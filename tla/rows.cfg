CONSTANTS
    MaxMade = 8
    Vars <- MCVars
    Nonvars <- MCNonvars
    Null <- MCNull
    Files <- MCFiles
SPECIFICATION TriplesSpec
INVARIANTS
    ReadAsSaid
    WrittenOnce
    RowsSound
PROPERTIES
    NeverMoved
