SPECIFICATION Spec
CONSTANTS
    Comma <- MCComma
    Jobs <- MCJobs
INVARIANTS
    GrammarWhole
    TreeReadBack
