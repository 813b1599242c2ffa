SPECIFICATION Spec
CONSTANTS
    Base <- MCBase
    VarParts <- MCVarParts
    SlashParts <- MCSlashParts
    Sources <- MCSources
INVARIANTS
    TermsAsSaid
    WrongRejected
    ExpandedOnce
    QuadsAsSaid
