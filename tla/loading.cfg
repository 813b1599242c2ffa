SPECIFICATION TauSpec
CONSTANTS
    PrefixOf <- MCPrefixOf
    Expand <- MCExpand
    CurlyId <- MCCurlyId
    ListId <- MCListId
    Names <- MCNames
    Vars <- MCVars
    TmpVar = "?t"
    Jobs <- MCJobs
    ArgsFor <- MCArgsFor
    Number <- MCNumber
INVARIANTS
    QuadsAsSaid
    ListsWhole
    RulesAsSaid
    VerdictRight
    AnswersAsSaid
    FlagsAnywhere
PROPERTY JobEnds
