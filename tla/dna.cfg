CONSTANTS
    rel = rel
    a = a
    b = b
    x = x
    y = y
    z = z
    w = w
    dot = dot
    Names <- MCNames
    Vars <- MCVars
    Dot = dot
    KBs <- CheckedKBs
    Files <- MCFiles
SPECIFICATION PcppSpec
INVARIANTS
    ReadRight
    NoMatchLost
    GroupsRight
