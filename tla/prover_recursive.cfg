CONSTANTS
    n1 = n1
    n2 = n2
    n3 = n3
    n4 = n4
    is = is
    edge = edge
    grand = grand
    both = both
    self = self
    rel = rel
    inv = inv
    x = x
    y = y
    z = z
    s = s
    t = t
    u = u
    own = own
    w = w
    g = g
    h = h
    spare = spare
    Names <- RecursiveNames
    Vars <- RecursiveVars
    KBs <- RecursiveKBs
    Goals <- RecursiveGoals
    MaxQueries = 1
SPECIFICATION Spec
CHECK_DEADLOCK FALSE
INVARIANTS
    OnlyPredicatesThrow
    AllTried
PROPERTY QueriesEnd
