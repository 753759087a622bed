SPECIFICATION Spec
CONSTANTS
    Memory = {m1, m2, m3}
    InScope = {m1, m2}
    InRange = {m1, m2}
    ByAgent = {m1, m3}
    Insight = {m2}
    Limit = 2
    MaxExtra = 1
    MaxWrites = 2
    m1 = m1
    m2 = m2
    m3 = m3
INVARIANTS
    TypeOK
    ReturnedWasLive
    NoTwice
    LimitKept
    AnswerFits
    KeywordHitReturned
