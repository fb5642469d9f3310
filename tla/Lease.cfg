SPECIFICATION FairSpec
CONSTANTS
    c1 = c1
    c2 = c2
    t1 = t1
    t2 = t2
    t3 = t3
    k1 = k1
    nameA = nameA
    nameB = nameB
    None = None
    NoName = NoName
    Clients = {c1, c2}
    Tokens = {t1, t2, t3}
    Specs <- UniformSpecs
    BizKeys <- OneKey
    Overrides <- UniformOverrides
    MaxStray = 1
    MsTicks = 2
INVARIANTS
    MutualExclusion
    NeverToldLost
PROPERTIES
    EvictedOnlyByItsOwner
    OrphanExpires
    ImplementsContract
