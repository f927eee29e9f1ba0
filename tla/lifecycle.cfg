\* Set-up, start, tagged threads, listeners, destruction.
CONSTANTS
    Pubkeys = {}
    BadKeys = {}
    NoKey = nokey
    PartSize <- MC_PartSize
    Categories = {"a", "b"}
    FullNames <- MC_FullNames
    Requests <- MC_Requests
    AliasCalls <- MC_AliasCalls
    Binds = {b1, b2}
    Tagged = {t1, t2}
    MaxJobs = 1
SPECIFICATION Spec
INVARIANTS
    LifeTypeOK
    TaggedProtocol
    CommandsReachable
    BindsExact
PROPERTIES
    CallsReturn
