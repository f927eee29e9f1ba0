SPECIFICATION Spec
CONSTANTS
    c1 = c1  c2 = c2  t1 = t1  n1 = n1  n2 = n2  n3 = n3  i1 = i1  i2 = i2
    b1 = b1  b2 = b2  m1 = m1  r1 = r1
    Categories = {c1, c2}
    Tagged = {}
    NetTasks = {n1, n2, n3}
    InjectTasks = {i2}
    CategoryOf <- CommandCategory
    AppBatches = {b1}
    TimerBatches = {}
    ReplyJobs = {r1}
    BatchThreads <- MixedThreads
    Completion <- MixedCompletion
    general_workers = 1
    reserved <- CommandReserved
    max_queue <- CommandLimits
    MayQuit = TRUE
INVARIANTS
    PoolWithinCapacity
    ExcessWithinGeneral
    IdleExact
    QueuedExact
    ExactlyOnce
PROPERTIES
    NoOvertaking
