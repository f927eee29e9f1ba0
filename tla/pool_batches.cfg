SPECIFICATION FairSpec
CONSTANTS
    c1 = c1  c2 = c2  t1 = t1  n1 = n1  n2 = n2  n3 = n3  i1 = i1  i2 = i2
    b1 = b1  b2 = b2  m1 = m1  r1 = r1
    Categories = {c1}
    Tagged = {t1}
    NetTasks = {n1}
    InjectTasks = {}
    CategoryOf <- AllC1
    AppBatches = {b2}
    TimerBatches = {m1}
    ReplyJobs = {r1}
    BatchThreads <- MixedThreads
    Completion <- MixedCompletion
    general_workers = 1
    reserved <- BatchReserved
    max_queue <- Unlimited
    MayQuit = TRUE
INVARIANTS
    TypeOK
    CountersExact
    ChannelDiscipline
    NoRunnableWorkAtPoll
    BatchRefs
    CompletionLast
PROPERTIES
    RunStableWhileInFlight
    ShutdownCompletes
    QueuedCommandsRun
    BatchesComplete
