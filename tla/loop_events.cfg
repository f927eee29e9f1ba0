\* Both ways of waiting: wake-ups, messages served, timers.
CONSTANTS
    a = a
    b = b
    TimerIDs = {t1}
    Squelch = {t1}
    InProxy = {}
    MaxJobs = 2
    UseEpoll = {TRUE, FALSE}
    Conns = {c1, c2}
    FirstConns = {c1}
    Threads = {a}
    Owner <- MC_Owner
    MaxControls = 1
    MaxArrivals = 2
SPECIFICATION Spec
INVARIANTS
    LoopTypeOK
    NoLostWakeup
    PollRefsLive
    SquelchExact
PROPERTIES
    MessagesServed
    OwnerCancels
