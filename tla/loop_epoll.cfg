\* Pointers taken from epoll_wait, and used after the control messages and timers.
CONSTANTS
    a = a
    b = b
    TimerIDs = {t1}
    Squelch = {t1}
    InProxy = {}
    MaxJobs = 2
    UseEpoll = {TRUE}
    Conns = {c1, c2}
    FirstConns = {c1}
    Threads = {a, b}
    Owner <- MC_Owner
    MaxControls = 1
    MaxArrivals = 2
SPECIFICATION Spec
INVARIANT
    QueueRefsLive
