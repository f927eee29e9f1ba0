\* Requests over both kinds of connection, with lost and repeated replies.
CONSTANTS
    s1 = s1
    t1 = t1
    t2 = t2
    nokey = nokey
    r1 = r1
    Pubkeys = {s1, s2, s3}
    KeyLists = {{}, {s1}, {s1, s2, s3}}
    Contacts = {s1}
    BadKeys = {badkey}
    NoKey = nokey
    PartSize <- MC_PartSize
    MaxConnId = 3
    NumListeners = 2
    Routes = {r1}
    RouteListener <- MC_RouteListener
    RouteKey <- MC_RouteKey
    NoRoute = noroute
    Binds <- MC_Binds
    Remotes <- MC_Remotes
    Commands <- MC_Commands
    Aliases <- MC_Aliases
    Names <- MC_Names
    local_service_node = FALSE
    SendOptions = {{}, {"optional"}, {"outgoing"}}
    SnMayBye = FALSE
    ConnectTimeout = 1
    DEFAULT_SEND_KEEP_ALIVE = 1
    DEFAULT_CONNECT_SN_KEEP_ALIVE = 2
    MaxIdle = 3
    Tags = {t1, t2}
    SendCallbacks <- MC_SendCallbacks
    RequestTimeout = 1
SPECIFICATION SpecAll
INVARIANTS
    RequestsTypeOK
    CallbackExact
    UnsentReported
    ListExact
PROPERTIES
    RequestsAnswered
    ConnectAnswered
