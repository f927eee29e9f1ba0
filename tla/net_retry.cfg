\* A send to a service node whose incoming connection is gone.
CONSTANTS
    s1 = s1
    own = own
    self = self
    nokey = nokey
    r1 = r1
    Pubkeys = {s1}
    KeyLists = {{}, {s1}}
    Contacts = {s1}
    BadKeys = {badkey}
    NoKey = nokey
    PartSize <- MC_PartSize
    MaxConnId = 3
    NumListeners = 2
    Routes = {r1}
    RouteListener <- MC_RouteListener
    RouteKey <- MC_RouteKey
    NoRoute = noroute
    Binds <- MC_Binds
    Remotes <- MC_Remotes
    Commands <- MC_Commands
    Aliases <- MC_Aliases
    Names <- MC_Names
    local_service_node = FALSE
    SendOptions = {{}, {"optional"}, {"incoming"}, {"outgoing"}}
    SnMayBye = FALSE
    ConnectTimeout = 1
    DEFAULT_SEND_KEEP_ALIVE = 1
    DEFAULT_CONNECT_SN_KEEP_ALIVE = 2
    MaxIdle = 3
SPECIFICATION Spec
PROPERTIES
    SendEnds
