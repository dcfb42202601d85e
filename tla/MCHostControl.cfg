\* Two applications, so that a launch can conflict with the running game and
\* meet the end of another session, and two hosts.
CONSTANTS
    Apps = {a1, a2}
    NoApp = none
    Hosts = {h1, h2}
    NoHost = nohost
SPECIFICATION HostSpec
INVARIANTS
    OneTerminalEvent
    TransportReleased
    InterruptNotLost
    SessionInv
    ClientOutlivesSession
    NothingLeftBehind
    CacheFollowsHost
    AdapterFollowsApi
PROPERTIES
    ClosedIsFinal
    SessionsAsSpecified
    EventsAsPromised
CHECK_DEADLOCK FALSE
