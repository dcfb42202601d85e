\* One application and one host: liveness does not depend on which.
CONSTANTS
    Apps = {a1}
    NoApp = none
    Hosts = {h1}
    NoHost = nohost
SPECIFICATION FairHostSpec
PROPERTIES
    StopCompletes
    DisconnectCompletes
    ShutdownCompletes
CHECK_DEADLOCK FALSE
