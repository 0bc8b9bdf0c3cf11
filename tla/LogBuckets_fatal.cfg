CONSTANTS
    k1 = k1
    ptr = ptr
    refresh = refresh
    decision = decision
    server = server
    watch = watch
    None = None
    LogKeys = {k1}
    AlertKeys <- MCAlertKeys
    FatalKeys <- MCFatalKeys
    MaxEntries = 1
    Burst = 1
    Unit = 2
    Count = 1
    MaxLag = 1
SPECIFICATION Spec
INVARIANT FatalEndsTheDaemon
