CONSTANTS
    vm = vm
    base = base
    disp1 = disp1
    ip1 = ip1
    ip2 = ip2
    flow1 = flow1
    flow2 = flow2
    flow3 = flow3
    question = question
    cdn = cdn
    Names = {vm}
    Numbered = {}
    Shared = {}
    IPs = {ip1}
    Targets = {flow1, flow2, flow3}
    Hosts = {cdn}
    NoHost = NoHost
    None = None
    Packets <- FlowPackets
    HostSets <- MCHostSets
    QueueSize = 2
    MaxPrompts = 3
    MaxRules = 2
    MaxChanges = 1
SPECIFICATION Spec
INVARIANTS
    TypeOK
    NoAnsweredQuestionPending
    DiskCoversMemory
    QueueIsBounded
PROPERTIES
    DurableDecisionsStand
    NoQuestionIsLost
