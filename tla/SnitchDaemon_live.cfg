CONSTANTS
    vm = vm
    base = base
    disp1 = disp1
    ip1 = ip1
    ip2 = ip2
    flow1 = flow1
    flow2 = flow2
    flow3 = flow3
    question = question
    cdn = cdn
    Names = {vm}
    Numbered = {}
    Shared = {}
    IPs = {ip1}
    Targets = {flow1, flow2}
    Hosts = {}
    NoHost = NoHost
    None = None
    Packets <- TwoFlows
    HostSets = {}
    QueueSize = 2
    MaxPrompts = 2
    MaxRules = 0
    MaxChanges = 2
SPECIFICATION FairSpec
PROPERTIES
    EveryQuestionIsSettled
    EveryPacketGetsItsVerdict
