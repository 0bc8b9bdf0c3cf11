CONSTANTS
    vm = vm
    base = base
    disp1 = disp1
    ip1 = ip1
    ip2 = ip2
    flow1 = flow1
    flow2 = flow2
    flow3 = flow3
    question = question
    cdn = cdn
    Names = {base, disp1}
    Numbered = {disp1}
    Shared = {base}
    IPs = {ip1, ip2}
    Targets = {flow1, question}
    Hosts = {}
    NoHost = NoHost
    None = None
    Packets <- MCPackets
    HostSets = {}
    QueueSize = 1
    MaxPrompts = 2
    MaxRules = 1
    MaxChanges = 3
SPECIFICATION Spec
INVARIANTS
    NumberedPolicyIsCurrent
    VanishedLeavesNothing
    KernelRunsThePolicy
PROPERTIES
    AcceptedByOwnAnswers
    ImplementsUserDecisions
