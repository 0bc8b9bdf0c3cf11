CONSTANTS
    a1 = a1
    a2 = a2
    x = x
    noip = noip
    NoIP = noip
    IPs = {a1, a2}
    Addrs = {a1, a2, x}
    DnsPort = 2
    MaxPort = 3
    MaxBody = 12
    Names = {"work", "disp1", "dispvm-surf"}
    Numbered = {"disp1", "disp2", "disp3"}
    DispLike = {"disp1", "disp2", "disp3", "dispvm-surf", "dispvm-work"}
    Prefixed = {"dispvm-surf", "dispvm-work"}
    DefaultDvms = {"default-dvm"}
    DispvmOf <- MCDispvmOf
    Packets <- MCPackets
    RuleFiles <- MCRuleFiles
    Inventories <- MCInventories
    Answered <- MCAnswered
    MaxRules = 3
    MaxFlows = 1
    MaxStarts = 2
    MaxChanges = 1
SPECIFICATION Spec
CHECK_DEADLOCK FALSE
INVARIANTS
    TypeOK
    KernelAgreesWithPolicy
    DnsIsAlwaysAsked
    UnknownSourceIsSeen
    RepliesFollowTheirFlow
    FlowsObeyThePolicy
    PolicyHasOneOwner
    ParserStaysInPacket
    RefusedIsAnswerable
