CONSTANTS
    vm1 = vm1
    disp1 = disp1
    a1 = a1
    a2 = a2
    n1 = n1
    n2 = n2
    Sources = {vm1, disp1}
    Numbered = {disp1}
    Addrs = {a1, a2}
    DnsNames = {n1, n2}
    TTLs = {1}
    FailureTTL = 2
    MaxPerSource = 1
    MaxGlobal = 1
    Workers = 2
    None = None
    Decisions <- MCDecisions
    MaxVMs = 2
SPECIFICATION Spec
INVARIANTS
    TypeOK
    CachesAreBounded
    LabelsHaveTheirHistory
    HintIsAllowed
    HintsGoWithTheirVm
SYMMETRY Addresses
