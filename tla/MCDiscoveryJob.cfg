SPECIFICATION FairSpec
CONSTANTS
    j1 = j1
    j2 = j2
    nmap = nmap
    arp = arp
    h1 = h1
    h2 = h2
    a1 = a1
    NoAgent = NoAgent
    Jobs = {j1, j2}
    Providers = {nmap, arp}
    Scanners = {nmap}
    Tables = {arp}
    Hosts = {h1, h2}
    AgentIds = {a1}
    Requests <- ThreeRequests
    FaultPoints = {"submit", "thread", "start", "scan", "observe", "device", "details", "link",
                   "append", "finish", "fail", "reply"}
    Confined = {"scan", "observe", "device", "details", "link", "append"}
    MaxFaults = 1
    MaxCrashes = 1
CHECK_DEADLOCK FALSE
INVARIANTS TypeOK CountsMatchRows ClientTold NothingLostAlone OneRowPerJob
PROPERTIES ImplementsLifecycle EveryJobEnds
