\* One pod whose sandbox may be recreated; every notification arrives and nothing fails.
CONSTANTS
    p1 = p1
    p2 = p2
    Pods = {p1}
    LocalIPs = {l1}
    RemoteIPs = {}
    Configs = {}
    ConfigSpecs = {}
    Policies = {}
    PolicySpecs = {}
    Tombstones = FALSE
    MaxChanges = 4
    MaxPorts = 2
    MaxFaults = 0
    MaxRestarts = 0
    Absent = Absent
    NoIP = NoIP
    None = None
SPECIFICATION FairSpec
PROPERTIES PortsFollowCNI
