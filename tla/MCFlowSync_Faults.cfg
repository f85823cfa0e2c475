\* One pod, one VSwitchConfig, one policy; a failed command and a restart.
CONSTANTS
    p1 = p1
    p2 = p2
    Pods = {p1}
    LocalIPs = {l1}
    RemoteIPs = {}
    Configs = {c1}
    ConfigSpecs = {s1, s2}
    Policies = {n1}
    PolicySpecs <- MCOnePodPolicySpecs
    Tombstones = TRUE
    MaxChanges = 3
    MaxPorts = 1
    MaxFaults = 1
    MaxRestarts = 1
    Absent = Absent
    NoIP = NoIP
    None = None
SPECIFICATION FairSpec
INVARIANTS CfgCovered PolicyCovered
PROPERTIES EventuallyConsistent
