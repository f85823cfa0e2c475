\* Two pods, which may take over each other's address, and one policy.
CONSTANTS
    p1 = p1
    p2 = p2
    Pods = {p1, p2}
    LocalIPs = {l1, l2}
    RemoteIPs = {r1}
    Configs = {}
    ConfigSpecs = {s1, s2}
    Policies = {n1}
    PolicySpecs <- MCPolicySpecs
    Tombstones = TRUE
    MaxChanges = 4
    MaxPorts = 2
    MaxFaults = 0
    MaxRestarts = 0
    Absent = Absent
    NoIP = NoIP
    None = None
SPECIFICATION Spec
INVARIANTS TypeOK PodCovered ListedPodsFresh PolicyCovered
SYMMETRY MCSymmetry
