\* One node; requests fail, the watch and the process are lost.
CONSTANTS
    None = None
    ip1 = ip1
    ip2 = ip2
    cidr1 = cidr1
    vxlan = vxlan
    gre = gre
    cluster1 = cluster1
    cluster2 = cluster2
    service1 = service1
    service2 = service2
    NodeSpecs <- MCNodeSpecs
    Nodes = {n1}
    Flags <- MCNewFlags
    FaultKinds = {"request", "watch", "restart"}
    MaxChanges = 4
    MaxFaults = 2
SPECIFICATION FairSpec
INVARIANTS TypeOK DeletionApplied
PROPERTIES ConfigsConverge
CHECK_DEADLOCK FALSE
