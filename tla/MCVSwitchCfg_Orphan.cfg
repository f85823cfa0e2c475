\* One node, a lost watch.
CONSTANTS
    None = None
    ip1 = ip1
    ip2 = ip2
    cidr1 = cidr1
    vxlan = vxlan
    gre = gre
    cluster1 = cluster1
    cluster2 = cluster2
    service1 = service1
    service2 = service2
    NodeSpecs <- MCNodeSpecs
    Nodes = {n1}
    Flags <- MCFlags
    FaultKinds = {"watch"}
    MaxChanges = 2
    MaxFaults = 1
SPECIFICATION FairSpec
PROPERTIES EveryConfigHasNode
CHECK_DEADLOCK FALSE
