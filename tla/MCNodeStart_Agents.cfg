\* One node, re-created with another pod CIDR; two failed starts or reboots, time-outs.
CONSTANTS
    None = None
    ip1 = ip1
    cidr1 = cidr1
    cidr2 = cidr2
    vxlan = vxlan
    cluster1 = cluster1
    service1 = service1
    NodeSpecs <- MCNodeSpecs
    Nodes = {n1}
    Flags <- MCFlags
    FaultKinds = {}
    MaxChanges = 3
    MaxFaults = 0
    MaxPolls = 1
    MaxExits = 2
SPECIFICATION SysFairSpec
INVARIANTS AgentTypeOK HostReady AssignedOnly
PROPERTIES AgentsRun
CHECK_DEADLOCK FALSE
