\* Every packet under every combination of five policies, and under partial and stale views.
CONSTANTS
    A = A
    B = B
    C = C
    ga = ga
    a1 = a1
    a2 = a2
    a3 = a3
    gb = gb
    b1 = b1
    oa = oa
    ob = ob
    oc = oc
    pa1 = pa1
    pa2 = pa2
    pb1 = pb1
    Nodes = {A, B}
    Configs = {A, B, C}
    PodCIDR <- MCPodCIDR
    Gateway <- MCGateway
    OverlayIP <- MCOverlayIP
    UnusedCIDR = {u1}
    External = {e1, oc}
    Pods = {pa1, pa2, pb1}
    PodIP <- MCPodIP
    Namespace <- MCNamespace
    Scenarios <- MCScenarios
    PortNums = {80, 81}
    NoSelector = NoSelector
SPECIFICATION FairSpec
INVARIANTS Routed NeverMisdelivered SenderViewSuffices ArpAnswered PolicyEnforced NoOpenDoor
PROPERTIES WayShortens EveryPacketEnds
CHECK_DEADLOCK FALSE
