\* Two pods of one node: an egress rule of the sender, no ingress rule of the receiver.
CONSTANTS
    A = A
    B = B
    C = C
    ga = ga
    a1 = a1
    a2 = a2
    a3 = a3
    gb = gb
    b1 = b1
    oa = oa
    ob = ob
    oc = oc
    pa1 = pa1
    pa2 = pa2
    pb1 = pb1
    Nodes = {A, B}
    Configs = {A, B, C}
    PodCIDR <- MCPodCIDR
    Gateway <- MCGateway
    OverlayIP <- MCOverlayIP
    UnusedCIDR = {u1}
    External = {e1, oc}
    Pods = {pa1, pa2, pb1}
    PodIP <- MCPodIP
    Namespace <- MCNamespace
    Scenarios <- MCEgressOnly
    PortNums = {80, 81}
    NoSelector = NoSelector
SPECIFICATION Spec
INVARIANTS OnlyAllowed
CHECK_DEADLOCK FALSE
