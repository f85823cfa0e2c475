---------------------------- MODULE MCVSwitchCfg ----------------------------
(* Small instances of VSwitchCfg for TLC. *)
EXTENDS VSwitchCfg

CONSTANTS ip1, ip2, cidr1, vxlan, gre, cluster1, cluster2, service1, service2

NodeSpec(int, ext, cidr) == [internalIP |-> int, externalIP |-> ext, podCIDR |-> cidr]
FlagSet(type, cluster, service) ==
    [overlayType |-> type, clusterCIDR |-> cluster, serviceCIDR |-> service]

\* A node as it registers, with a pod CIDR, and with another address.
MCNodeSpecs ==
    {NodeSpec(ip1, None, None), NodeSpec(ip1, None, cidr1), NodeSpec(None, ip2, cidr1)}

MCFlags == {FlagSet(vxlan, cluster1, service1)}

\* A restart may change one flag that needsUpdate compares, the other, or all three.
MCNewFlags ==
    {FlagSet(vxlan, cluster1, service1), FlagSet(gre, cluster1, service1),
     FlagSet(gre, cluster2, service2)}
=============================================================================
