---------------------------- MODULE MCNodeStart -----------------------------
(* Small instances of NodeStart for TLC. *)
EXTENDS NodeStart

CONSTANTS ip1, cidr1, cidr2, vxlan, cluster1, service1

NodeSpec(cidr) == [internalIP |-> ip1, externalIP |-> None, podCIDR |-> cidr]

\* A node as it registers, with a pod CIDR, and re-created with another one.
MCNodeSpecs == {NodeSpec(None), NodeSpec(cidr1), NodeSpec(cidr2)}

MCFlags == {[overlayType |-> vxlan, clusterCIDR |-> cluster1, serviceCIDR |-> service1]}
=============================================================================
