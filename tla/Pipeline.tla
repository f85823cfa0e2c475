------------------------------ MODULE Pipeline ------------------------------
(***************************************************************************)
(* The OpenFlow pipeline k-vswitchd programs on every node's bridge        *)
(* (controllers/openflow/flows.go), and a packet's way through it: from    *)
(* its source's port, table by table, perhaps through the overlay to       *)
(* another node's bridge, to where it is delivered or dropped.             *)
(*                                                                         *)
(* Addresses are model values and a CIDR is the set of its addresses, so   *)
(* that matching is membership.  The flows are those of a finished sync;   *)
(* FlowSync says when a bridge has them.                                   *)
(***************************************************************************)
EXTENDS Naturals

CONSTANTS
    Nodes,          \* names of nodes and of their VSwitchConfigs
    Configs,        \* names of VSwitchConfigs: those of nodes, and of nodes that are gone
    PodCIDR,        \* per config: the addresses of its pod CIDR
    Gateway,        \* per node: the first address of its pod CIDR, on the bridge
    OverlayIP,      \* per config: the node's address outside the cluster CIDR
    UnusedCIDR,     \* addresses of the cluster CIDR that no node has
    External,       \* addresses outside the cluster
    Pods,           \* namespace/name keys
    PodIP,          \* per pod: Status.PodIP
    Namespace,      \* per pod: its namespace
    Scenarios,      \* the [policies, view] to try
    PortNums,       \* the transport ports packets are sent to, without 0
    NoSelector      \* an unset PodSelector or NamespaceSelector

ClusterCIDR == (UNION {PodCIDR[n] : n \in Nodes}) \cup UnusedCIDR
NodeIPs     == {OverlayIP[n] : n \in Nodes}
Addrs       == ClusterCIDR \cup NodeIPs \cup External
PodIPs      == {PodIP[p] : p \in Pods}

\* What the API server accepts of a policy: its selectors stand for pods, and a port's
\* protocol is one of three.
WellFormed(pol) ==
    /\ pol.podSelector \subseteq Pods
    /\ \A rule \in pol.ingress \cup pol.egress :
         /\ \A peer \in rule.peers :
              peer.type = "ipBlock" \/ (peer.type = "selector" /\ (peer.pods = NoSelector \/ peer.pods \subseteq Pods))
         /\ \A q \in rule.ports : q.protocol \in {"tcp", "udp", "sctp"}

ASSUME PipelineAssumption ==
    /\ \A m, n \in Nodes : m # n => PodCIDR[m] \cap PodCIDR[n] = {} /\ OverlayIP[m] # OverlayIP[n]
    /\ \A n \in Nodes : Gateway[n] \in PodCIDR[n] \ PodIPs
    /\ (ClusterCIDR \cup External) \cap NodeIPs = {}
    /\ ClusterCIDR \cap External = {}
    /\ PodIPs \subseteq UNION {PodCIDR[n] : n \in Nodes}
    /\ \A p, q \in Pods : p # q => PodIP[p] # PodIP[q]
    /\ Nodes \subseteq Configs
    /\ \A c \in Configs \ Nodes : PodCIDR[c] \subseteq ClusterCIDR /\ OverlayIP[c] \in External
    /\ \A sc \in Scenarios : sc.view \in [Nodes -> SUBSET Configs] /\ \A pol \in sc.policies : WellFormed(pol)
    /\ 0 \notin PortNums

VARIABLES
    policies,   \* the NetworkPolicies, the same in every node's cache
    view,       \* per node: the VSwitchConfigs in its cache
    pkt,        \* the packet
    node, port, \* the bridge it is on, and the port it came in by
    tbl,        \* the table it is looked up in
    hops,       \* how often it was sent through the overlay
    outcome     \* where it ended, or "moving"

vars == <<policies, view, pkt, node, port, tbl, hops, outcome>>

-----------------------------------------------------------------------------
(* Flows.  A match is a set of protocols, of sources, of destinations and of *)
(* destination ports; a field that the flow's text leaves out matches all.   *)

tableEntry == 0
tableNetworkPolicies == 10
tableClassification == 20
tableL3Forwarding == 30
tableL2Rewrites == 60
tableLocalARP == 100

ip  == {"tcp", "udp", "icmp"}
arp == {"arp"}
Any == Addrs
AnyPort == PortNums \cup {0}

Flow(t, prio, protos, src, dst, ports, action) ==
    [table |-> t, priority |-> prio, protos |-> protos, src |-> src, dst |-> dst,
     ports |-> ports, action |-> action]

Resubmit(t)  == [type |-> "resubmit", table |-> t]
Output(p)    == [type |-> "output", pod |-> p]
Tunnel(addr) == [type |-> "tunnel", dst |-> addr]
Local        == [type |-> "local"]
ClusterWide  == [type |-> "clusterWide"]
Drop         == [type |-> "drop"]
ArpReply     == [type |-> "arpReply"]

\* Mutant: the port is left out of the match.
portMatch_Omitted(num) == AnyPort

\* String() prints a port number only if it is not 0; a named port's IntValue() is 0.
portMatch(num) == IF num = 0 THEN AnyPort ELSE {num}

\* Mutant: packets for local pods are left to the L3 table, which knows the pod CIDRs of all
\* VSwitchConfigs, the node's own included.
classificationFlows_AllByL3(n) ==
    { Flow(tableClassification, 0, ip \cup arp, Any, Any, AnyPort, Local),
      Flow(tableClassification, 500, ip, Any, {Gateway[n]}, AnyPort, Local),
      Flow(tableClassification, 100, ip, Any, ClusterCIDR, AnyPort, Resubmit(tableL3Forwarding)),
      Flow(tableClassification, 100, arp, Any, Any, AnyPort, Resubmit(tableLocalARP)) }

\* Mutant: packets for pods of nodes not known yet are left to the host.
classificationFlows_NoCluster(n) ==
    { Flow(tableClassification, 0, ip \cup arp, Any, Any, AnyPort, Local),
      Flow(tableClassification, 500, ip, Any, {Gateway[n]}, AnyPort, Local),
      Flow(tableClassification, 300, ip, Any, PodCIDR[n], AnyPort, Resubmit(tableL2Rewrites)),
      Flow(tableClassification, 100, arp, Any, Any, AnyPort, Resubmit(tableLocalARP)) }
    \cup { Flow(tableClassification, 100, ip, Any, PodCIDR[m], AnyPort, Resubmit(tableL3Forwarding)) :
              m \in view[n] }

\* Mutant: the gateway's flow has a lower priority than the pod CIDR's.
classificationFlows_GatewayLow(n) ==
    { Flow(tableClassification, 0, ip \cup arp, Any, Any, AnyPort, Local),
      Flow(tableClassification, 200, ip, Any, {Gateway[n]}, AnyPort, Local),
      Flow(tableClassification, 300, ip, Any, PodCIDR[n], AnyPort, Resubmit(tableL2Rewrites)),
      Flow(tableClassification, 100, ip, Any, ClusterCIDR, AnyPort, Resubmit(tableL3Forwarding)),
      Flow(tableClassification, 100, arp, Any, Any, AnyPort, Resubmit(tableLocalARP)) }

classificationFlows(n) ==
    { Flow(tableClassification, 0, ip \cup arp, Any, Any, AnyPort, Local),
      Flow(tableClassification, 500, ip, Any, {Gateway[n]}, AnyPort, Local),
      Flow(tableClassification, 300, ip, Any, PodCIDR[n], AnyPort, Resubmit(tableL2Rewrites)),
      Flow(tableClassification, 100, ip, Any, ClusterCIDR, AnyPort, Resubmit(tableL3Forwarding)),
      Flow(tableClassification, 100, arp, Any, Any, AnyPort, Resubmit(tableLocalARP)) }

\* Mutant: only the gateway and the local pods have an ARP responder.
arpFlows_GatewayOnly(n) == { Flow(tableLocalARP, 500, arp, Any, {Gateway[n]}, AnyPort, ArpReply) }

arpFlows(n) ==
    { Flow(tableLocalARP, 500, arp, Any, {Gateway[n]}, AnyPort, ArpReply),
      Flow(tableLocalARP, 400, arp, Any, ClusterCIDR, AnyPort, ArpReply) }

defaultFlows(n) ==
    { Flow(tableEntry, 1000, ip \cup arp, Any, Any, AnyPort, Resubmit(tableNetworkPolicies)),
      Flow(tableNetworkPolicies, 0, ip \cup arp, Any, Any, AnyPort, Resubmit(tableClassification)) }
    \cup classificationFlows(n) \cup arpFlows(n)

\* Node n's flows for the VSwitchConfig m.
flowsForVSwitch(n, m) ==
    IF m = n
      THEN { Flow(tableL3Forwarding, 100, ip, Any, PodCIDR[m], AnyPort, Resubmit(tableL2Rewrites)),
             Flow(tableClassification, 100, ip, PodCIDR[m], {OverlayIP[m]}, AnyPort, Local),
             Flow(tableClassification, 50, ip, Any, {OverlayIP[m]}, AnyPort, ClusterWide) }
      ELSE { Flow(tableL3Forwarding, 150, ip, Any, PodCIDR[m], AnyPort, Tunnel(OverlayIP[m])),
             Flow(tableClassification, 50, ip, Any, {OverlayIP[m]}, AnyPort, Resubmit(tableL3Forwarding)),
             Flow(tableL3Forwarding, 100, ip, Any, {OverlayIP[m]}, AnyPort, Tunnel(OverlayIP[m])) }

isLocalIP(n, addr) == addr \in PodCIDR[n]

flowsForPod(n, p) ==
    IF isLocalIP(n, PodIP[p])
      THEN { Flow(tableL2Rewrites, 100, ip, Any, {PodIP[p]}, AnyPort, Output(p)),
             Flow(tableLocalARP, 500, arp, Any, {PodIP[p]}, AnyPort, ArpReply) }
      ELSE {}

-----------------------------------------------------------------------------
(* NetworkPolicies.  A policy is [namespace, podSelector, types, ingress,    *)
(* egress]; a rule [peers, ports]; a peer an ipBlock [cidr, except] or a     *)
(* selector [namespaces, pods]; a port [protocol, num].                      *)

\* Mutant: allowed traffic does not outrank the isolation drop.
allowFlows_LowPriority(ports, src, dst) ==
    IF ports = {}
      THEN { Flow(tableNetworkPolicies, 50, ip, src, dst, AnyPort, Resubmit(tableClassification)) }
      ELSE { Flow(tableNetworkPolicies, 50, {q.protocol}, src, dst, portMatch(q.num),
                  Resubmit(tableClassification)) : q \in {r \in ports : r.protocol \in {"tcp", "udp"}} }

\* Mutant: allowed traffic is sent back to the entry table.
allowFlows_BackToEntry(ports, src, dst) ==
    IF ports = {}
      THEN { Flow(tableNetworkPolicies, 1000, ip, src, dst, AnyPort, Resubmit(tableEntry)) }
      ELSE { Flow(tableNetworkPolicies, 1000, {q.protocol}, src, dst, portMatch(q.num),
                  Resubmit(tableEntry)) : q \in {r \in ports : r.protocol \in {"tcp", "udp"}} }

\* One priority-1000 flow per port, or for all of "ip" when the rule names no port.
allowFlows(ports, src, dst) ==
    IF ports = {}
      THEN { Flow(tableNetworkPolicies, 1000, ip, src, dst, AnyPort, Resubmit(tableClassification)) }
      ELSE { Flow(tableNetworkPolicies, 1000, {q.protocol}, src, dst, portMatch(q.num),
                  Resubmit(tableClassification)) : q \in {r \in ports : r.protocol \in {"tcp", "udp"}} }

\* The namespaces a selector peer stands for: the policy's own one, also when the
\* namespace selector matches none.
peerNamespaces(pol, peer) ==
    IF peer.namespaces = NoSelector \/ peer.namespaces = {} THEN {pol.namespace} ELSE peer.namespaces

\* The addresses of the pods a selector peer stands for; a peer without a pod selector
\* is skipped.
peerIPs(pol, peer) ==
    IF peer.pods = NoSelector THEN {}
      ELSE {PodIP[p] : p \in {q \in peer.pods : Namespace[q] \in peerNamespaces(pol, peer)}}

\* The pods a policy selects, as far as they run on node n.
localPodIPs(n, pol) ==
    {addr \in {PodIP[p] : p \in {q \in pol.podSelector : Namespace[q] = pol.namespace}} :
        isLocalIP(n, addr)}

flowsForIngressNetworkPolicy(n, pol) ==
    UNION {
      { Flow(tableNetworkPolicies, 100, ip, Any, {dst}, AnyPort, Drop) }
      \cup (UNION { allowFlows(rule.ports, Any, {dst}) : rule \in {r \in pol.ingress : r.peers = {}} })
      \cup (UNION { UNION {
             IF peer.type = "ipBlock"
               THEN { Flow(tableNetworkPolicies, 1000, ip, peer.cidr, {dst}, AnyPort,
                           Resubmit(tableClassification)) }
                    \cup { Flow(tableNetworkPolicies, 1100, ip, except, {dst}, AnyPort, Drop) :
                             except \in peer.except }
               ELSE UNION { allowFlows(rule.ports, {src}, {dst}) : src \in peerIPs(pol, peer) }
             : peer \in rule.peers } : rule \in pol.ingress })
      : dst \in localPodIPs(n, pol) }

flowsForEgressNetworkPolicy(n, pol) ==
    UNION {
      { Flow(tableNetworkPolicies, 100, ip, {src}, Any, AnyPort, Drop) }
      \cup (UNION { allowFlows(rule.ports, {src}, Any) : rule \in {r \in pol.egress : r.peers = {}} })
      \cup (UNION { UNION {
             IF peer.type = "ipBlock"
               THEN { Flow(tableNetworkPolicies, 1000, ip, {src}, peer.cidr, AnyPort,
                           Resubmit(tableClassification)) }
                    \cup { Flow(tableNetworkPolicies, 1100, ip, {src}, except, AnyPort, Drop) :
                             except \in peer.except }
               ELSE UNION { allowFlows(rule.ports, {src}, {dst}) : dst \in peerIPs(pol, peer) }
             : peer \in rule.peers } : rule \in pol.egress })
      : src \in localPodIPs(n, pol) }

\* Both directions are programmed whatever pol.types says.
flowsForNetworkPolicy(n, pol) ==
    flowsForIngressNetworkPolicy(n, pol) \cup flowsForEgressNetworkPolicy(n, pol)

\* What syncFlows hands to replace-flows on node n.
syncFlows(n) ==
    defaultFlows(n)
      \cup (UNION {flowsForVSwitch(n, m) : m \in view[n]})
      \cup (UNION {flowsForPod(n, p) : p \in Pods})
      \cup (UNION {flowsForNetworkPolicy(n, pol) : pol \in policies})

-----------------------------------------------------------------------------
(* The packet *)

nodeOf(addr) == CHOOSE n \in Nodes : addr \in PodCIDR[n] \cup {OverlayIP[n]}

Transport == [proto : {"tcp", "udp"}, dport : PortNums] \cup [proto : {"icmp", "arp"}, dport : {0}]

\* A pod sends to any address, the host behind a bridge's gateway address into the
\* cluster CIDR; ARP requests are for cluster addresses.
Init ==
    /\ \E sc \in Scenarios : policies = sc.policies /\ view = sc.view
    /\ \E n \in Nodes, dst \in Addrs, tp \in Transport :
         \E src \in (PodIPs \cap PodCIDR[n]) \cup {Gateway[n]} :
            /\ src # dst
            /\ (tp.proto = "arp" \/ src = Gateway[n]) => dst \in ClusterCIDR
            /\ pkt = [src |-> src, dst |-> dst, proto |-> tp.proto, dport |-> tp.dport]
            /\ node = n
            /\ port = IF src = Gateway[n] THEN [type |-> "local"]
                        ELSE [type |-> "pod", pod |-> CHOOSE p \in Pods : PodIP[p] = src]
    /\ tbl = tableEntry
    /\ hops = 0
    /\ outcome = [type |-> "moving"]

Matches(f) ==
    /\ f.table = tbl
    /\ pkt.proto \in f.protos /\ pkt.src \in f.src /\ pkt.dst \in f.dst /\ pkt.dport \in f.ports

\* The flows the switch may apply: of the highest priority that matches.
Hits ==
    LET all == {f \in syncFlows(node) : Matches(f)}
    IN  {f \in all : \A g \in all : g.priority <= f.priority}

\* The packet's way on this bridge is over.
End(o) == outcome' = o /\ UNCHANGED <<policies, view, pkt, node, port, tbl, hops>>

\* Open vSwitch applies one of the flows that hit; a table without any drops the packet, a
\* packet never leaves by the port it came in by, and one tunnelled to an address that no
\* node has is lost.
Apply(f) ==
    \/ /\ f.action.type = "resubmit"
       /\ tbl' = f.action.table
       /\ UNCHANGED <<policies, view, pkt, node, port, hops, outcome>>
    \/ /\ f.action.type = "tunnel"
       /\ port.type # "overlay" /\ f.action.dst \in NodeIPs
       /\ node' = nodeOf(f.action.dst)
       /\ port' = [type |-> "overlay"]
       /\ tbl' = tableEntry
       /\ hops' = hops + 1
       /\ UNCHANGED <<policies, view, pkt, outcome>>
    \/ /\ f.action.type = "tunnel"
       /\ port.type = "overlay" \/ f.action.dst \notin NodeIPs
       /\ End([type |-> "dropped"])
    \/ /\ f.action.type = "output"
       /\ IF port = [type |-> "pod", pod |-> f.action.pod] THEN End([type |-> "dropped"])
            ELSE End([type |-> "pod", pod |-> f.action.pod])
    \/ /\ f.action.type = "local"
       /\ IF port.type = "local" THEN End([type |-> "dropped"])
            ELSE End([type |-> "host", node |-> node])
    \/ f.action.type = "clusterWide" /\ End([type |-> "host", node |-> node])
    \/ f.action.type = "drop" /\ End([type |-> "dropped"])
    \/ f.action.type = "arpReply" /\ End([type |-> "answered"])

Lookup ==
    /\ outcome.type = "moving"
    /\ \/ Hits = {} /\ End([type |-> "dropped"])
       \/ \E f \in Hits : Apply(f)

Next == Lookup

Spec == Init /\ [][Next]_vars

FairSpec == Spec /\ WF_vars(Next)

-----------------------------------------------------------------------------
(* Properties *)

Ended == outcome.type # "moving"
IsIP  == pkt.proto \in ip

\* Where a packet belongs: its pod, the host that has its address, nowhere if no one has
\* it, and the sender's host for an address outside the cluster.
Destination ==
    CASE pkt.dst \in PodIPs ->
             [type |-> "pod", pod |-> CHOOSE p \in Pods : PodIP[p] = pkt.dst]
      [] pkt.dst \in NodeIPs \cup {Gateway[n] : n \in Nodes} ->
             [type |-> "host", node |-> nodeOf(pkt.dst)]
      [] pkt.dst \in External -> [type |-> "host", node |-> nodeOf(pkt.src)]
      [] OTHER -> [type |-> "dropped"]

\* Without policies and with every node's VSwitchConfig known everywhere and no other, every
\* packet of a pod or a host ends where it belongs, on its node or through one tunnel
\* (flows.go:114-272).
Routed ==
    Ended /\ IsIP /\ policies = {} /\ (\A n \in Nodes : view[n] = Nodes) =>
        outcome = Destination /\ hops <= 1

\* Whatever configs the nodes know, the ones of nodes that are gone included, a packet for a
\* pod ends at that pod or is dropped, after one tunnel at most: it is never handed to a
\* host or to another pod, nor sent round between nodes (flows.go:174-272).
NeverMisdelivered ==
    Ended /\ IsIP /\ pkt.dst \in PodIPs =>
        outcome \in {Destination, [type |-> "dropped"]} /\ hops <= 1

\* VSwitchConfigs that make node n send packets for an address through the overlay.
Claims(n, addr) == {c \in view[n] \ {n} : addr \in PodCIDR[c]}

\* A packet between two pods of a node needs no VSwitchConfig, and one to another node only
\* that the sender's node knows the receiver's config and no stale one for the same pod
\* CIDR; what the receiver's node knows makes no difference (flows.go:122-146, 174-272).
SenderViewSuffices ==
    (/\ Ended /\ IsIP /\ policies = {} /\ pkt.dst \in PodIPs
     /\ LET from == nodeOf(pkt.src)
            to   == nodeOf(pkt.dst)
        IN  from = to \/ Claims(from, pkt.dst) = {to})
    => outcome = Destination

\* Every ARP request for an address of the cluster is answered on the sender's bridge,
\* whatever policies isolate the sender (flows.go:150-165, 265-269).
ArpAnswered == Ended /\ pkt.proto = "arp" => outcome.type = "answered" /\ hops = 0

\* Every packet's way ends: no tables resubmit to each other (flows.go:37-48).
EveryPacketEnds == <>Ended

\* What is left of a packet's way: the tables behind the one it is in, here and, unless it
\* came through a tunnel, on the bridge it may yet be tunnelled to.
WayLeft ==
    IF Ended THEN 0
      ELSE (1 + tableLocalARP - tbl) + (IF port.type = "overlay" THEN 0 ELSE 1 + tableLocalARP)

\* Every lookup brings the packet nearer to its end, whatever flows policies and configs made:
\* on to a later table, through its only tunnel, or to the end (flows.go:37-48, 143, 188).
WayShortens == [][WayLeft' < WayLeft]_vars

\* The network policy API: which packets a policy's rules allow.

podsAt(addr) == {p \in Pods : PodIP[p] = addr}

Selects(pol, addr) == \E p \in podsAt(addr) : p \in pol.podSelector /\ Namespace[p] = pol.namespace

PeerHas(pol, peer, addr) ==
    IF peer.type = "ipBlock" THEN addr \in peer.cidr \ UNION peer.except
      ELSE \E p \in podsAt(addr) :
             /\ peer.pods = NoSelector \/ p \in peer.pods
             /\ IF peer.namespaces = NoSelector THEN Namespace[p] = pol.namespace
                  ELSE Namespace[p] \in peer.namespaces

RuleAllows(pol, rule, addr) ==
    /\ rule.peers = {} \/ \E peer \in rule.peers : PeerHas(pol, peer, addr)
    /\ rule.ports = {} \/ \E q \in rule.ports : q.protocol = pkt.proto /\ q.num = pkt.dport

\* The policies that isolate the receiver, the sender.
InPolicies(pols)  == {pol \in pols : "Ingress" \in pol.types /\ Selects(pol, pkt.dst)}
OutPolicies(pols) == {pol \in pols : "Egress" \in pol.types /\ Selects(pol, pkt.src)}

InAllowed(pols) ==
    \E pol \in InPolicies(pols) : \E rule \in pol.ingress : RuleAllows(pol, rule, pkt.src)
OutAllowed(pols) ==
    \E pol \in OutPolicies(pols) : \E rule \in pol.egress : RuleAllows(pol, rule, pkt.dst)

Allowed(pols) ==
    /\ InPolicies(pols) = {} \/ InAllowed(pols)
    /\ OutPolicies(pols) = {} \/ OutAllowed(pols)

\* A rule as the flows take it, one per peer: a named port stands for every port of its
\* protocol, a namespace selector that matches none for the policy's own namespace, an
\* ipBlock is opened on all ports, and a peer without a pod selector stands for nobody.
ProgrammedRules(rule) ==
    LET ports == UNION {IF q.num = 0 THEN [protocol : {q.protocol}, num : PortNums] ELSE {q} :
                          q \in rule.ports}
        taken(peer) ==
            IF peer.type = "ipBlock" THEN [peers |-> {peer}, ports |-> {}]
              ELSE [peers |-> {[type       |-> "selector",
                                namespaces |-> IF peer.namespaces = {} THEN NoSelector ELSE peer.namespaces,
                                pods       |-> peer.pods]},
                    ports |-> ports]
    IN  IF rule.peers = {} THEN {[peers |-> {}, ports |-> ports]}
          ELSE {taken(peer) : peer \in {q \in rule.peers : q.type = "ipBlock" \/ q.pods # NoSelector}}

\* The policies as the flows take them, for both directions whatever their types.
Programmed ==
    {[namespace   |-> pol.namespace,
      podSelector |-> pol.podSelector,
      types       |-> {"Ingress", "Egress"},
      ingress     |-> UNION {ProgrammedRules(rule) : rule \in pol.ingress},
      egress      |-> UNION {ProgrammedRules(rule) : rule \in pol.egress}] : pol \in policies}

\* An ipBlock of a policy of either end excludes the other end.
Excepted ==
    \/ \E pol \in InPolicies(policies) : \E rule \in pol.ingress : \E peer \in rule.peers :
          peer.type = "ipBlock" /\ pkt.src \in UNION peer.except
    \/ \E pol \in OutPolicies(policies) : \E rule \in pol.egress : \E peer \in rule.peers :
          peer.type = "ipBlock" /\ pkt.dst \in UNION peer.except

\* The policies say the same to the API and to the flows, but for what is open too wide:
\* they have both types, and every selector peer has a pod selector.
Plain ==
    \A pol \in policies :
        /\ pol.types = {"Ingress", "Egress"}
        /\ \A rule \in pol.ingress \cup pol.egress : \A peer \in rule.peers :
               peer.type = "selector" => peer.pods # NoSelector

\* A packet from one node to a pod of another is delivered only if the policies of its
\* sender and those of its receiver allow it, as the flows take them, the two nodes
\* programming one half each; and every packet the API allows is, if the configs are
\* known, the policies are plain, as one of a single type isolates the other direction too
\* and a peer without a pod selector is skipped, and no ipBlock excludes it, as that
\* outranks what other policies allow (flows.go:288-677).
PolicyEnforced ==
    (Ended /\ IsIP /\ pkt.dst \in PodIPs /\ nodeOf(pkt.src) # nodeOf(pkt.dst)) =>
        /\ outcome = Destination => Allowed(Programmed)
        /\ (/\ Allowed(policies) /\ ~Excepted /\ Plain
            /\ \A n \in Nodes : view[n] = Nodes)
           => outcome = Destination

\* A packet of which either end is isolated reaches a pod only if some rule allows it, as
\* the flows take that rule: a named port opens no other protocol, a namespace selector
\* without a match no other namespace, an isolated pod is never open by accident
\* (flows.go:333-677, flows/flows.go:84-91).
NoOpenDoor ==
    (outcome.type = "pod" /\ InPolicies(policies) \cup OutPolicies(policies) # {}) =>
        InAllowed(Programmed) \/ OutAllowed(Programmed)

\* Only packets that the network policy API allows reach a pod (flows.go:288-677).
OnlyAllowed == outcome.type = "pod" => Allowed(policies)
=============================================================================
