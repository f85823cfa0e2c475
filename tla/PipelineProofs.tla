--------------------------- MODULE PipelineProofs ---------------------------
(***************************************************************************)
(* Proofs about Pipeline, for any nodes, configs, pods, policies, views    *)
(* and packets.                                                            *)
(*                                                                         *)
(* The first part says what every table of a bridge may do with a packet;  *)
(* the rest follows a packet along its way from that.                      *)
(***************************************************************************)
EXTENDS Pipeline, TLAPS

-----------------------------------------------------------------------------
(* Addresses *)

\* A node's pod CIDR is part of the cluster CIDR, and its overlay address is not.
LEMMA AddrSets ==
    ASSUME NEW n \in Nodes
    PROVE  /\ PodCIDR[n] \subseteq ClusterCIDR /\ OverlayIP[n] \in NodeIPs
           /\ OverlayIP[n] \notin ClusterCIDR /\ OverlayIP[n] \notin External
           /\ Gateway[n] \in PodCIDR[n] /\ Gateway[n] \notin PodIPs
           /\ ClusterCIDR \cap NodeIPs = {} /\ External \cap NodeIPs = {}
           /\ ClusterCIDR \cap External = {}
<1>1. PodCIDR[n] \subseteq ClusterCIDR
  BY DEF ClusterCIDR
<1>2. OverlayIP[n] \in NodeIPs
  BY DEF NodeIPs
<1>3. QED
  BY <1>1, <1>2, PipelineAssumption

\* The owner of an address is unique.
LEMMA NodeOf ==
    ASSUME NEW n \in Nodes, NEW addr \in PodCIDR[n] \cup {OverlayIP[n]}
    PROVE  nodeOf(addr) = n
<1>1. ASSUME NEW m \in Nodes, addr \in PodCIDR[m] \cup {OverlayIP[m]} PROVE m = n
  <2>1. CASE addr = OverlayIP[n]
    <3>1. addr \notin PodCIDR[m]
      BY <2>1, AddrSets
    <3>2. QED
      BY <1>1, <2>1, <3>1, PipelineAssumption
  <2>2. CASE addr \in PodCIDR[n]
    <3>1. addr # OverlayIP[m]
      BY <2>2, AddrSets
    <3>2. QED
      BY <1>1, <2>2, <3>1, PipelineAssumption
  <2>3. QED
    BY <2>1, <2>2
<1>2. QED
  BY <1>1 DEF nodeOf

\* The overlay address of a config is no address of the cluster CIDR, and if a node has it,
\* the config is that node's.
LEMMA ConfigAddr ==
    ASSUME NEW c \in Configs
    PROVE  /\ OverlayIP[c] \notin ClusterCIDR
           /\ PodCIDR[c] \subseteq ClusterCIDR
           /\ OverlayIP[c] \in NodeIPs => c \in Nodes
<1>1. CASE c \in Nodes
  BY <1>1, AddrSets
<1>2. CASE c \notin Nodes
  <2>1. PodCIDR[c] \subseteq ClusterCIDR /\ OverlayIP[c] \in External
    BY <1>2, PipelineAssumption
  <2>2. OverlayIP[c] \notin NodeIPs /\ OverlayIP[c] \notin ClusterCIDR
    BY <2>1, PipelineAssumption
  <2>3. QED
    BY <2>1, <2>2
<1>3. QED
  BY <1>1, <1>2

\* A pod's address is in the cluster CIDR and on one node.
LEMMA PodAddr ==
    ASSUME NEW addr \in PodIPs
    PROVE  addr \in ClusterCIDR /\ \E n \in Nodes : addr \in PodCIDR[n]
BY PipelineAssumption, AddrSets

-----------------------------------------------------------------------------
(* Flows *)

\* A flow has the fields it was made of.
LEMMA FlowFields ==
    ASSUME NEW t, NEW prio, NEW protos, NEW src, NEW dst, NEW ports, NEW action
    PROVE  LET f == Flow(t, prio, protos, src, dst, ports, action)
           IN  /\ f.table = t /\ f.priority = prio /\ f.protos = protos /\ f.src = src
               /\ f.dst = dst /\ f.ports = ports /\ f.action = action
BY DEF Flow

\* The flows of a bridge come from four generators.
LEMMA SyncFlows ==
    ASSUME NEW n, NEW f
    PROVE  f \in syncFlows(n) <=>
               \/ f \in defaultFlows(n)
               \/ \E m \in view[n] : f \in flowsForVSwitch(n, m)
               \/ \E p \in Pods : f \in flowsForPod(n, p)
               \/ \E pol \in policies : f \in flowsForNetworkPolicy(n, pol)
BY DEF syncFlows

LEMMA DefaultsMade ==
    ASSUME NEW n
    PROVE  /\ defaultFlows(n) \subseteq syncFlows(n)
           /\ classificationFlows(n) \subseteq syncFlows(n) /\ arpFlows(n) \subseteq syncFlows(n)
<1>1. defaultFlows(n) \subseteq syncFlows(n)
  BY DEF syncFlows
<1>2. classificationFlows(n) \subseteq defaultFlows(n) /\ arpFlows(n) \subseteq defaultFlows(n)
  BY DEF defaultFlows
<1>3. QED
  BY <1>1, <1>2

\* The flows of a rule's ports: all of them pass a packet on, over the isolation.
LEMMA AllowFlows ==
    ASSUME NEW ports, NEW src, NEW dst, NEW f \in allowFlows(ports, src, dst)
    PROVE  /\ f.table = tableNetworkPolicies /\ f.priority = 1000 /\ f.protos \subseteq ip
           /\ f.src = src /\ f.dst = dst /\ f.action = Resubmit(tableClassification)
           /\ \/ ports = {} /\ f.ports = AnyPort
              \/ \E q \in ports : /\ q.protocol \in {"tcp", "udp"} /\ f.protos = {q.protocol}
                                  /\ f.ports = portMatch(q.num)
BY DEF allowFlows, Flow, ip

\* f is a flow that a peer of a rule adds for a pod that receives.
IngressPeerFlow(f, pol, rule, peer, dst) ==
    \/ /\ peer.type = "ipBlock"
       /\ \/ f = Flow(tableNetworkPolicies, 1000, ip, peer.cidr, {dst}, AnyPort, Resubmit(tableClassification))
          \/ \E except \in peer.except :
               f = Flow(tableNetworkPolicies, 1100, ip, except, {dst}, AnyPort, Drop)
    \/ /\ peer.type # "ipBlock"
       /\ \E src \in peerIPs(pol, peer) : f \in allowFlows(rule.ports, {src}, {dst})

\* f is a flow that a policy adds for a pod that receives.
IngressPodFlow(f, pol, dst) ==
    \/ f = Flow(tableNetworkPolicies, 100, ip, Any, {dst}, AnyPort, Drop)
    \/ \E rule \in pol.ingress : rule.peers = {} /\ f \in allowFlows(rule.ports, Any, {dst})
    \/ \E rule \in pol.ingress : \E peer \in rule.peers : IngressPeerFlow(f, pol, rule, peer, dst)

\* The flows of a policy for the pods that receive.
LEMMA IngressFlows ==
    ASSUME NEW n, NEW pol, NEW f
    PROVE  f \in flowsForIngressNetworkPolicy(n, pol) <=>
             \E dst \in localPodIPs(n, pol) : IngressPodFlow(f, pol, dst)
<1> DEFINE ofPeer(dst, rule, peer) ==
             IF peer.type = "ipBlock"
               THEN { Flow(tableNetworkPolicies, 1000, ip, peer.cidr, {dst}, AnyPort, Resubmit(tableClassification)) }
                    \cup { Flow(tableNetworkPolicies, 1100, ip, except, {dst}, AnyPort, Drop) :
                             except \in peer.except }
               ELSE UNION { allowFlows(rule.ports, {src}, {dst}) : src \in peerIPs(pol, peer) }
           drop(dst) == Flow(tableNetworkPolicies, 100, ip, Any, {dst}, AnyPort, Drop)
           open(dst, rule) == allowFlows(rule.ports, Any, {dst})
           ofPod(dst) ==
             { drop(dst) }
             \cup (UNION { open(dst, rule) : rule \in {r \in pol.ingress : r.peers = {}} })
             \cup (UNION { UNION { ofPeer(dst, rule, peer) : peer \in rule.peers } : rule \in pol.ingress })
<1>1. flowsForIngressNetworkPolicy(n, pol) = UNION {ofPod(dst) : dst \in localPodIPs(n, pol)}
  BY DEF flowsForIngressNetworkPolicy
<1>2. ASSUME NEW dst, NEW rule, NEW peer
      PROVE  f \in ofPeer(dst, rule, peer) <=> IngressPeerFlow(f, pol, rule, peer, dst)
  <2>1. CASE peer.type = "ipBlock"
    <3>1. ofPeer(dst, rule, peer) =
            { Flow(tableNetworkPolicies, 1000, ip, peer.cidr, {dst}, AnyPort, Resubmit(tableClassification)) }
            \cup { Flow(tableNetworkPolicies, 1100, ip, except, {dst}, AnyPort, Drop) : except \in peer.except }
      BY <2>1
    <3>2. QED
      BY <2>1, <3>1 DEF IngressPeerFlow
  <2>2. CASE peer.type # "ipBlock"
    <3>1. ofPeer(dst, rule, peer) = UNION { allowFlows(rule.ports, {src}, {dst}) : src \in peerIPs(pol, peer) }
      BY <2>2
    <3>2. QED
      BY <2>2, <3>1 DEF IngressPeerFlow
  <2>3. QED
    BY <2>1, <2>2
<1>3. ASSUME NEW dst PROVE f \in ofPod(dst) <=> IngressPodFlow(f, pol, dst)
  <2>1. IngressPodFlow(f, pol, dst) <=>
          \/ f = drop(dst)
          \/ \E rule \in pol.ingress : rule.peers = {} /\ f \in open(dst, rule)
          \/ \E rule \in pol.ingress : \E peer \in rule.peers : f \in ofPeer(dst, rule, peer)
    BY <1>2 DEF IngressPodFlow
  <2> HIDE DEF ofPeer, drop, open
  <2>2. QED
    BY <2>1
<1> HIDE DEF ofPod
<1>4. QED
  BY <1>1, <1>3

\* f is a flow that a peer of a rule adds for a pod that sends.
EgressPeerFlow(f, pol, rule, peer, src) ==
    \/ /\ peer.type = "ipBlock"
       /\ \/ f = Flow(tableNetworkPolicies, 1000, ip, {src}, peer.cidr, AnyPort, Resubmit(tableClassification))
          \/ \E except \in peer.except :
               f = Flow(tableNetworkPolicies, 1100, ip, {src}, except, AnyPort, Drop)
    \/ /\ peer.type # "ipBlock"
       /\ \E dst \in peerIPs(pol, peer) : f \in allowFlows(rule.ports, {src}, {dst})

\* f is a flow that a policy adds for a pod that sends.
EgressPodFlow(f, pol, src) ==
    \/ f = Flow(tableNetworkPolicies, 100, ip, {src}, Any, AnyPort, Drop)
    \/ \E rule \in pol.egress : rule.peers = {} /\ f \in allowFlows(rule.ports, {src}, Any)
    \/ \E rule \in pol.egress : \E peer \in rule.peers : EgressPeerFlow(f, pol, rule, peer, src)

\* The flows of a policy for the pods that send.
LEMMA EgressFlows ==
    ASSUME NEW n, NEW pol, NEW f
    PROVE  f \in flowsForEgressNetworkPolicy(n, pol) <=>
             \E src \in localPodIPs(n, pol) : EgressPodFlow(f, pol, src)
<1> DEFINE ofPeer(src, rule, peer) ==
             IF peer.type = "ipBlock"
               THEN { Flow(tableNetworkPolicies, 1000, ip, {src}, peer.cidr, AnyPort, Resubmit(tableClassification)) }
                    \cup { Flow(tableNetworkPolicies, 1100, ip, {src}, except, AnyPort, Drop) :
                             except \in peer.except }
               ELSE UNION { allowFlows(rule.ports, {src}, {dst}) : dst \in peerIPs(pol, peer) }
           drop(src) == Flow(tableNetworkPolicies, 100, ip, {src}, Any, AnyPort, Drop)
           open(src, rule) == allowFlows(rule.ports, {src}, Any)
           ofPod(src) ==
             { drop(src) }
             \cup (UNION { open(src, rule) : rule \in {r \in pol.egress : r.peers = {}} })
             \cup (UNION { UNION { ofPeer(src, rule, peer) : peer \in rule.peers } : rule \in pol.egress })
<1>1. flowsForEgressNetworkPolicy(n, pol) = UNION {ofPod(src) : src \in localPodIPs(n, pol)}
  BY DEF flowsForEgressNetworkPolicy
<1>2. ASSUME NEW src, NEW rule, NEW peer
      PROVE  f \in ofPeer(src, rule, peer) <=> EgressPeerFlow(f, pol, rule, peer, src)
  <2>1. CASE peer.type = "ipBlock"
    <3>1. ofPeer(src, rule, peer) =
            { Flow(tableNetworkPolicies, 1000, ip, {src}, peer.cidr, AnyPort, Resubmit(tableClassification)) }
            \cup { Flow(tableNetworkPolicies, 1100, ip, {src}, except, AnyPort, Drop) : except \in peer.except }
      BY <2>1
    <3>2. QED
      BY <2>1, <3>1 DEF EgressPeerFlow
  <2>2. CASE peer.type # "ipBlock"
    <3>1. ofPeer(src, rule, peer) = UNION { allowFlows(rule.ports, {src}, {dst}) : dst \in peerIPs(pol, peer) }
      BY <2>2
    <3>2. QED
      BY <2>2, <3>1 DEF EgressPeerFlow
  <2>3. QED
    BY <2>1, <2>2
<1>3. ASSUME NEW src PROVE f \in ofPod(src) <=> EgressPodFlow(f, pol, src)
  <2>1. EgressPodFlow(f, pol, src) <=>
          \/ f = drop(src)
          \/ \E rule \in pol.egress : rule.peers = {} /\ f \in open(src, rule)
          \/ \E rule \in pol.egress : \E peer \in rule.peers : f \in ofPeer(src, rule, peer)
    BY <1>2 DEF EgressPodFlow
  <2> HIDE DEF ofPeer, drop, open
  <2>2. QED
    BY <2>1
<1> HIDE DEF ofPod
<1>4. QED
  BY <1>1, <1>3

-----------------------------------------------------------------------------
(* What the policies' flows say of a packet *)

\* The packet has the fields that a flow of any table matches on.
Fits(f) == pkt.proto \in f.protos /\ pkt.src \in f.src /\ pkt.dst \in f.dst /\ pkt.dport \in f.ports

\* The packet as it is sent, without where it is.
PacketOK ==
    /\ pkt.proto \in ip \cup arp
    /\ pkt.src \in ClusterCIDR /\ pkt.dst \in Addrs /\ pkt.src # pkt.dst
    /\ pkt.dport \in AnyPort
    /\ pkt.proto \in {"tcp", "udp"} => pkt.dport \in PortNums

\* The ports of a rule, as its flows match them.
PortsFit(ports) ==
    ports = {} \/ \E q \in ports : /\ q.protocol \in {"tcp", "udp"} /\ pkt.proto = q.protocol
                                   /\ pkt.dport \in portMatch(q.num)

\* A rule's flows pass the packet on, whose other end is addr, or drop it for an except.
RuleOpens(pol, rule, addr) ==
    \/ rule.peers = {} /\ PortsFit(rule.ports)
    \/ \E peer \in rule.peers :
         \/ peer.type = "ipBlock" /\ addr \in peer.cidr
         \/ peer.type # "ipBlock" /\ addr \in peerIPs(pol, peer) /\ PortsFit(rule.ports)
RuleExcepts(rule, addr) ==
    \E peer \in rule.peers : peer.type = "ipBlock" /\ \E except \in peer.except : addr \in except

\* The same for a bridge: it has an end that a policy selects, a rule for it that passes
\* the packet on, or one with an except for it.
Drops(n) == \E pol \in policies : pkt.dst \in localPodIPs(n, pol) \/ pkt.src \in localPodIPs(n, pol)
Opens(n) ==
    \E pol \in policies :
        \/ pkt.dst \in localPodIPs(n, pol) /\ \E rule \in pol.ingress : RuleOpens(pol, rule, pkt.src)
        \/ pkt.src \in localPodIPs(n, pol) /\ \E rule \in pol.egress : RuleOpens(pol, rule, pkt.dst)
Excepts(n) ==
    \E pol \in policies :
        \/ pkt.dst \in localPodIPs(n, pol) /\ \E rule \in pol.ingress : RuleExcepts(rule, pkt.src)
        \/ pkt.src \in localPodIPs(n, pol) /\ \E rule \in pol.egress : RuleExcepts(rule, pkt.dst)

\* The policies' table lets the packet through.
Admits(n) == ~Excepts(n) /\ (Drops(n) => Opens(n))

\* A flow of a rule's ports takes the packet only if the ports do.
LEMMA AllowTakes ==
    ASSUME NEW ports, NEW src, NEW dst, NEW f \in allowFlows(ports, src, dst), Fits(f)
    PROVE  pkt.src \in src /\ pkt.dst \in dst /\ PortsFit(ports)
BY AllowFlows DEF Fits, PortsFit

\* And one does if they do.
LEMMA AllowMade ==
    ASSUME IsIP, PacketOK, NEW ports, NEW src, NEW dst,
           pkt.src \in src, pkt.dst \in dst, PortsFit(ports)
    PROVE  \E f \in allowFlows(ports, src, dst) : Fits(f)
<1>1. CASE ports = {}
  <2> DEFINE f == Flow(tableNetworkPolicies, 1000, ip, src, dst, AnyPort, Resubmit(tableClassification))
  <2>1. f \in allowFlows(ports, src, dst)
    BY <1>1 DEF allowFlows
  <2>2. Fits(f)
    BY DEF Fits, Flow, PacketOK, IsIP
  <2>3. QED
    BY <2>1, <2>2
<1>2. CASE ports # {}
  <2>1. PICK q \in ports : /\ q.protocol \in {"tcp", "udp"} /\ pkt.proto = q.protocol
                           /\ pkt.dport \in portMatch(q.num)
    BY <1>2 DEF PortsFit
  <2> DEFINE named == {r \in ports : r.protocol \in {"tcp", "udp"}}
             mk(r) == Flow(tableNetworkPolicies, 1000, {r.protocol}, src, dst, portMatch(r.num),
                           Resubmit(tableClassification))
  <2>2. mk(q) \in allowFlows(ports, src, dst)
    <3>1. allowFlows(ports, src, dst) = {mk(r) : r \in named}
      BY <1>2 DEF allowFlows
    <3>2. q \in named
      BY <2>1
    <3> HIDE DEF mk, named
    <3>3. QED
      BY <3>1, <3>2
  <2>3. Fits(mk(q))
    BY <2>1 DEF Fits, Flow
  <2>4. QED
    BY <2>2, <2>3
<1>3. QED
  BY <1>1, <1>2

\* A policy's flow for a pod that receives takes the packet only if the pod is the packet's end
\* and is on the bridge; which rule it is for, its priority says.
LEMMA IngressTakes ==
    ASSUME NEW n, NEW pol, NEW f \in flowsForIngressNetworkPolicy(n, pol)
    PROVE  /\ f.table = tableNetworkPolicies /\ f.priority \in {100, 1000, 1100} /\ f.protos \subseteq ip
           /\ f.action = IF f.priority = 1000 THEN Resubmit(tableClassification) ELSE Drop
           /\ Fits(f) =>
                /\ pkt.dst \in localPodIPs(n, pol)
                /\ f.priority = 1000 => \E rule \in pol.ingress : RuleOpens(pol, rule, pkt.src)
                /\ f.priority = 1100 => \E rule \in pol.ingress : RuleExcepts(rule, pkt.src)
<1>1. PICK dst \in localPodIPs(n, pol) : IngressPodFlow(f, pol, dst)
  BY IngressFlows
<1>2. CASE f = Flow(tableNetworkPolicies, 100, ip, Any, {dst}, AnyPort, Drop)
  BY <1>2 DEF Flow, Fits
<1>3. ASSUME NEW rule \in pol.ingress, rule.peers = {}, f \in allowFlows(rule.ports, Any, {dst})
      PROVE  /\ f.table = tableNetworkPolicies /\ f.priority = 1000 /\ f.protos \subseteq ip
             /\ f.action = Resubmit(tableClassification)
             /\ Fits(f) => pkt.dst = dst /\ RuleOpens(pol, rule, pkt.src)
  <2>1. /\ f.table = tableNetworkPolicies /\ f.priority = 1000 /\ f.protos \subseteq ip
        /\ f.action = Resubmit(tableClassification)
    BY <1>3, AllowFlows
  <2>2. Fits(f) => pkt.dst \in {dst} /\ PortsFit(rule.ports)
    BY <1>3, AllowTakes
  <2>3. QED
    BY <1>3, <2>1, <2>2 DEF RuleOpens
<1>4. ASSUME NEW rule \in pol.ingress, NEW peer \in rule.peers, IngressPeerFlow(f, pol, rule, peer, dst)
      PROVE  /\ f.table = tableNetworkPolicies /\ f.priority \in {1000, 1100} /\ f.protos \subseteq ip
             /\ f.action = IF f.priority = 1000 THEN Resubmit(tableClassification) ELSE Drop
             /\ Fits(f) => /\ pkt.dst = dst
                           /\ f.priority = 1000 => RuleOpens(pol, rule, pkt.src)
                           /\ f.priority = 1100 => RuleExcepts(rule, pkt.src)
  <2>1. CASE /\ peer.type = "ipBlock"
             /\ f = Flow(tableNetworkPolicies, 1000, ip, peer.cidr, {dst}, AnyPort, Resubmit(tableClassification))
    BY <2>1 DEF Flow, Fits, RuleOpens
  <2>2. ASSUME peer.type = "ipBlock", NEW except \in peer.except,
               f = Flow(tableNetworkPolicies, 1100, ip, except, {dst}, AnyPort, Drop)
        PROVE  /\ f.table = tableNetworkPolicies /\ f.priority = 1100 /\ f.protos \subseteq ip
               /\ f.action = Drop /\ (Fits(f) => pkt.dst = dst /\ RuleExcepts(rule, pkt.src))
    BY <2>2 DEF Flow, Fits, RuleExcepts
  <2>3. ASSUME peer.type # "ipBlock", NEW src \in peerIPs(pol, peer), f \in allowFlows(rule.ports, {src}, {dst})
        PROVE  /\ f.table = tableNetworkPolicies /\ f.priority = 1000 /\ f.protos \subseteq ip
               /\ f.action = Resubmit(tableClassification)
               /\ (Fits(f) => pkt.dst = dst /\ RuleOpens(pol, rule, pkt.src))
    <3>1. /\ f.table = tableNetworkPolicies /\ f.priority = 1000 /\ f.protos \subseteq ip
          /\ f.action = Resubmit(tableClassification)
      BY <2>3, AllowFlows
    <3>2. Fits(f) => pkt.dst \in {dst} /\ pkt.src \in {src} /\ PortsFit(rule.ports)
      BY <2>3, AllowTakes
    <3>3. QED
      BY <2>3, <3>1, <3>2 DEF RuleOpens
  <2>4. CASE peer.type = "ipBlock"
    <3>1. ASSUME NEW except \in peer.except,
                 f = Flow(tableNetworkPolicies, 1100, ip, except, {dst}, AnyPort, Drop)
          PROVE  /\ f.table = tableNetworkPolicies /\ f.priority = 1100 /\ f.protos \subseteq ip
                 /\ f.action = Drop /\ (Fits(f) => pkt.dst = dst /\ RuleExcepts(rule, pkt.src))
      BY <2>2, <2>4, <3>1
    <3>2. QED
      BY <1>4, <2>4, <2>1, <3>1 DEF IngressPeerFlow
  <2>5. CASE peer.type # "ipBlock"
    <3>1. PICK src \in peerIPs(pol, peer) : f \in allowFlows(rule.ports, {src}, {dst})
      BY <1>4, <2>5 DEF IngressPeerFlow
    <3>2. QED
      BY <2>3, <2>5, <3>1
  <2>6. QED
    BY <2>4, <2>5
<1>5. CASE \E rule \in pol.ingress : \E peer \in rule.peers : IngressPeerFlow(f, pol, rule, peer, dst)
  <2>1. PICK rule \in pol.ingress : \E peer \in rule.peers : IngressPeerFlow(f, pol, rule, peer, dst)
    BY <1>5
  <2>2. PICK peer \in rule.peers : IngressPeerFlow(f, pol, rule, peer, dst)
    BY <2>1
  <2>3. QED
    BY <1>1, <1>4, <2>2
<1>6. CASE \E rule \in pol.ingress : rule.peers = {} /\ f \in allowFlows(rule.ports, Any, {dst})
  BY <1>1, <1>3, <1>6
<1>7. QED
  BY <1>1, <1>2, <1>5, <1>6 DEF IngressPodFlow

\* And there is such a flow for every end on the bridge, and for every rule that opens it or
\* excepts the other end.
LEMMA IngressMade ==
    ASSUME IsIP, PacketOK, NEW n, NEW pol, pkt.dst \in localPodIPs(n, pol)
    PROVE  LET has(prio) == \E f \in flowsForIngressNetworkPolicy(n, pol) : Fits(f) /\ f.priority = prio
           IN  /\ has(100)
               /\ (\E rule \in pol.ingress : RuleOpens(pol, rule, pkt.src)) => has(1000)
               /\ (\E rule \in pol.ingress : RuleExcepts(rule, pkt.src)) => has(1100)
<1> DEFINE has(prio) == \E f \in flowsForIngressNetworkPolicy(n, pol) : Fits(f) /\ f.priority = prio
<1>0. /\ pkt.proto \in ip /\ pkt.src \in Any /\ pkt.dst \in Any /\ pkt.dport \in AnyPort
  BY DEF IsIP, PacketOK, Any, Addrs
<1>a. ASSUME NEW f, IngressPodFlow(f, pol, pkt.dst) PROVE f \in flowsForIngressNetworkPolicy(n, pol)
  BY <1>a, IngressFlows
<1>1. has(100)
  <2> DEFINE f == Flow(tableNetworkPolicies, 100, ip, Any, {pkt.dst}, AnyPort, Drop)
  <2>1. Fits(f) /\ f.priority = 100
    BY <1>0 DEF Fits, Flow
  <2>2. f \in flowsForIngressNetworkPolicy(n, pol)
    BY <1>a DEF IngressPodFlow
  <2>3. QED
    BY <2>1, <2>2
<1>2. ASSUME NEW rule \in pol.ingress, RuleOpens(pol, rule, pkt.src) PROVE has(1000)
  <2>1. CASE rule.peers = {} /\ PortsFit(rule.ports)
    <3>1. PICK f \in allowFlows(rule.ports, Any, {pkt.dst}) : Fits(f)
      BY <1>0, <2>1, AllowMade
    <3>2. f \in flowsForIngressNetworkPolicy(n, pol)
      BY <1>a, <2>1, <3>1 DEF IngressPodFlow
    <3>3. QED
      BY <3>1, <3>2, AllowFlows
  <2>2. ASSUME NEW peer \in rule.peers, peer.type = "ipBlock", pkt.src \in peer.cidr PROVE has(1000)
    <3> DEFINE f == Flow(tableNetworkPolicies, 1000, ip, peer.cidr, {pkt.dst}, AnyPort, Resubmit(tableClassification))
    <3>1. Fits(f) /\ f.priority = 1000
      BY <1>0, <2>2 DEF Fits, Flow
    <3>2. IngressPeerFlow(f, pol, rule, peer, pkt.dst)
      BY <2>2 DEF IngressPeerFlow
    <3>3. f \in flowsForIngressNetworkPolicy(n, pol)
      BY <1>a, <3>2 DEF IngressPodFlow
    <3>4. QED
      BY <3>1, <3>3
  <2>3. ASSUME NEW peer \in rule.peers, peer.type # "ipBlock", pkt.src \in peerIPs(pol, peer), PortsFit(rule.ports)
        PROVE  has(1000)
    <3>1. PICK f \in allowFlows(rule.ports, {pkt.src}, {pkt.dst}) : Fits(f)
      BY <2>3, AllowMade
    <3>2. IngressPeerFlow(f, pol, rule, peer, pkt.dst)
      BY <2>3, <3>1 DEF IngressPeerFlow
    <3>3. f \in flowsForIngressNetworkPolicy(n, pol)
      BY <1>a, <3>2 DEF IngressPodFlow
    <3>4. QED
      BY <3>1, <3>3, AllowFlows
  <2>4. QED
    BY <1>2, <2>1, <2>2, <2>3 DEF RuleOpens
<1>3. ASSUME NEW rule \in pol.ingress, RuleExcepts(rule, pkt.src) PROVE has(1100)
  <2>1. PICK peer \in rule.peers : peer.type = "ipBlock" /\ \E except \in peer.except : pkt.src \in except
    BY <1>3 DEF RuleExcepts
  <2>2. PICK except \in peer.except : pkt.src \in except
    BY <2>1
  <2> DEFINE f == Flow(tableNetworkPolicies, 1100, ip, except, {pkt.dst}, AnyPort, Drop)
  <2>3. Fits(f) /\ f.priority = 1100
    BY <1>0, <2>2 DEF Fits, Flow
  <2>4. IngressPeerFlow(f, pol, rule, peer, pkt.dst)
    BY <2>1, <2>2 DEF IngressPeerFlow
  <2>5. f \in flowsForIngressNetworkPolicy(n, pol)
    BY <1>a, <2>4 DEF IngressPodFlow
  <2>6. QED
    BY <2>3, <2>5
<1>4. QED
  BY <1>1, <1>2, <1>3

\* A policy's flow for a pod that sends takes the packet only if the pod is the packet's end
\* and is on the bridge; which rule it is for, its priority says.
LEMMA EgressTakes ==
    ASSUME NEW n, NEW pol, NEW f \in flowsForEgressNetworkPolicy(n, pol)
    PROVE  /\ f.table = tableNetworkPolicies /\ f.priority \in {100, 1000, 1100} /\ f.protos \subseteq ip
           /\ f.action = IF f.priority = 1000 THEN Resubmit(tableClassification) ELSE Drop
           /\ Fits(f) =>
                /\ pkt.src \in localPodIPs(n, pol)
                /\ f.priority = 1000 => \E rule \in pol.egress : RuleOpens(pol, rule, pkt.dst)
                /\ f.priority = 1100 => \E rule \in pol.egress : RuleExcepts(rule, pkt.dst)
<1>1. PICK src \in localPodIPs(n, pol) : EgressPodFlow(f, pol, src)
  BY EgressFlows
<1>2. CASE f = Flow(tableNetworkPolicies, 100, ip, {src}, Any, AnyPort, Drop)
  BY <1>2 DEF Flow, Fits
<1>3. ASSUME NEW rule \in pol.egress, rule.peers = {}, f \in allowFlows(rule.ports, {src}, Any)
      PROVE  /\ f.table = tableNetworkPolicies /\ f.priority = 1000 /\ f.protos \subseteq ip
             /\ f.action = Resubmit(tableClassification)
             /\ Fits(f) => pkt.src = src /\ RuleOpens(pol, rule, pkt.dst)
  <2>1. /\ f.table = tableNetworkPolicies /\ f.priority = 1000 /\ f.protos \subseteq ip
        /\ f.action = Resubmit(tableClassification)
    BY <1>3, AllowFlows
  <2>2. Fits(f) => pkt.src \in {src} /\ PortsFit(rule.ports)
    BY <1>3, AllowTakes
  <2>3. QED
    BY <1>3, <2>1, <2>2 DEF RuleOpens
<1>4. ASSUME NEW rule \in pol.egress, NEW peer \in rule.peers, EgressPeerFlow(f, pol, rule, peer, src)
      PROVE  /\ f.table = tableNetworkPolicies /\ f.priority \in {1000, 1100} /\ f.protos \subseteq ip
             /\ f.action = IF f.priority = 1000 THEN Resubmit(tableClassification) ELSE Drop
             /\ Fits(f) => /\ pkt.src = src
                           /\ f.priority = 1000 => RuleOpens(pol, rule, pkt.dst)
                           /\ f.priority = 1100 => RuleExcepts(rule, pkt.dst)
  <2>1. CASE /\ peer.type = "ipBlock"
             /\ f = Flow(tableNetworkPolicies, 1000, ip, {src}, peer.cidr, AnyPort, Resubmit(tableClassification))
    BY <2>1 DEF Flow, Fits, RuleOpens
  <2>2. ASSUME peer.type = "ipBlock", NEW except \in peer.except,
               f = Flow(tableNetworkPolicies, 1100, ip, {src}, except, AnyPort, Drop)
        PROVE  /\ f.table = tableNetworkPolicies /\ f.priority = 1100 /\ f.protos \subseteq ip
               /\ f.action = Drop /\ (Fits(f) => pkt.src = src /\ RuleExcepts(rule, pkt.dst))
    BY <2>2 DEF Flow, Fits, RuleExcepts
  <2>3. ASSUME peer.type # "ipBlock", NEW dst \in peerIPs(pol, peer), f \in allowFlows(rule.ports, {src}, {dst})
        PROVE  /\ f.table = tableNetworkPolicies /\ f.priority = 1000 /\ f.protos \subseteq ip
               /\ f.action = Resubmit(tableClassification)
               /\ (Fits(f) => pkt.src = src /\ RuleOpens(pol, rule, pkt.dst))
    <3>1. /\ f.table = tableNetworkPolicies /\ f.priority = 1000 /\ f.protos \subseteq ip
          /\ f.action = Resubmit(tableClassification)
      BY <2>3, AllowFlows
    <3>2. Fits(f) => pkt.src \in {src} /\ pkt.dst \in {dst} /\ PortsFit(rule.ports)
      BY <2>3, AllowTakes
    <3>3. QED
      BY <2>3, <3>1, <3>2 DEF RuleOpens
  <2>4. CASE peer.type = "ipBlock"
    <3>1. ASSUME NEW except \in peer.except,
                 f = Flow(tableNetworkPolicies, 1100, ip, {src}, except, AnyPort, Drop)
          PROVE  /\ f.table = tableNetworkPolicies /\ f.priority = 1100 /\ f.protos \subseteq ip
                 /\ f.action = Drop /\ (Fits(f) => pkt.src = src /\ RuleExcepts(rule, pkt.dst))
      BY <2>2, <2>4, <3>1
    <3>2. QED
      BY <1>4, <2>4, <2>1, <3>1 DEF EgressPeerFlow
  <2>5. CASE peer.type # "ipBlock"
    <3>1. PICK dst \in peerIPs(pol, peer) : f \in allowFlows(rule.ports, {src}, {dst})
      BY <1>4, <2>5 DEF EgressPeerFlow
    <3>2. QED
      BY <2>3, <2>5, <3>1
  <2>6. QED
    BY <2>4, <2>5
<1>5. CASE \E rule \in pol.egress : \E peer \in rule.peers : EgressPeerFlow(f, pol, rule, peer, src)
  <2>1. PICK rule \in pol.egress : \E peer \in rule.peers : EgressPeerFlow(f, pol, rule, peer, src)
    BY <1>5
  <2>2. PICK peer \in rule.peers : EgressPeerFlow(f, pol, rule, peer, src)
    BY <2>1
  <2>3. QED
    BY <1>1, <1>4, <2>2
<1>6. CASE \E rule \in pol.egress : rule.peers = {} /\ f \in allowFlows(rule.ports, {src}, Any)
  BY <1>1, <1>3, <1>6
<1>7. QED
  BY <1>1, <1>2, <1>5, <1>6 DEF EgressPodFlow

\* And there is such a flow for every end on the bridge, and for every rule that opens it or
\* excepts the other end.
LEMMA EgressMade ==
    ASSUME IsIP, PacketOK, NEW n, NEW pol, pkt.src \in localPodIPs(n, pol)
    PROVE  LET has(prio) == \E f \in flowsForEgressNetworkPolicy(n, pol) : Fits(f) /\ f.priority = prio
           IN  /\ has(100)
               /\ (\E rule \in pol.egress : RuleOpens(pol, rule, pkt.dst)) => has(1000)
               /\ (\E rule \in pol.egress : RuleExcepts(rule, pkt.dst)) => has(1100)
<1> DEFINE has(prio) == \E f \in flowsForEgressNetworkPolicy(n, pol) : Fits(f) /\ f.priority = prio
<1>0. /\ pkt.proto \in ip /\ pkt.src \in Any /\ pkt.dst \in Any /\ pkt.dport \in AnyPort
  BY DEF IsIP, PacketOK, Any, Addrs
<1>a. ASSUME NEW f, EgressPodFlow(f, pol, pkt.src) PROVE f \in flowsForEgressNetworkPolicy(n, pol)
  BY <1>a, EgressFlows
<1>1. has(100)
  <2> DEFINE f == Flow(tableNetworkPolicies, 100, ip, {pkt.src}, Any, AnyPort, Drop)
  <2>1. Fits(f) /\ f.priority = 100
    BY <1>0 DEF Fits, Flow
  <2>2. f \in flowsForEgressNetworkPolicy(n, pol)
    BY <1>a DEF EgressPodFlow
  <2>3. QED
    BY <2>1, <2>2
<1>2. ASSUME NEW rule \in pol.egress, RuleOpens(pol, rule, pkt.dst) PROVE has(1000)
  <2>1. CASE rule.peers = {} /\ PortsFit(rule.ports)
    <3>1. PICK f \in allowFlows(rule.ports, {pkt.src}, Any) : Fits(f)
      BY <1>0, <2>1, AllowMade
    <3>2. f \in flowsForEgressNetworkPolicy(n, pol)
      BY <1>a, <2>1, <3>1 DEF EgressPodFlow
    <3>3. QED
      BY <3>1, <3>2, AllowFlows
  <2>2. ASSUME NEW peer \in rule.peers, peer.type = "ipBlock", pkt.dst \in peer.cidr PROVE has(1000)
    <3> DEFINE f == Flow(tableNetworkPolicies, 1000, ip, {pkt.src}, peer.cidr, AnyPort, Resubmit(tableClassification))
    <3>1. Fits(f) /\ f.priority = 1000
      BY <1>0, <2>2 DEF Fits, Flow
    <3>2. EgressPeerFlow(f, pol, rule, peer, pkt.src)
      BY <2>2 DEF EgressPeerFlow
    <3>3. f \in flowsForEgressNetworkPolicy(n, pol)
      BY <1>a, <3>2 DEF EgressPodFlow
    <3>4. QED
      BY <3>1, <3>3
  <2>3. ASSUME NEW peer \in rule.peers, peer.type # "ipBlock", pkt.dst \in peerIPs(pol, peer), PortsFit(rule.ports)
        PROVE  has(1000)
    <3>1. PICK f \in allowFlows(rule.ports, {pkt.src}, {pkt.dst}) : Fits(f)
      BY <2>3, AllowMade
    <3>2. EgressPeerFlow(f, pol, rule, peer, pkt.src)
      BY <2>3, <3>1 DEF EgressPeerFlow
    <3>3. f \in flowsForEgressNetworkPolicy(n, pol)
      BY <1>a, <3>2 DEF EgressPodFlow
    <3>4. QED
      BY <3>1, <3>3, AllowFlows
  <2>4. QED
    BY <1>2, <2>1, <2>2, <2>3 DEF RuleOpens
<1>3. ASSUME NEW rule \in pol.egress, RuleExcepts(rule, pkt.dst) PROVE has(1100)
  <2>1. PICK peer \in rule.peers : peer.type = "ipBlock" /\ \E except \in peer.except : pkt.dst \in except
    BY <1>3 DEF RuleExcepts
  <2>2. PICK except \in peer.except : pkt.dst \in except
    BY <2>1
  <2> DEFINE f == Flow(tableNetworkPolicies, 1100, ip, {pkt.src}, except, AnyPort, Drop)
  <2>3. Fits(f) /\ f.priority = 1100
    BY <1>0, <2>2 DEF Fits, Flow
  <2>4. EgressPeerFlow(f, pol, rule, peer, pkt.src)
    BY <2>1, <2>2 DEF EgressPeerFlow
  <2>5. f \in flowsForEgressNetworkPolicy(n, pol)
    BY <1>a, <2>4 DEF EgressPodFlow
  <2>6. QED
    BY <2>3, <2>5
<1>4. QED
  BY <1>1, <1>2, <1>3

-----------------------------------------------------------------------------
(* The tables of a bridge *)

\* A policy's flows are all in one table, and match no ARP packet.
LEMMA PolicyFlow ==
    ASSUME NEW n, NEW pol, NEW f \in flowsForNetworkPolicy(n, pol)
    PROVE  /\ f.table = tableNetworkPolicies /\ f.priority \in {100, 1000, 1100} /\ f.protos \subseteq ip
           /\ f.action = IF f.priority = 1000 THEN Resubmit(tableClassification) ELSE Drop
<1>1. f \in flowsForIngressNetworkPolicy(n, pol) \/ f \in flowsForEgressNetworkPolicy(n, pol)
  BY DEF flowsForNetworkPolicy
<1>2. QED
  BY <1>1, IngressTakes, EgressTakes

\* Where the other flows are.
LEMMA VSwitchFlow ==
    ASSUME NEW n, NEW m, NEW f \in flowsForVSwitch(n, m)
    PROVE  /\ f.table \in {tableClassification, tableL3Forwarding} /\ f.priority \in {50, 100, 150}
           /\ f.protos = ip
BY DEF flowsForVSwitch, Flow

LEMMA ClassificationFlowIs ==
    ASSUME NEW n, NEW m, NEW f \in flowsForVSwitch(n, m), f.table = tableClassification
    PROVE  \/ f = Flow(tableClassification, 100, ip, PodCIDR[n], {OverlayIP[n]}, AnyPort, Local)
           \/ f = Flow(tableClassification, 50, ip, Any, {OverlayIP[n]}, AnyPort, ClusterWide)
           \/ /\ m # n
              /\ f = Flow(tableClassification, 50, ip, Any, {OverlayIP[m]}, AnyPort, Resubmit(tableL3Forwarding))
<1>1. CASE m = n
  BY <1>1 DEF flowsForVSwitch, Flow, tableClassification, tableL3Forwarding
<1>2. CASE m # n
  BY <1>2 DEF flowsForVSwitch, Flow, tableClassification, tableL3Forwarding
<1>3. QED
  BY <1>1, <1>2

LEMMA L3FlowIs ==
    ASSUME NEW n, NEW m, NEW f \in flowsForVSwitch(n, m), f.table = tableL3Forwarding
    PROVE  \/ f = Flow(tableL3Forwarding, 100, ip, Any, PodCIDR[n], AnyPort, Resubmit(tableL2Rewrites))
           \/ /\ m # n
              /\ \/ f = Flow(tableL3Forwarding, 150, ip, Any, PodCIDR[m], AnyPort, Tunnel(OverlayIP[m]))
                 \/ f = Flow(tableL3Forwarding, 100, ip, Any, {OverlayIP[m]}, AnyPort, Tunnel(OverlayIP[m]))
<1>1. CASE m = n
  BY <1>1 DEF flowsForVSwitch, Flow, tableClassification, tableL3Forwarding
<1>2. CASE m # n
  BY <1>2 DEF flowsForVSwitch, Flow, tableClassification, tableL3Forwarding
<1>3. QED
  BY <1>1, <1>2

LEMMA PodFlow ==
    ASSUME NEW n, NEW p, NEW f \in flowsForPod(n, p)
    PROVE  /\ PodIP[p] \in PodCIDR[n]
           /\ \/ f = Flow(tableL2Rewrites, 100, ip, Any, {PodIP[p]}, AnyPort, Output(p))
              \/ f = Flow(tableLocalARP, 500, arp, Any, {PodIP[p]}, AnyPort, ArpReply)
BY DEF flowsForPod, isLocalIP

LEMMA DefaultFlow ==
    ASSUME NEW n, NEW f
    PROVE  f \in defaultFlows(n) <=>
             \/ f = Flow(tableEntry, 1000, ip \cup arp, Any, Any, AnyPort, Resubmit(tableNetworkPolicies))
             \/ f = Flow(tableNetworkPolicies, 0, ip \cup arp, Any, Any, AnyPort, Resubmit(tableClassification))
             \/ f \in classificationFlows(n)
             \/ f \in arpFlows(n)
BY DEF defaultFlows

\* What a flow of each table is.
LEMMA EntryFlow ==
    ASSUME NEW n, NEW f \in syncFlows(n), f.table = tableEntry
    PROVE  f = Flow(tableEntry, 1000, ip \cup arp, Any, Any, AnyPort, Resubmit(tableNetworkPolicies))
<1> USE DEF tableEntry, tableNetworkPolicies, tableClassification, tableL3Forwarding, tableL2Rewrites, tableLocalARP
<1>1. CASE f \in defaultFlows(n)
  BY <1>1, DefaultFlow DEF classificationFlows, arpFlows, Flow
<1>2. ~ \E m \in view[n] : f \in flowsForVSwitch(n, m)
  BY VSwitchFlow
<1>3. ~ \E p \in Pods : f \in flowsForPod(n, p)
  BY PodFlow DEF Flow
<1>4. ~ \E pol \in policies : f \in flowsForNetworkPolicy(n, pol)
  BY PolicyFlow
<1>5. QED
  BY <1>1, <1>2, <1>3, <1>4, SyncFlows

LEMMA NetworkPolicyFlow ==
    ASSUME NEW n, NEW f \in syncFlows(n), f.table = tableNetworkPolicies
    PROVE  \/ f = Flow(tableNetworkPolicies, 0, ip \cup arp, Any, Any, AnyPort, Resubmit(tableClassification))
           \/ \E pol \in policies : f \in flowsForNetworkPolicy(n, pol)
<1> USE DEF tableEntry, tableNetworkPolicies, tableClassification, tableL3Forwarding, tableL2Rewrites, tableLocalARP
<1>1. CASE f \in defaultFlows(n)
  BY <1>1, DefaultFlow DEF classificationFlows, arpFlows, Flow
<1>2. ~ \E m \in view[n] : f \in flowsForVSwitch(n, m)
  BY VSwitchFlow
<1>3. ~ \E p \in Pods : f \in flowsForPod(n, p)
  BY PodFlow DEF Flow
<1>4. QED
  BY <1>1, <1>2, <1>3, SyncFlows

LEMMA ClassificationFlow ==
    ASSUME NEW n, NEW f \in syncFlows(n), f.table = tableClassification
    PROVE  \/ f \in classificationFlows(n)
           \/ \E m \in view[n] : f \in flowsForVSwitch(n, m)
<1> USE DEF tableEntry, tableNetworkPolicies, tableClassification, tableL3Forwarding, tableL2Rewrites, tableLocalARP
<1>1. CASE f \in defaultFlows(n)
  BY <1>1, DefaultFlow DEF arpFlows, Flow
<1>3. ~ \E p \in Pods : f \in flowsForPod(n, p)
  BY PodFlow DEF Flow
<1>4. ~ \E pol \in policies : f \in flowsForNetworkPolicy(n, pol)
  BY PolicyFlow
<1>5. QED
  BY <1>1, <1>3, <1>4, SyncFlows

LEMMA L3Flow ==
    ASSUME NEW n, NEW f \in syncFlows(n), f.table = tableL3Forwarding
    PROVE  \E m \in view[n] : f \in flowsForVSwitch(n, m)
<1> USE DEF tableEntry, tableNetworkPolicies, tableClassification, tableL3Forwarding, tableL2Rewrites, tableLocalARP
<1>1. f \notin defaultFlows(n)
  BY DefaultFlow DEF classificationFlows, arpFlows, Flow
<1>2. ~ \E p \in Pods : f \in flowsForPod(n, p)
  BY PodFlow DEF Flow
<1>3. ~ \E pol \in policies : f \in flowsForNetworkPolicy(n, pol)
  BY PolicyFlow
<1>4. QED
  BY <1>1, <1>2, <1>3, SyncFlows

LEMMA L2Flow ==
    ASSUME NEW n, NEW f \in syncFlows(n), f.table = tableL2Rewrites
    PROVE  \E p \in Pods : /\ PodIP[p] \in PodCIDR[n]
                           /\ f = Flow(tableL2Rewrites, 100, ip, Any, {PodIP[p]}, AnyPort, Output(p))
<1> USE DEF tableEntry, tableNetworkPolicies, tableClassification, tableL3Forwarding, tableL2Rewrites, tableLocalARP
<1>1. f \notin defaultFlows(n)
  BY DefaultFlow DEF classificationFlows, arpFlows, Flow
<1>2. ~ \E m \in view[n] : f \in flowsForVSwitch(n, m)
  BY VSwitchFlow
<1>3. ~ \E pol \in policies : f \in flowsForNetworkPolicy(n, pol)
  BY PolicyFlow
<1>4. PICK p \in Pods : f \in flowsForPod(n, p)
  BY <1>1, <1>2, <1>3, SyncFlows
<1>5. QED
  BY <1>4, PodFlow DEF Flow

LEMMA ARPFlow ==
    ASSUME NEW n, NEW f \in syncFlows(n), f.table = tableLocalARP
    PROVE  f.action = ArpReply /\ f.priority \in {400, 500}
<1> USE DEF tableEntry, tableNetworkPolicies, tableClassification, tableL3Forwarding, tableL2Rewrites, tableLocalARP
<1>1. CASE f \in defaultFlows(n)
  BY <1>1, DefaultFlow DEF classificationFlows, arpFlows, Flow
<1>2. ~ \E m \in view[n] : f \in flowsForVSwitch(n, m)
  BY VSwitchFlow
<1>3. ~ \E pol \in policies : f \in flowsForNetworkPolicy(n, pol)
  BY PolicyFlow
<1>4. CASE \E p \in Pods : f \in flowsForPod(n, p)
  BY <1>4, PodFlow DEF Flow
<1>5. QED
  BY <1>1, <1>2, <1>3, <1>4, SyncFlows

\* A flow's priority is one of a few numbers, so that one of those that match a packet has
\* the highest.
LEMMA FlowPriority ==
    ASSUME NEW n, NEW f \in syncFlows(n)
    PROVE  f.priority \in {0, 50, 100, 150, 300, 400, 500, 1000, 1100}
<1>1. CASE f \in defaultFlows(n)
  BY <1>1, DefaultFlow DEF classificationFlows, arpFlows, Flow
<1>2. CASE \E m \in view[n] : f \in flowsForVSwitch(n, m)
  BY <1>2, VSwitchFlow
<1>3. CASE \E p \in Pods : f \in flowsForPod(n, p)
  BY <1>3, PodFlow DEF Flow
<1>4. CASE \E pol \in policies : f \in flowsForNetworkPolicy(n, pol)
  BY <1>4, PolicyFlow
<1>5. QED
  BY <1>1, <1>2, <1>3, <1>4, SyncFlows

LEMMA HitsExist ==
    ASSUME NEW g \in syncFlows(node), Matches(g)
    PROVE  Hits # {}
<1> DEFINE all == {f \in syncFlows(node) : Matches(f)}
           has(prio) == \E f \in all : f.priority = prio
<1>1. \A f \in all : f.priority \in {0, 50, 100, 150, 300, 400, 500, 1000, 1100}
  BY FlowPriority
<1>2. ASSUME NEW prio, has(prio), \A f \in all : f.priority <= prio PROVE Hits # {}
  BY <1>2 DEF Hits
<1> HIDE DEF all
<1>3. \E prio : has(prio) /\ \A f \in all : f.priority <= prio
  <2>1. g \in all
    BY DEF all
  <2>2. CASE has(1100)
    BY <2>2, <1>1
  <2>3. CASE ~has(1100) /\ has(1000)
    BY <2>3, <1>1
  <2>4. CASE ~has(1100) /\ ~has(1000) /\ has(500)
    BY <2>4, <1>1
  <2>5. CASE ~has(1100) /\ ~has(1000) /\ ~has(500) /\ has(400)
    BY <2>5, <1>1
  <2>6. CASE ~has(1100) /\ ~has(1000) /\ ~has(500) /\ ~has(400) /\ has(300)
    BY <2>6, <1>1
  <2>7. CASE ~has(1100) /\ ~has(1000) /\ ~has(500) /\ ~has(400) /\ ~has(300) /\ has(150)
    BY <2>7, <1>1
  <2>8. CASE \A f \in all : f.priority \in {0, 50, 100}
    BY <2>1, <2>8
  <2>9. QED
    BY <1>1, <2>2, <2>3, <2>4, <2>5, <2>6, <2>7, <2>8
<1>4. QED
  BY <1>2, <1>3

-----------------------------------------------------------------------------
(* A packet's next step *)

\* It goes on to a table of the same bridge, or through the overlay to the one of node m.
Goto(t) == tbl' = t /\ UNCHANGED <<policies, view, pkt, node, port, hops, outcome>>
Sent(m) ==
    /\ node' = m /\ port' = [type |-> "overlay"] /\ tbl' = tableEntry /\ hops' = hops + 1
    /\ UNCHANGED <<policies, view, pkt, outcome>>

\* A lookup applies a flow that no other one that matches outranks, and it drops the packet
\* only if none matches.
LEMMA LookupApplies ==
    ASSUME Lookup
    PROVE  \/ /\ \A g \in syncFlows(node) : ~Matches(g)
              /\ End([type |-> "dropped"])
           \/ \E f \in syncFlows(node) :
                /\ Matches(f) /\ Apply(f)
                /\ \A g \in syncFlows(node) : Matches(g) => g.priority <= f.priority
<1>1. CASE Hits = {} /\ End([type |-> "dropped"])
  BY <1>1, HitsExist
<1>2. ASSUME NEW f \in Hits, Apply(f)
      PROVE  /\ f \in syncFlows(node) /\ Matches(f)
             /\ \A g \in syncFlows(node) : Matches(g) => g.priority <= f.priority
  BY <1>2 DEF Hits
<1>3. QED
  BY <1>1, <1>2 DEF Lookup

\* What each action does.
LEMMA ApplyResubmit ==
    ASSUME NEW f, NEW t, f.action = Resubmit(t), Apply(f) PROVE Goto(t)
BY DEF Apply, Resubmit, Goto

LEMMA ApplyTunnel ==
    ASSUME NEW f, NEW addr, f.action = Tunnel(addr), Apply(f)
    PROVE  IF port.type # "overlay" /\ addr \in NodeIPs THEN Sent(nodeOf(addr)) ELSE End([type |-> "dropped"])
BY DEF Apply, Tunnel, Sent

LEMMA ApplyOutput ==
    ASSUME NEW f, NEW p, f.action = Output(p), Apply(f)
    PROVE  IF port = [type |-> "pod", pod |-> p] THEN End([type |-> "dropped"])
             ELSE End([type |-> "pod", pod |-> p])
BY DEF Apply, Output

LEMMA ApplyLocal ==
    ASSUME NEW f, f.action = Local, Apply(f)
    PROVE  IF port.type = "local" THEN End([type |-> "dropped"]) ELSE End([type |-> "host", node |-> node])
BY DEF Apply, Local

LEMMA ApplyClusterWide ==
    ASSUME NEW f, f.action = ClusterWide, Apply(f) PROVE End([type |-> "host", node |-> node])
BY DEF Apply, ClusterWide

LEMMA ApplyDrop ==
    ASSUME NEW f, f.action = Drop, Apply(f) PROVE End([type |-> "dropped"])
BY DEF Apply, Drop

LEMMA ApplyArpReply ==
    ASSUME NEW f, f.action = ArpReply, Apply(f) PROVE End([type |-> "answered"])
BY DEF Apply, ArpReply

\* A flow of the packet's table takes it if its fields fit.
LEMMA MatchesFits ==
    ASSUME NEW f PROVE Matches(f) <=> f.table = tbl /\ Fits(f)
BY DEF Matches, Fits

\* A packet fits what matches on its protocol and destination only.
LEMMA FitsAny ==
    ASSUME PacketOK, NEW t, NEW prio, NEW protos, NEW dst, NEW action
    PROVE  LET f == Flow(t, prio, protos, Any, dst, AnyPort, action)
           IN  /\ Fits(f) <=> pkt.proto \in protos /\ pkt.dst \in dst
               /\ f.table = t /\ f.priority = prio /\ f.action = action
<1> DEFINE f == Flow(t, prio, protos, Any, dst, AnyPort, action)
<1>1. /\ f.table = t /\ f.priority = prio /\ f.protos = protos /\ f.src = Any /\ f.dst = dst
      /\ f.ports = AnyPort /\ f.action = action
  BY FlowFields
<1>2. pkt.src \in Any /\ pkt.dport \in AnyPort
  BY DEF PacketOK, Any, Addrs
<1> HIDE DEF f
<1>3. Fits(f) <=> pkt.proto \in protos /\ pkt.dst \in dst
  BY <1>1, <1>2 DEF Fits
<1>4. QED
  BY <1>1, <1>3 DEF f

LEMMA EntryStep ==
    ASSUME PacketOK, tbl = tableEntry, Lookup PROVE Goto(tableNetworkPolicies)
<1> DEFINE e == Flow(tableEntry, 1000, ip \cup arp, Any, Any, AnyPort, Resubmit(tableNetworkPolicies))
<1>1. e \in syncFlows(node)
  <2>1. e \in defaultFlows(node)
    BY DEF defaultFlows
  <2>2. QED
    BY <2>1, DefaultsMade
<1>2. Matches(e)
  BY FitsAny, MatchesFits DEF PacketOK, Any
<1>3. PICK f \in syncFlows(node) : Matches(f) /\ Apply(f)
  BY <1>1, <1>2, LookupApplies
<1>4. f = e
  BY <1>3, MatchesFits, EntryFlow
<1>5. f.action = Resubmit(tableNetworkPolicies)
  BY <1>4 DEF Flow
<1>6. QED
  BY <1>3, <1>5, ApplyResubmit

\* The policies' table passes an ARP packet on.
LEMMA NetworkPolicyArpStep ==
    ASSUME PacketOK, pkt.proto = "arp", tbl = tableNetworkPolicies, Lookup PROVE Goto(tableClassification)
<1> DEFINE e == Flow(tableNetworkPolicies, 0, ip \cup arp, Any, Any, AnyPort, Resubmit(tableClassification))
<1>1. e \in syncFlows(node)
  <2>1. e \in defaultFlows(node)
    BY DEF defaultFlows
  <2>2. QED
    BY <2>1, DefaultsMade
<1>2. Matches(e)
  BY FitsAny, MatchesFits DEF PacketOK, Any
<1>3. PICK f \in syncFlows(node) : Matches(f) /\ Apply(f)
  BY <1>1, <1>2, LookupApplies
<1>4. f = e
  <2>1. f.table = tableNetworkPolicies /\ pkt.proto \in f.protos
    BY <1>3, MatchesFits DEF Fits
  <2>2. ~ (f.protos \subseteq ip)
    BY <2>1 DEF ip
  <2>3. QED
    BY <2>1, <2>2, NetworkPolicyFlow, PolicyFlow
<1>5. f.action = Resubmit(tableClassification)
  BY <1>4 DEF Flow
<1>6. QED
  BY <1>3, <1>5, ApplyResubmit

LEMMA ClassificationArpStep ==
    ASSUME PacketOK, pkt.proto = "arp", tbl = tableClassification, Lookup PROVE Goto(tableLocalARP)
<1> DEFINE e == Flow(tableClassification, 100, arp, Any, Any, AnyPort, Resubmit(tableLocalARP))
<1>1. e \in syncFlows(node)
  <2>1. e \in classificationFlows(node)
    BY DEF classificationFlows
  <2>2. QED
    BY <2>1, DefaultsMade
<1>2. Matches(e)
  BY FitsAny, MatchesFits DEF PacketOK, Any, arp
<1>3. PICK f \in syncFlows(node) : Matches(f) /\ Apply(f) /\ e.priority <= f.priority
  BY <1>1, <1>2, LookupApplies
<1>4. f.table = tableClassification /\ pkt.proto \in f.protos
  BY <1>3, MatchesFits DEF Fits
<1>5. f.protos # ip /\ f.priority >= 100
  BY <1>3, <1>4 DEF ip, Flow
<1>6. CASE f \in classificationFlows(node)
  <2>1. f = e
    BY <1>5, <1>6 DEF classificationFlows, Flow
  <2>2. f.action = Resubmit(tableLocalARP)
    BY <2>1 DEF Flow
  <2>3. QED
    BY <1>3, <2>2, ApplyResubmit
<1>7. ASSUME NEW m \in view[node], f \in flowsForVSwitch(node, m) PROVE FALSE
  BY <1>5, <1>7, VSwitchFlow
<1>8. QED
  BY <1>4, <1>6, <1>7, ClassificationFlow

LEMMA ArpStep ==
    ASSUME PacketOK, pkt.proto = "arp", pkt.dst \in ClusterCIDR, tbl = tableLocalARP, Lookup
    PROVE  End([type |-> "answered"])
<1> DEFINE e == Flow(tableLocalARP, 400, arp, Any, ClusterCIDR, AnyPort, ArpReply)
<1>1. e \in syncFlows(node)
  <2>1. e \in arpFlows(node)
    BY DEF arpFlows
  <2>2. QED
    BY <2>1, DefaultsMade
<1>2. Matches(e)
  BY FitsAny, MatchesFits DEF arp
<1>3. PICK f \in syncFlows(node) : Matches(f) /\ Apply(f)
  BY <1>1, <1>2, LookupApplies
<1>4. f.action = ArpReply
  BY <1>3, MatchesFits, ARPFlow
<1>5. QED
  BY <1>3, <1>4, ApplyArpReply

\* A policy's flow that takes the packet says why.
LEMMA PolicyMatch ==
    ASSUME NEW n, NEW pol \in policies, NEW f \in flowsForNetworkPolicy(n, pol), Fits(f)
    PROVE  Drops(n) /\ (f.priority = 1000 => Opens(n)) /\ (f.priority = 1100 => Excepts(n))
<1>1. CASE f \in flowsForIngressNetworkPolicy(n, pol)
  <2>1. /\ pkt.dst \in localPodIPs(n, pol)
        /\ f.priority = 1000 => \E rule \in pol.ingress : RuleOpens(pol, rule, pkt.src)
        /\ f.priority = 1100 => \E rule \in pol.ingress : RuleExcepts(rule, pkt.src)
    BY <1>1, IngressTakes
  <2>2. QED
    BY <2>1 DEF Drops, Opens, Excepts
<1>2. CASE f \in flowsForEgressNetworkPolicy(n, pol)
  <2>1. /\ pkt.src \in localPodIPs(n, pol)
        /\ f.priority = 1000 => \E rule \in pol.egress : RuleOpens(pol, rule, pkt.dst)
        /\ f.priority = 1100 => \E rule \in pol.egress : RuleExcepts(rule, pkt.dst)
    BY <1>2, EgressTakes
  <2>2. QED
    BY <2>1 DEF Drops, Opens, Excepts
<1>3. QED
  BY <1>1, <1>2 DEF flowsForNetworkPolicy

\* And for every reason there is one that does.
LEMMA PolicyMade ==
    ASSUME PacketOK, IsIP, NEW n
    PROVE  LET has(prio) == \E f \in syncFlows(n) : /\ f.table = tableNetworkPolicies
                                                    /\ Fits(f) /\ f.priority = prio
           IN  (Drops(n) => has(100)) /\ (Opens(n) => has(1000)) /\ (Excepts(n) => has(1100))
<1> DEFINE has(prio) == \E f \in syncFlows(n) : /\ f.table = tableNetworkPolicies
                                                /\ Fits(f) /\ f.priority = prio
<1>1. ASSUME NEW pol \in policies, NEW prio,
             \/ \E f \in flowsForIngressNetworkPolicy(n, pol) : Fits(f) /\ f.priority = prio
             \/ \E f \in flowsForEgressNetworkPolicy(n, pol) : Fits(f) /\ f.priority = prio
      PROVE  has(prio)
  <2>1. PICK f \in flowsForNetworkPolicy(n, pol) : Fits(f) /\ f.priority = prio
    BY <1>1 DEF flowsForNetworkPolicy
  <2>2. f \in syncFlows(n)
    BY <2>1, SyncFlows
  <2>3. QED
    BY <2>1, <2>2, PolicyFlow
<1>2. ASSUME NEW pol \in policies, pkt.dst \in localPodIPs(n, pol)
      PROVE  /\ has(100)
             /\ (\E rule \in pol.ingress : RuleOpens(pol, rule, pkt.src)) => has(1000)
             /\ (\E rule \in pol.ingress : RuleExcepts(rule, pkt.src)) => has(1100)
  <2> HIDE DEF has
  <2> DEFINE made(prio) == \E f \in flowsForIngressNetworkPolicy(n, pol) : Fits(f) /\ f.priority = prio
  <2>1. /\ made(100)
        /\ (\E rule \in pol.ingress : RuleOpens(pol, rule, pkt.src)) => made(1000)
        /\ (\E rule \in pol.ingress : RuleExcepts(rule, pkt.src)) => made(1100)
    BY <1>2, IngressMade
  <2>2. \A prio : made(prio) => has(prio)
    BY <1>1
  <2> HIDE DEF made
  <2>3. QED
    BY <2>1, <2>2
<1>3. ASSUME NEW pol \in policies, pkt.src \in localPodIPs(n, pol)
      PROVE  /\ has(100)
             /\ (\E rule \in pol.egress : RuleOpens(pol, rule, pkt.dst)) => has(1000)
             /\ (\E rule \in pol.egress : RuleExcepts(rule, pkt.dst)) => has(1100)
  <2> HIDE DEF has
  <2> DEFINE made(prio) == \E f \in flowsForEgressNetworkPolicy(n, pol) : Fits(f) /\ f.priority = prio
  <2>1. /\ made(100)
        /\ (\E rule \in pol.egress : RuleOpens(pol, rule, pkt.dst)) => made(1000)
        /\ (\E rule \in pol.egress : RuleExcepts(rule, pkt.dst)) => made(1100)
    BY <1>3, EgressMade
  <2>2. \A prio : made(prio) => has(prio)
    BY <1>1
  <2> HIDE DEF made
  <2>3. QED
    BY <2>1, <2>2
<1> HIDE DEF has
<1>4. (Drops(n) => has(100)) /\ (Opens(n) => has(1000)) /\ (Excepts(n) => has(1100))
  BY <1>2, <1>3 DEF Drops, Opens, Excepts
<1>5. QED
  BY <1>4 DEF has

\* The policies' table lets an IP packet through exactly if the bridge admits it.
LEMMA NetworkPolicyStep ==
    ASSUME PacketOK, IsIP, tbl = tableNetworkPolicies, Lookup
    PROVE  IF Admits(node) THEN Goto(tableClassification) ELSE End([type |-> "dropped"])
<1> DEFINE e == Flow(tableNetworkPolicies, 0, ip \cup arp, Any, Any, AnyPort, Resubmit(tableClassification))
           has(prio) == \E f \in syncFlows(node) : /\ f.table = tableNetworkPolicies
                                                   /\ Fits(f) /\ f.priority = prio
<1>1. e \in syncFlows(node)
  <2>1. e \in defaultFlows(node)
    BY DEF defaultFlows
  <2>2. QED
    BY <2>1, DefaultsMade
<1>2. Matches(e)
  BY FitsAny, MatchesFits DEF PacketOK, Any
<1>3. PICK f \in syncFlows(node) :
         Matches(f) /\ Apply(f) /\ \A g \in syncFlows(node) : Matches(g) => g.priority <= f.priority
  BY <1>1, <1>2, LookupApplies
<1>4. f.table = tableNetworkPolicies /\ Fits(f)
  BY <1>3, MatchesFits
<1>5. \A prio : has(prio) => prio <= f.priority
  BY <1>3, MatchesFits
<1>6. (Drops(node) => has(100)) /\ (Opens(node) => has(1000)) /\ (Excepts(node) => has(1100))
  BY PolicyMade
<1>7. Excepts(node) \/ Opens(node) => Drops(node)
  BY DEF Excepts, Drops, Opens
<1> HIDE DEF has, e
<1>8. CASE f = e
  <2>1. f.priority = 0 /\ f.action = Resubmit(tableClassification)
    BY <1>8, FlowFields DEF e
  <2>2. ~Drops(node)
    BY <1>5, <1>6, <2>1
  <2>3. QED
    BY <1>3, <1>7, <2>1, <2>2, ApplyResubmit DEF Admits
<1>9. ASSUME NEW pol \in policies, f \in flowsForNetworkPolicy(node, pol)
      PROVE  IF Admits(node) THEN Goto(tableClassification) ELSE End([type |-> "dropped"])
  <2>1. Drops(node) /\ (f.priority = 1000 => Opens(node)) /\ (f.priority = 1100 => Excepts(node))
    BY <1>4, <1>9, PolicyMatch
  <2>2. /\ f.priority \in {100, 1000, 1100}
        /\ f.action = IF f.priority = 1000 THEN Resubmit(tableClassification) ELSE Drop
    BY <1>9, PolicyFlow
  <2>3. CASE f.priority = 1000
    <3>1. ~Excepts(node)
      BY <1>5, <1>6, <2>3
    <3>2. QED
      BY <1>3, <2>1, <2>2, <2>3, <3>1, ApplyResubmit DEF Admits
  <2>4. CASE f.priority # 1000
    <3>1. Excepts(node) \/ ~Opens(node)
      BY <1>5, <1>6, <2>1, <2>2, <2>4
    <3>2. QED
      BY <1>3, <2>1, <2>2, <2>4, <3>1, ApplyDrop DEF Admits
  <2>5. QED
    BY <2>3, <2>4
<1>10. QED
  BY <1>4, <1>8, <1>9, NetworkPolicyFlow DEF e

\* What the classification may say of an IP packet: a flow that takes it is one of these.
LEMMA ClassificationMatch ==
    ASSUME IsIP, NEW n, NEW f \in syncFlows(n), f.table = tableClassification, Fits(f)
    PROVE  \/ f.priority = 0 /\ f.action = Local
           \/ f.priority = 500 /\ f.action = Local /\ pkt.dst = Gateway[n]
           \/ f.priority = 300 /\ f.action = Resubmit(tableL2Rewrites) /\ pkt.dst \in PodCIDR[n]
           \/ f.priority = 100 /\ f.action = Resubmit(tableL3Forwarding) /\ pkt.dst \in ClusterCIDR
           \/ f.priority = 100 /\ f.action = Local /\ pkt.dst = OverlayIP[n]
           \/ f.priority = 50 /\ f.action = ClusterWide /\ pkt.dst = OverlayIP[n]
           \/ /\ f.priority = 50 /\ f.action = Resubmit(tableL3Forwarding)
              /\ \E m \in view[n] \ {n} : pkt.dst = OverlayIP[m]
<1>1. CASE f \in classificationFlows(n)
  <2>1. f # Flow(tableClassification, 100, arp, Any, Any, AnyPort, Resubmit(tableLocalARP))
    BY DEF Fits, Flow, IsIP, ip, arp
  <2>2. CASE f = Flow(tableClassification, 0, ip \cup arp, Any, Any, AnyPort, Local)
    BY <2>2, FlowFields
  <2>3. CASE f = Flow(tableClassification, 500, ip, Any, {Gateway[n]}, AnyPort, Local)
    BY <2>3, FlowFields DEF Fits
  <2>4. CASE f = Flow(tableClassification, 300, ip, Any, PodCIDR[n], AnyPort, Resubmit(tableL2Rewrites))
    BY <2>4, FlowFields DEF Fits
  <2>5. CASE f = Flow(tableClassification, 100, ip, Any, ClusterCIDR, AnyPort, Resubmit(tableL3Forwarding))
    BY <2>5, FlowFields DEF Fits
  <2>6. QED
    BY <1>1, <2>1, <2>2, <2>3, <2>4, <2>5 DEF classificationFlows
<1>2. ASSUME NEW m \in view[n], f \in flowsForVSwitch(n, m)
      PROVE  \/ f.priority = 100 /\ f.action = Local /\ pkt.dst = OverlayIP[n]
             \/ f.priority = 50 /\ f.action = ClusterWide /\ pkt.dst = OverlayIP[n]
             \/ /\ f.priority = 50 /\ f.action = Resubmit(tableL3Forwarding)
                /\ m # n /\ pkt.dst = OverlayIP[m]
  <2>1. CASE f = Flow(tableClassification, 100, ip, PodCIDR[n], {OverlayIP[n]}, AnyPort, Local)
    BY <2>1, FlowFields DEF Fits
  <2>2. CASE f = Flow(tableClassification, 50, ip, Any, {OverlayIP[n]}, AnyPort, ClusterWide)
    BY <2>2, FlowFields DEF Fits
  <2>3. CASE /\ m # n
             /\ f = Flow(tableClassification, 50, ip, Any, {OverlayIP[m]}, AnyPort, Resubmit(tableL3Forwarding))
    BY <2>3, FlowFields DEF Fits
  <2>4. QED
    BY <1>2, <2>1, <2>2, <2>3, ClassificationFlowIs
<1>3. QED
  BY <1>1, <1>2, ClassificationFlow

\* The packet is handed to the host, if it does not come from there.
ToHost == \/ End([type |-> "host", node |-> node])
          \/ port.type = "local" /\ End([type |-> "dropped"])

\* The packet is for the overlay address of a config that the bridge's node knows.
ToPeer == \E m \in view[node] \ {node} : pkt.dst = OverlayIP[m]

\* Some flow of the classification takes every packet, and the one that takes an IP packet for
\* the bridge's gateway address, for its pods or for the rest of the cluster is the one
\* made for it.
LEMMA ClassificationStep ==
    ASSUME PacketOK, IsIP, node \in Nodes, view \in [Nodes -> SUBSET Configs],
           tbl = tableClassification, Lookup
    PROVE  /\ pkt.dst = Gateway[node] => ToHost
           /\ pkt.dst \in PodCIDR[node] \ {Gateway[node]} => Goto(tableL2Rewrites)
           /\ pkt.dst \in ClusterCIDR \ PodCIDR[node] => Goto(tableL3Forwarding)
           /\ pkt.dst \notin ClusterCIDR /\ ToPeer => Goto(tableL3Forwarding)
           /\ pkt.dst \notin ClusterCIDR /\ ~ToPeer => ToHost
<1> DEFINE has(prio) == \E g \in syncFlows(node) : Matches(g) /\ g.priority = prio
<1>1. /\ has(0)
      /\ pkt.dst = Gateway[node] => has(500)
      /\ pkt.dst \in PodCIDR[node] => has(300)
      /\ pkt.dst \in ClusterCIDR => has(100)
      /\ ToPeer => has(50)
  <2>1. ASSUME NEW prio, NEW protos, NEW dst, NEW action,
               Flow(tableClassification, prio, protos, Any, dst, AnyPort, action) \in syncFlows(node),
               pkt.proto \in protos, pkt.dst \in dst
        PROVE  has(prio)
    <3> DEFINE g == Flow(tableClassification, prio, protos, Any, dst, AnyPort, action)
    <3>1. Fits(g) /\ g.table = tableClassification /\ g.priority = prio
      BY <2>1, FitsAny
    <3> HIDE DEF g
    <3>2. Matches(g)
      BY <3>1, MatchesFits
    <3>3. g \in syncFlows(node)
      BY <2>1 DEF g
    <3>4. QED
      BY <3>1, <3>2, <3>3
  <2> HIDE DEF has
  <2>2. classificationFlows(node) \subseteq syncFlows(node)
    BY DefaultsMade
  <2>3. pkt.proto \in ip /\ pkt.proto \in ip \cup arp /\ pkt.dst \in Any
    BY DEF IsIP, PacketOK, Any
  <2>4. has(0)
    <3>1. Flow(tableClassification, 0, ip \cup arp, Any, Any, AnyPort, Local) \in syncFlows(node)
      BY <2>2 DEF classificationFlows
    <3>2. QED
      BY <2>1, <2>3, <3>1
  <2>5. ASSUME pkt.dst = Gateway[node] PROVE has(500)
    <3>1. Flow(tableClassification, 500, ip, Any, {Gateway[node]}, AnyPort, Local) \in syncFlows(node)
      BY <2>2 DEF classificationFlows
    <3>2. QED
      BY <2>1, <2>3, <2>5, <3>1
  <2>6. ASSUME pkt.dst \in PodCIDR[node] PROVE has(300)
    <3>1. Flow(tableClassification, 300, ip, Any, PodCIDR[node], AnyPort, Resubmit(tableL2Rewrites)) \in syncFlows(node)
      BY <2>2 DEF classificationFlows
    <3>2. QED
      BY <2>1, <2>3, <2>6, <3>1
  <2>7. ASSUME pkt.dst \in ClusterCIDR PROVE has(100)
    <3>1. Flow(tableClassification, 100, ip, Any, ClusterCIDR, AnyPort, Resubmit(tableL3Forwarding)) \in syncFlows(node)
      BY <2>2 DEF classificationFlows
    <3>2. QED
      BY <2>1, <2>3, <2>7, <3>1
  <2>8. ASSUME ToPeer PROVE has(50)
    <3>1. PICK m \in view[node] \ {node} : pkt.dst = OverlayIP[m]
      BY <2>8 DEF ToPeer
    <3> DEFINE g == Flow(tableClassification, 50, ip, Any, {OverlayIP[m]}, AnyPort, Resubmit(tableL3Forwarding))
    <3>2. g \in flowsForVSwitch(node, m)
      BY <3>1 DEF flowsForVSwitch
    <3>3. g \in syncFlows(node)
      BY <3>1, <3>2, SyncFlows
    <3>4. QED
      BY <2>1, <2>3, <3>1, <3>3
  <2>9. QED
    BY <2>4, <2>5, <2>6, <2>7, <2>8
<1>2. PICK f \in syncFlows(node) :
         Matches(f) /\ Apply(f) /\ \A g \in syncFlows(node) : Matches(g) => g.priority <= f.priority
  BY <1>1, LookupApplies
<1>3. \A prio : has(prio) => prio <= f.priority
  BY <1>2
<1> HIDE DEF has
<1>4. f.table = tableClassification /\ Fits(f)
  BY <1>2, MatchesFits
<1>5. /\ PodCIDR[node] \subseteq ClusterCIDR /\ Gateway[node] \in PodCIDR[node]
      /\ OverlayIP[node] \notin ClusterCIDR
  BY AddrSets
<1>6. ASSUME NEW m \in view[node] \ {node}, pkt.dst = OverlayIP[m]
      PROVE  pkt.dst \notin ClusterCIDR /\ pkt.dst # OverlayIP[node]
  <2>1. m \in Configs
    BY <1>6
  <2>2. pkt.dst \notin ClusterCIDR /\ (pkt.dst \in NodeIPs => m \in Nodes)
    BY <1>6, <2>1, ConfigAddr
  <2>3. QED
    BY <1>6, <2>2, AddrSets, PipelineAssumption
<1>7. f.action = Local => ToHost
  BY <1>2, ApplyLocal DEF ToHost
<1>8. f.action = ClusterWide => ToHost
  BY <1>2, ApplyClusterWide DEF ToHost
<1>9. \A t : f.action = Resubmit(t) => Goto(t)
  BY <1>2, ApplyResubmit
<1>10. CASE f.priority = 0 /\ f.action = Local
  BY <1>1, <1>3, <1>5, <1>7, <1>10
<1>11. CASE f.priority = 500 /\ f.action = Local /\ pkt.dst = Gateway[node]
  BY <1>5, <1>7, <1>11
<1>12. CASE f.priority = 300 /\ f.action = Resubmit(tableL2Rewrites) /\ pkt.dst \in PodCIDR[node]
  BY <1>1, <1>3, <1>5, <1>9, <1>12
<1>13. CASE f.priority = 100 /\ f.action = Resubmit(tableL3Forwarding) /\ pkt.dst \in ClusterCIDR
  BY <1>1, <1>3, <1>5, <1>9, <1>13
<1>14. CASE f.priority = 100 /\ f.action = Local /\ pkt.dst = OverlayIP[node]
  BY <1>5, <1>6, <1>7, <1>14 DEF ToPeer
<1>15. CASE f.priority = 50 /\ f.action = ClusterWide /\ pkt.dst = OverlayIP[node]
  BY <1>5, <1>6, <1>8, <1>15 DEF ToPeer
<1>16. CASE f.priority = 50 /\ f.action = Resubmit(tableL3Forwarding) /\ ToPeer
  BY <1>5, <1>6, <1>9, <1>16 DEF ToPeer
<1>17. QED
  BY <1>4, <1>10, <1>11, <1>12, <1>13, <1>14, <1>15, <1>16, ClassificationMatch DEF ToPeer

\* The L3 table sends an IP packet that is not for the bridge's pods to a node whose config
\* claims its address, or drops it if the config that does is of a node that is gone, or none is.
LEMMA L3Step ==
    ASSUME PacketOK, IsIP, node \in Nodes, view \in [Nodes -> SUBSET Configs],
           pkt.dst \notin PodCIDR[node], port.type # "overlay", tbl = tableL3Forwarding, Lookup
    PROVE  LET claims(m) == pkt.dst \in PodCIDR[m] \/ pkt.dst = OverlayIP[m]
           IN  \/ \E m \in view[node] \ {node} : claims(m) /\ m \in Nodes /\ Sent(m)
               \/ \E m \in view[node] \ {node} : claims(m) /\ m \notin Nodes /\ End([type |-> "dropped"])
               \/ (\A m \in view[node] \ {node} : ~claims(m)) /\ End([type |-> "dropped"])
<1> DEFINE claims(m) == pkt.dst \in PodCIDR[m] \/ pkt.dst = OverlayIP[m]
<1>1. ASSUME NEW m \in view[node] \ {node}, claims(m)
      PROVE  \E g \in syncFlows(node) : Matches(g)
  <2>1. pkt.proto \in ip
    BY DEF IsIP
  <2>2. CASE pkt.dst \in PodCIDR[m]
    <3> DEFINE g == Flow(tableL3Forwarding, 150, ip, Any, PodCIDR[m], AnyPort, Tunnel(OverlayIP[m]))
    <3>1. g \in flowsForVSwitch(node, m)
      BY <1>1 DEF flowsForVSwitch
    <3>2. g \in syncFlows(node)
      BY <1>1, <3>1, SyncFlows
    <3>3. Matches(g)
      BY <2>1, <2>2, FitsAny, MatchesFits
    <3>4. QED
      BY <3>2, <3>3
  <2>3. CASE pkt.dst = OverlayIP[m]
    <3> DEFINE g == Flow(tableL3Forwarding, 100, ip, Any, {OverlayIP[m]}, AnyPort, Tunnel(OverlayIP[m]))
    <3>1. g \in flowsForVSwitch(node, m)
      BY <1>1 DEF flowsForVSwitch
    <3>2. g \in syncFlows(node)
      BY <1>1, <3>1, SyncFlows
    <3>3. Matches(g)
      BY <2>1, <2>3, FitsAny, MatchesFits
    <3>4. QED
      BY <3>2, <3>3
  <2>4. QED
    BY <1>1, <2>2, <2>3
<1>2. CASE (\A g \in syncFlows(node) : ~Matches(g)) /\ End([type |-> "dropped"])
  BY <1>1, <1>2
<1>3. ASSUME NEW f \in syncFlows(node), Matches(f), Apply(f)
      PROVE  \E m \in view[node] \ {node} :
               claims(m) /\ (IF m \in Nodes THEN Sent(m) ELSE End([type |-> "dropped"]))
  <2>1. f.table = tableL3Forwarding /\ Fits(f)
    BY <1>3, MatchesFits
  <2>2. PICK m \in view[node] : f \in flowsForVSwitch(node, m)
    BY <2>1, L3Flow
  <2>3. f # Flow(tableL3Forwarding, 100, ip, Any, PodCIDR[node], AnyPort, Resubmit(tableL2Rewrites))
    BY <2>1, FlowFields DEF Fits
  <2>4. /\ m # node
        /\ \/ f = Flow(tableL3Forwarding, 150, ip, Any, PodCIDR[m], AnyPort, Tunnel(OverlayIP[m]))
           \/ f = Flow(tableL3Forwarding, 100, ip, Any, {OverlayIP[m]}, AnyPort, Tunnel(OverlayIP[m]))
    BY <2>1, <2>2, <2>3, L3FlowIs
  <2>5. f.action = Tunnel(OverlayIP[m]) /\ claims(m)
    BY <2>1, <2>4, FlowFields DEF Fits
  <2>6. m \in Configs
    BY <2>2
  <2>7. CASE m \in Nodes
    <3>1. OverlayIP[m] \in NodeIPs /\ nodeOf(OverlayIP[m]) = m
      BY <2>7, AddrSets, NodeOf
    <3>2. Sent(m)
      BY <1>3, <2>5, <3>1, ApplyTunnel
    <3>3. QED
      BY <2>2, <2>4, <2>5, <2>7, <3>2
  <2>8. CASE m \notin Nodes
    <3>1. OverlayIP[m] \notin NodeIPs
      BY <2>6, <2>8, ConfigAddr
    <3>2. End([type |-> "dropped"])
      BY <1>3, <2>5, <3>1, ApplyTunnel
    <3>3. QED
      BY <2>2, <2>4, <2>5, <2>8, <3>2
  <2>9. QED
    BY <2>7, <2>8
<1> HIDE DEF claims
<1>4. \/ \E m \in view[node] \ {node} : claims(m) /\ m \in Nodes /\ Sent(m)
      \/ \E m \in view[node] \ {node} : claims(m) /\ m \notin Nodes /\ End([type |-> "dropped"])
      \/ (\A m \in view[node] \ {node} : ~claims(m)) /\ End([type |-> "dropped"])
  BY <1>2, <1>3, LookupApplies DEF claims
<1>5. QED
  BY <1>4 DEF claims

\* The L2 table hands an IP packet to the pod that has its address, unless it came from
\* there, and drops it if no pod of the bridge has.
LEMMA L2Step ==
    ASSUME PacketOK, IsIP, pkt.dst \in PodCIDR[node], tbl = tableL2Rewrites, Lookup
    PROVE  \/ pkt.dst \notin PodIPs /\ End([type |-> "dropped"])
           \/ \E p \in Pods :
                /\ PodIP[p] = pkt.dst
                /\ IF port = [type |-> "pod", pod |-> p] THEN End([type |-> "dropped"])
                     ELSE End([type |-> "pod", pod |-> p])
<1>1. ASSUME pkt.dst \in PodIPs PROVE \E g \in syncFlows(node) : Matches(g)
  <2>1. PICK p \in Pods : PodIP[p] = pkt.dst
    BY <1>1 DEF PodIPs
  <2> DEFINE g == Flow(tableL2Rewrites, 100, ip, Any, {PodIP[p]}, AnyPort, Output(p))
  <2>2. g \in flowsForPod(node, p)
    BY <2>1 DEF flowsForPod, isLocalIP
  <2>3. g \in syncFlows(node)
    BY <2>2, SyncFlows
  <2>4. Matches(g)
    BY <2>1, FitsAny, MatchesFits DEF IsIP
  <2>5. QED
    BY <2>3, <2>4
<1>2. CASE (\A g \in syncFlows(node) : ~Matches(g)) /\ End([type |-> "dropped"])
  BY <1>1, <1>2
<1>3. ASSUME NEW f \in syncFlows(node), Matches(f), Apply(f)
      PROVE  \E p \in Pods :
                /\ PodIP[p] = pkt.dst
                /\ IF port = [type |-> "pod", pod |-> p] THEN End([type |-> "dropped"])
                     ELSE End([type |-> "pod", pod |-> p])
  <2>1. f.table = tableL2Rewrites /\ Fits(f)
    BY <1>3, MatchesFits
  <2>2. PICK p \in Pods : f = Flow(tableL2Rewrites, 100, ip, Any, {PodIP[p]}, AnyPort, Output(p))
    BY <2>1, L2Flow
  <2>3. f.action = Output(p) /\ PodIP[p] = pkt.dst
    BY <2>1, <2>2, FlowFields DEF Fits
  <2>4. IF port = [type |-> "pod", pod |-> p] THEN End([type |-> "dropped"]) ELSE End([type |-> "pod", pod |-> p])
    BY <1>3, <2>3, ApplyOutput
  <2>5. QED
    BY <2>3, <2>4
<1>4. QED
  BY <1>2, <1>3, LookupApplies

-----------------------------------------------------------------------------
(* The inductive invariant *)

\* The bridges whose policies admit the packet.
Admitting == {n \in Nodes : Admits(n)}

\* Every node knows the VSwitchConfigs of all nodes and no other.
AllKnown == \A n \in Nodes : view[n] = Nodes

\* What the packet is for holds all the way.
PacketSent ==
    /\ PacketOK
    /\ pkt.proto = "arp" => pkt.dst \in ClusterCIDR
    /\ \A n \in Nodes : pkt.src = Gateway[n] => pkt.dst \in ClusterCIDR

\* The packet is on its sender's bridge, or was let through there and is on the bridge that
\* has its destination.
Where ==
    /\ node \in Nodes
    /\ \/ /\ hops = 0 /\ pkt.src \in PodCIDR[node]
          /\ \/ port = [type |-> "local"] /\ pkt.src = Gateway[node]
             \/ \E p \in Pods : port = [type |-> "pod", pod |-> p] /\ PodIP[p] = pkt.src
       \/ /\ hops = 1 /\ port = [type |-> "overlay"] /\ IsIP
          /\ pkt.dst \in PodCIDR[node] \cup {OverlayIP[node]}
          /\ \E n \in Admitting \ {node} : pkt.src \in PodCIDR[n]

\* What is known of a packet in table t.
InTable(t) ==
    /\ t \in {tableEntry, tableNetworkPolicies, tableClassification, tableL3Forwarding,
              tableL2Rewrites, tableLocalARP}
    /\ t = tableL3Forwarding => /\ IsIP /\ hops = 0 /\ pkt.dst \notin PodCIDR[node]
                                /\ pkt.dst \in ClusterCIDR \/ ToPeer
    /\ t = tableL2Rewrites => IsIP /\ pkt.dst \in PodCIDR[node] \ {Gateway[node]}
    /\ t = tableLocalARP => pkt.proto = "arp"
    /\ t \in {tableClassification, tableL3Forwarding, tableL2Rewrites} /\ IsIP => node \in Admitting

\* Both ends' bridges admit the packet, and the sender's knows its way.
Reachable ==
    /\ pkt.dst \in PodIPs
    /\ \E from, to \in Admitting :
         /\ pkt.src \in PodCIDR[from] /\ pkt.dst \in PodCIDR[to]
         /\ from = to \/ Claims(from, pkt.dst) = {to}

\* Where the packet may end on its bridge.
EndOK(o) ==
    /\ \/ o = [type |-> "moving"]
       \/ o = [type |-> "answered"] /\ pkt.proto = "arp"
       \/ o = [type |-> "dropped"] /\ IsIP
       \/ o = [type |-> "host", node |-> node] /\ IsIP /\ pkt.dst \notin PodIPs
       \/ /\ IsIP /\ node \in Admitting /\ pkt.dst \in PodCIDR[node]
          /\ \E p \in Pods : o = [type |-> "pod", pod |-> p] /\ PodIP[p] = pkt.dst
    /\ IsIP /\ Reachable => o # [type |-> "dropped"]
    /\ IsIP /\ policies = {} /\ AllKnown => o.type = "moving" \/ o = Destination

IInv ==
    /\ view \in [Nodes -> SUBSET Configs]
    /\ \A pol \in policies : WellFormed(pol)
    /\ PacketSent
    /\ Where
    /\ InTable(tbl)
    /\ EndOK(outcome)

\* A step leaves the packet, the policies and the views alone, and so all that is said of them.
LEMMA Stable ==
    ASSUME UNCHANGED <<policies, view, pkt>>
    PROVE  /\ Admitting' = Admitting
           /\ IsIP' <=> IsIP
           /\ PacketSent' <=> PacketSent
           /\ Reachable' <=> Reachable
           /\ AllKnown' <=> AllKnown
           /\ Destination' = Destination
           /\ (\A pol \in policies : WellFormed(pol))' <=> \A pol \in policies : WellFormed(pol)
<1>1. policies' = policies /\ view' = view /\ pkt' = pkt
  OBVIOUS
<1>2. Admitting' = Admitting
  BY <1>1 DEF Admitting, Admits, Excepts, Drops, Opens, RuleOpens, RuleExcepts, PortsFit
<1>3. PacketSent' <=> PacketSent
  BY <1>1 DEF PacketSent, PacketOK
<1>4. Reachable' <=> Reachable
  <2>1. \A n, addr : Claims(n, addr)' = Claims(n, addr)
    BY <1>1 DEF Claims
  <2>2. QED
    BY <1>1, <1>2, <2>1 DEF Reachable
<1>5. Destination' = Destination
  BY <1>1 DEF Destination
<1>6. (IsIP' <=> IsIP) /\ (AllKnown' <=> AllKnown)
  BY <1>1 DEF IsIP, AllKnown
<1>7. (\A pol \in policies : WellFormed(pol))' <=> \A pol \in policies : WellFormed(pol)
  BY <1>1
<1>8. QED
  BY <1>2, <1>3, <1>4, <1>5, <1>6, <1>7

\* The three kinds of step keep the invariant.
LEMMA StayKeeps ==
    ASSUME IInv, UNCHANGED <<policies, view, pkt, node, port, hops>>,
           InTable(tbl'), EndOK(outcome')
    PROVE  IInv'
<1>1. /\ Admitting' = Admitting /\ (IsIP' <=> IsIP) /\ (PacketSent' <=> PacketSent)
      /\ (Reachable' <=> Reachable) /\ (AllKnown' <=> AllKnown) /\ Destination' = Destination
      /\ (\A pol \in policies : WellFormed(pol))'
  BY Stable DEF IInv
<1>2. Where'
  BY <1>1 DEF IInv, Where
<1>3. InTable(tbl)'
  BY <1>1 DEF InTable, ToPeer
<1>4. EndOK(outcome)'
  BY <1>1 DEF EndOK
<1>5. QED
  BY <1>1, <1>2, <1>3, <1>4 DEF IInv

LEMMA GotoKeeps ==
    ASSUME IInv, NEW t, Goto(t), InTable(t) PROVE IInv'
BY StayKeeps DEF IInv, Goto

LEMMA EndKeeps ==
    ASSUME IInv, NEW o, End(o), EndOK(o) PROVE IInv'
BY StayKeeps DEF IInv, End

LEMMA SentKeeps ==
    ASSUME IInv, outcome = [type |-> "moving"], tbl = tableL3Forwarding, NEW m \in Nodes \ {node},
           pkt.dst \in PodCIDR[m] \/ pkt.dst = OverlayIP[m], Sent(m)
    PROVE  IInv'
<1>1. /\ Admitting' = Admitting /\ (IsIP' <=> IsIP) /\ (PacketSent' <=> PacketSent)
      /\ (\A pol \in policies : WellFormed(pol))'
  BY Stable DEF IInv, Sent
<1>2. IsIP /\ hops = 0 /\ node \in Admitting
  BY DEF IInv, InTable
<1>3. Where'
  <2>1. pkt.src \in PodCIDR[node]
    BY <1>2 DEF IInv, Where
  <2>2. /\ node' = m /\ hops' = 1 /\ port' = [type |-> "overlay"] /\ pkt' = pkt
    BY <1>2 DEF Sent
  <2>3. node \in Admitting' \ {node'} /\ pkt'.src \in PodCIDR[node]
    BY <1>1, <1>2, <2>1, <2>2
  <2>4. QED
    BY <1>1, <1>2, <2>2, <2>3 DEF Where
<1>4. InTable(tbl)'
  <2>1. tbl' = tableEntry
    BY DEF Sent
  <2>2. QED
    BY <2>1 DEF InTable, tableEntry, tableNetworkPolicies, tableClassification, tableL3Forwarding,
                tableL2Rewrites, tableLocalARP
<1>5. EndOK(outcome)'
  <2>1. outcome' = [type |-> "moving"]
    BY DEF Sent
  <2>2. QED
    BY <2>1 DEF EndOK
<1>6. view' \in [Nodes -> SUBSET Configs]
  BY DEF Sent, IInv
<1>7. QED
  BY <1>1, <1>3, <1>4, <1>5, <1>6 DEF IInv

\* Where a packet that the classification hands to the host belongs.
LEMMA HostEnd ==
    ASSUME IInv, IsIP, pkt.dst \notin PodIPs,
           \/ pkt.dst = Gateway[node]
           \/ pkt.dst \notin ClusterCIDR /\ ~ToPeer,
           ToHost
    PROVE  IInv'
<1>1. node \in Nodes /\ PacketSent /\ PacketOK
  BY DEF IInv, Where, PacketSent
<1>2. port.type # "local"
  <2>1. ASSUME port.type = "local" PROVE FALSE
    <3>1. pkt.src = Gateway[node]
      BY <2>1 DEF IInv, Where
    <3>2. pkt.dst \in ClusterCIDR /\ pkt.dst # pkt.src
      BY <1>1, <3>1 DEF PacketSent, PacketOK
    <3>3. QED
      BY <3>1, <3>2
  <2>2. QED
    BY <2>1
<1> DEFINE o == [type |-> "host", node |-> node]
<1>3. End(o)
  BY <1>2 DEF ToHost
<1>4. ASSUME AllKnown PROVE o = Destination
  <2>1. CASE pkt.dst = Gateway[node]
    <3>1. nodeOf(pkt.dst) = node
      BY <1>1, <2>1, AddrSets, NodeOf
    <3>2. pkt.dst \in NodeIPs \cup {Gateway[n] : n \in Nodes}
      BY <1>1, <2>1
    <3>3. pkt.dst \notin External
      BY <1>1, <2>1, AddrSets
    <3>4. QED
      BY <3>1, <3>2, <3>3 DEF Destination
  <2>2. CASE pkt.dst \notin ClusterCIDR /\ ~ToPeer /\ pkt.dst \in NodeIPs
    <3>1. PICK n \in Nodes : pkt.dst = OverlayIP[n]
      BY <2>2 DEF NodeIPs
    <3>2. n = node
      BY <1>1, <1>4, <2>2, <3>1 DEF AllKnown, ToPeer
    <3>3. nodeOf(pkt.dst) = node
      BY <3>1, <3>2, NodeOf
    <3>4. pkt.dst \notin External
      BY <1>1, <2>2, AddrSets
    <3>5. QED
      BY <2>2, <3>3, <3>4 DEF Destination
  <2>3. CASE pkt.dst \notin ClusterCIDR /\ pkt.dst \notin NodeIPs
    <3>1. pkt.dst \in External
      BY <1>1, <2>3 DEF PacketOK, Addrs
    <3>2. pkt.dst \notin {Gateway[n] : n \in Nodes}
      BY <2>3, AddrSets
    <3>3. pkt.src \in PodCIDR[node]
      <4>1. pkt.dst # OverlayIP[node] /\ pkt.dst \notin PodCIDR[node]
        BY <1>1, <2>3, AddrSets
      <4>2. QED
        BY <4>1 DEF IInv, Where
    <3>4. nodeOf(pkt.src) = node
      BY <1>1, <3>3, NodeOf
    <3>5. QED
      BY <2>3, <3>1, <3>2, <3>4 DEF Destination
  <2>4. QED
    BY <2>1, <2>2, <2>3
<1>5. EndOK(o)
  <2>1. o # [type |-> "dropped"]
    OBVIOUS
  <2>2. QED
    BY <1>4, <2>1 DEF EndOK
<1>6. QED
  BY <1>3, <1>5, EndKeeps

\* A packet that the L3 table drops could not be delivered.
LEMMA L3Keeps ==
    ASSUME IInv, Lookup, outcome = [type |-> "moving"], tbl = tableL3Forwarding
    PROVE  IInv'
<1> DEFINE claims(m) == pkt.dst \in PodCIDR[m] \/ pkt.dst = OverlayIP[m]
<1>1. /\ node \in Nodes /\ PacketSent /\ PacketOK /\ IsIP /\ hops = 0 /\ pkt.dst \notin PodCIDR[node]
      /\ pkt.dst \in ClusterCIDR \/ ToPeer
      /\ view \in [Nodes -> SUBSET Configs] /\ view[node] \subseteq Configs
  BY DEF IInv, Where, PacketSent, InTable
<1>2. pkt.src \in PodCIDR[node] /\ port.type # "overlay"
  BY <1>1 DEF IInv, Where
<1>3. \/ \E m \in view[node] \ {node} : claims(m) /\ m \in Nodes /\ Sent(m)
      \/ \E m \in view[node] \ {node} : claims(m) /\ m \notin Nodes /\ End([type |-> "dropped"])
      \/ (\A m \in view[node] \ {node} : ~claims(m)) /\ End([type |-> "dropped"])
  BY <1>1, <1>2, L3Step
<1>4. CASE \E m \in view[node] \ {node} : claims(m) /\ m \in Nodes /\ Sent(m)
  BY <1>4, SentKeeps
<1>5. ASSUME \/ \E m \in view[node] \ {node} : claims(m) /\ m \notin Nodes
             \/ \A m \in view[node] \ {node} : ~claims(m)
      PROVE  EndOK([type |-> "dropped"])
  <2>1. ~Reachable
    <3>1. SUFFICES ASSUME Reachable PROVE FALSE
      OBVIOUS
    <3>2. PICK from \in Nodes, to \in Nodes :
             /\ pkt.dst \in PodIPs /\ pkt.src \in PodCIDR[from] /\ pkt.dst \in PodCIDR[to]
             /\ from = to \/ Claims(from, pkt.dst) = {to}
      BY <3>1 DEF Reachable, Admitting
    <3>3. from = node
      BY <1>1, <1>2, <3>2, NodeOf
    <3>4. Claims(node, pkt.dst) = {to}
      BY <1>1, <3>2, <3>3
    <3>5. to \in view[node] \ {node} /\ claims(to)
      BY <3>4 DEF Claims
    <3>6. PICK m \in view[node] \ {node} : claims(m) /\ m \notin Nodes
      BY <1>5, <3>5
    <3>7. pkt.dst # OverlayIP[m]
      BY <1>1, <3>2, <3>6, ConfigAddr, PodAddr
    <3>8. m \in Claims(node, pkt.dst)
      BY <3>6, <3>7 DEF Claims
    <3>9. QED
      BY <3>4, <3>6, <3>8
  <2>2. ASSUME AllKnown PROVE [type |-> "dropped"] = Destination
    <3>1. \A m \in Nodes \ {node} : pkt.dst \notin PodCIDR[m] /\ pkt.dst # OverlayIP[m]
      BY <1>1, <1>5, <2>2 DEF AllKnown
    <3>2. ~ToPeer
      BY <1>1, <2>2, <3>1 DEF AllKnown, ToPeer
    <3>3. pkt.dst \in ClusterCIDR
      BY <1>1, <3>2
    <3>4. pkt.dst \notin NodeIPs /\ pkt.dst \notin External
      BY <1>1, <3>3, AddrSets
    <3>5. \A n \in Nodes : pkt.dst \notin PodCIDR[n]
      BY <1>1, <3>1
    <3>6. pkt.dst \notin {Gateway[n] : n \in Nodes} /\ pkt.dst \notin PodIPs
      BY <3>5, AddrSets, PodAddr
    <3>7. QED
      BY <3>4, <3>6 DEF Destination
  <2>3. QED
    BY <1>1, <2>1, <2>2 DEF EndOK
<1>6. QED
  BY <1>3, <1>4, <1>5, EndKeeps

\* The pod with the packet's destination is unique.
LEMMA PodOf ==
    ASSUME NEW p \in Pods, PodIP[p] = pkt.dst
    PROVE  pkt.dst \in PodIPs /\ Destination = [type |-> "pod", pod |-> p]
<1>1. pkt.dst \in PodIPs
  BY DEF PodIPs
<1>2. pkt.dst \notin NodeIPs /\ pkt.dst \notin External /\ pkt.dst \notin {Gateway[n] : n \in Nodes}
  <2>1. pkt.dst \in ClusterCIDR
    BY <1>1, PodAddr
  <2>2. QED
    BY <1>1, <2>1, PipelineAssumption
<1>3. (CHOOSE q \in Pods : PodIP[q] = pkt.dst) = p
  BY PipelineAssumption
<1>4. QED
  BY <1>1, <1>2, <1>3 DEF Destination

LEMMA L2Keeps ==
    ASSUME IInv, Lookup, outcome = [type |-> "moving"], tbl = tableL2Rewrites
    PROVE  IInv'
<1>1. /\ node \in Nodes /\ PacketSent /\ PacketOK /\ IsIP /\ pkt.dst \in PodCIDR[node] \ {Gateway[node]}
      /\ node \in Admitting
  BY DEF IInv, Where, PacketSent, InTable
<1>2. CASE pkt.dst \notin PodIPs /\ End([type |-> "dropped"])
  <2>1. [type |-> "dropped"] = Destination
    <3>1. pkt.dst \notin NodeIPs /\ pkt.dst \notin External
      BY <1>1, AddrSets
    <3>2. pkt.dst \notin {Gateway[n] : n \in Nodes}
      BY <1>1, AddrSets, PipelineAssumption
    <3>3. QED
      BY <1>2, <3>1, <3>2 DEF Destination
  <2>2. EndOK([type |-> "dropped"])
    BY <1>1, <1>2, <2>1 DEF EndOK, Reachable
  <2>3. QED
    BY <1>2, <2>2, EndKeeps
<1>3. ASSUME NEW p \in Pods, PodIP[p] = pkt.dst,
             IF port = [type |-> "pod", pod |-> p] THEN End([type |-> "dropped"])
               ELSE End([type |-> "pod", pod |-> p])
      PROVE  IInv'
  <2>1. port # [type |-> "pod", pod |-> p]
    BY <1>1, <1>3 DEF IInv, Where, PacketOK
  <2>2. End([type |-> "pod", pod |-> p])
    BY <1>3, <2>1
  <2>3. EndOK([type |-> "pod", pod |-> p])
    BY <1>1, <1>3, PodOf DEF EndOK
  <2>4. QED
    BY <2>2, <2>3, EndKeeps
<1>4. QED
  BY <1>1, <1>2, <1>3, L2Step

LEMMA LookupKeeps ==
    ASSUME IInv, Lookup PROVE IInv'
<1>1. /\ node \in Nodes /\ PacketSent /\ PacketOK /\ view \in [Nodes -> SUBSET Configs]
      /\ InTable(tbl) /\ tbl \in {tableEntry, tableNetworkPolicies, tableClassification,
                                 tableL3Forwarding, tableL2Rewrites, tableLocalARP}
  BY DEF IInv, Where, PacketSent, InTable
<1>2. outcome = [type |-> "moving"]
  BY DEF Lookup, IInv, EndOK
<1>3. IsIP \/ pkt.proto = "arp"
  BY <1>1 DEF PacketOK, IsIP, arp
<1> USE DEF tableEntry, tableNetworkPolicies, tableClassification, tableL3Forwarding, tableL2Rewrites, tableLocalARP
<1>4. CASE tbl = tableEntry
  <2>1. Goto(tableNetworkPolicies)
    BY <1>1, <1>4, EntryStep
  <2>2. InTable(tableNetworkPolicies)
    BY DEF InTable
  <2>3. QED
    BY <2>1, <2>2, GotoKeeps
<1>5. CASE tbl = tableNetworkPolicies
  <2>1. CASE pkt.proto = "arp"
    <3>1. Goto(tableClassification)
      BY <1>1, <1>5, <2>1, NetworkPolicyArpStep
    <3>2. InTable(tableClassification)
      BY <2>1 DEF InTable, IsIP, ip
    <3>3. QED
      BY <3>1, <3>2, GotoKeeps
  <2>2. CASE IsIP /\ Admits(node)
    <3>1. Goto(tableClassification)
      BY <1>1, <1>5, <2>2, NetworkPolicyStep
    <3>2. InTable(tableClassification)
      BY <1>1, <2>2 DEF InTable, Admitting
    <3>3. QED
      BY <3>1, <3>2, GotoKeeps
  <2>3. CASE IsIP /\ ~Admits(node)
    <3>1. End([type |-> "dropped"])
      BY <1>1, <1>5, <2>3, NetworkPolicyStep
    <3>2. ~Reachable
      <4>1. SUFFICES ASSUME Reachable PROVE FALSE
        OBVIOUS
      <4>2. PICK from \in Nodes, to \in Nodes :
               /\ from \in Admitting /\ to \in Admitting
               /\ pkt.dst \in PodIPs /\ pkt.src \in PodCIDR[from] /\ pkt.dst \in PodCIDR[to]
        BY <4>1 DEF Reachable, Admitting
      <4>3. pkt.src \in PodCIDR[node] \/ pkt.dst \in PodCIDR[node]
        <5>1. pkt.dst # OverlayIP[node]
          BY <1>1, <4>2, AddrSets
        <5>2. QED
          BY <5>1 DEF IInv, Where
      <4>4. node = from \/ node = to
        BY <1>1, <4>2, <4>3, NodeOf
      <4>5. QED
        BY <2>3, <4>2, <4>4 DEF Admitting
    <3>3. policies # {}
      BY <2>3 DEF Admits, Excepts, Drops
    <3>4. EndOK([type |-> "dropped"])
      BY <2>3, <3>2, <3>3 DEF EndOK
    <3>5. QED
      BY <3>1, <3>4, EndKeeps
  <2>4. QED
    BY <1>3, <2>1, <2>2, <2>3
<1>6. CASE tbl = tableClassification
  <2>1. CASE pkt.proto = "arp"
    <3>1. Goto(tableLocalARP)
      BY <1>1, <1>6, <2>1, ClassificationArpStep
    <3>2. InTable(tableLocalARP)
      BY <2>1 DEF InTable
    <3>3. QED
      BY <3>1, <3>2, GotoKeeps
  <2>2. CASE IsIP
    <3>1. node \in Admitting
      BY <1>1, <1>6, <2>2 DEF InTable
    <3>2. /\ pkt.dst = Gateway[node] => ToHost
          /\ pkt.dst \in PodCIDR[node] \ {Gateway[node]} => Goto(tableL2Rewrites)
          /\ pkt.dst \in ClusterCIDR \ PodCIDR[node] => Goto(tableL3Forwarding)
          /\ pkt.dst \notin ClusterCIDR /\ ToPeer => Goto(tableL3Forwarding)
          /\ pkt.dst \notin ClusterCIDR /\ ~ToPeer => ToHost
      BY <1>1, <1>6, <2>2, ClassificationStep
    <3>3. CASE pkt.dst = Gateway[node]
      <4>1. pkt.dst \notin PodIPs
        BY <1>1, <3>3, AddrSets
      <4>2. QED
        BY <2>2, <3>2, <3>3, <4>1, HostEnd
    <3>4. CASE pkt.dst \in PodCIDR[node] \ {Gateway[node]}
      <4>1. InTable(tableL2Rewrites)
        BY <2>2, <3>1, <3>4 DEF InTable
      <4>2. QED
        BY <3>2, <3>4, <4>1, GotoKeeps
    <3>5. CASE \/ pkt.dst \in ClusterCIDR \ PodCIDR[node]
               \/ pkt.dst \notin ClusterCIDR /\ ToPeer
      <4>1. pkt.dst \notin PodCIDR[node]
        BY <1>1, <3>5, AddrSets
      <4>2. hops = 0
        <5>1. ASSUME pkt.dst = OverlayIP[node] PROVE FALSE
          <6>1. OverlayIP[node] \in NodeIPs /\ OverlayIP[node] \notin ClusterCIDR
            BY <1>1, AddrSets
          <6>2. PICK m \in view[node] \ {node} : pkt.dst = OverlayIP[m]
            BY <3>5, <5>1, <6>1 DEF ToPeer
          <6>3. m \in Configs
            BY <1>1, <6>2
          <6>4. m \in Nodes
            <7>1. OverlayIP[m] \in NodeIPs
              BY <5>1, <6>1, <6>2
            <7>2. QED
              BY <6>3, <7>1, ConfigAddr
          <6>5. nodeOf(pkt.dst) = m /\ nodeOf(pkt.dst) = node
            BY <1>1, <5>1, <6>2, <6>4, NodeOf
          <6>6. QED
            BY <6>2, <6>5
        <5>2. QED
          BY <4>1, <5>1 DEF IInv, Where
      <4>3. InTable(tableL3Forwarding)
        BY <2>2, <3>1, <3>5, <4>1, <4>2 DEF InTable
      <4>4. QED
        BY <3>2, <3>5, <4>3, GotoKeeps
    <3>6. CASE pkt.dst \notin ClusterCIDR /\ ~ToPeer
      <4>1. pkt.dst \notin PodIPs
        BY <3>6, PodAddr
      <4>2. QED
        BY <2>2, <3>2, <3>6, <4>1, HostEnd
    <3>7. QED
      BY <1>1, <3>3, <3>4, <3>5, <3>6
  <2>3. QED
    BY <1>3, <2>1, <2>2
<1>7. CASE tbl = tableL3Forwarding
  BY <1>2, <1>7, L3Keeps
<1>8. CASE tbl = tableL2Rewrites
  BY <1>2, <1>8, L2Keeps
<1>9. CASE tbl = tableLocalARP
  <2>1. pkt.proto = "arp" /\ pkt.dst \in ClusterCIDR
    BY <1>1, <1>9 DEF InTable, PacketSent
  <2>2. End([type |-> "answered"])
    BY <1>1, <1>9, <2>1, ArpStep
  <2>3. EndOK([type |-> "answered"])
    BY <2>1 DEF EndOK, IsIP, ip
  <2>4. QED
    BY <2>2, <2>3, EndKeeps
<1>10. QED
  BY <1>1, <1>4, <1>5, <1>6, <1>7, <1>8, <1>9

LEMMA InitIInv ==
    ASSUME Init PROVE IInv
<1>1. PICK sc \in Scenarios : policies = sc.policies /\ view = sc.view
  BY DEF Init
<1>2. view \in [Nodes -> SUBSET Configs] /\ \A pol \in policies : WellFormed(pol)
  BY <1>1, PipelineAssumption
<1>3. PICK n \in Nodes, dst \in Addrs, tp \in Transport :
        \E src \in (PodIPs \cap PodCIDR[n]) \cup {Gateway[n]} :
            /\ src # dst
            /\ (tp.proto = "arp" \/ src = Gateway[n]) => dst \in ClusterCIDR
            /\ pkt = [src |-> src, dst |-> dst, proto |-> tp.proto, dport |-> tp.dport]
            /\ node = n
            /\ port = IF src = Gateway[n] THEN [type |-> "local"]
                        ELSE [type |-> "pod", pod |-> CHOOSE p \in Pods : PodIP[p] = src]
  BY DEF Init
<1>4. PICK src \in (PodIPs \cap PodCIDR[n]) \cup {Gateway[n]} :
            /\ src # dst
            /\ (tp.proto = "arp" \/ src = Gateway[n]) => dst \in ClusterCIDR
            /\ pkt = [src |-> src, dst |-> dst, proto |-> tp.proto, dport |-> tp.dport]
            /\ node = n
            /\ port = IF src = Gateway[n] THEN [type |-> "local"]
                        ELSE [type |-> "pod", pod |-> CHOOSE p \in Pods : PodIP[p] = src]
  BY <1>3
<1>5. src \in PodCIDR[n] /\ PodCIDR[n] \subseteq ClusterCIDR
  BY <1>4, AddrSets
<1>6. /\ tp.proto \in ip \cup arp /\ tp.dport \in AnyPort
      /\ tp.proto \in {"tcp", "udp"} => tp.dport \in PortNums
  BY DEF Transport, ip, arp, AnyPort
<1>7. PacketSent
  <2>1. PacketOK
    BY <1>4, <1>5, <1>6 DEF PacketOK
  <2>2. \A m \in Nodes : pkt.src = Gateway[m] => m = n
    BY <1>4, <1>5, AddrSets, NodeOf
  <2>3. QED
    BY <1>4, <2>1, <2>2 DEF PacketSent
<1>8. Where
  <2>1. CASE src = Gateway[n]
    BY <1>4, <1>5, <2>1 DEF Init, Where
  <2>2. CASE src # Gateway[n]
    <3>1. \E p \in Pods : PodIP[p] = src
      BY <1>4, <2>2 DEF PodIPs
    <3> DEFINE p == CHOOSE p \in Pods : PodIP[p] = src
    <3>2. p \in Pods /\ PodIP[p] = src
      BY <3>1
    <3>3. port = [type |-> "pod", pod |-> p]
      BY <1>4, <2>2
    <3> HIDE DEF p
    <3>4. QED
      BY <1>4, <1>5, <3>2, <3>3 DEF Init, Where
  <2>3. QED
    BY <2>1, <2>2
<1>9. InTable(tbl)
  BY DEF Init, InTable, tableEntry, tableNetworkPolicies, tableClassification, tableL3Forwarding,
         tableL2Rewrites, tableLocalARP
<1>10. EndOK(outcome)
  BY DEF Init, EndOK
<1>11. QED
  BY <1>2, <1>7, <1>8, <1>9, <1>10 DEF IInv

\* What holds of the packet's way at every step of it.
THEOREM WayCorrect == Spec => []IInv
<1>1. IInv /\ [Next]_vars => IInv'
  <2> SUFFICES ASSUME IInv, [Next]_vars PROVE IInv'
    OBVIOUS
  <2>1. CASE Next
    BY <2>1, LookupKeeps DEF Next
  <2>2. CASE UNCHANGED vars
    <3>1. /\ InTable(tbl') /\ EndOK(outcome')
      BY <2>2 DEF vars, IInv
    <3>2. QED
      BY <2>2, <3>1, StayKeeps DEF vars
  <2>3. QED
    BY <2>1, <2>2
<1>2. QED
  BY <1>1, InitIInv, PTL DEF Spec

-----------------------------------------------------------------------------
(* The flows and the network policy API *)

\* The pods of a bridge that a policy selects.
LEMMA LocalSelects ==
    ASSUME NEW n, NEW pol, WellFormed(pol), NEW addr
    PROVE  addr \in localPodIPs(n, pol) <=> addr \in PodCIDR[n] /\ Selects(pol, addr)
BY DEF localPodIPs, isLocalIP, Selects, podsAt, WellFormed

\* A rule that opens the packet's way without an except is one of those the flows stand for.
LEMMA OpensProgrammed ==
    ASSUME PacketOK, IsIP, NEW pol, NEW rule, NEW addr, NEW Q, Q.namespace = pol.namespace,
           \A peer \in rule.peers : peer.type = "ipBlock" \/ peer.pods = NoSelector \/ peer.pods \subseteq Pods,
           RuleOpens(pol, rule, addr), ~RuleExcepts(rule, addr)
    PROVE  \E r \in ProgrammedRules(rule) : RuleAllows(Q, r, addr)
<1> DEFINE ports == UNION {IF q.num = 0 THEN [protocol : {q.protocol}, num : PortNums] ELSE {q} :
                            q \in rule.ports}
           selector(peer) ==
             [type       |-> "selector",
              namespaces |-> IF peer.namespaces = {} THEN NoSelector ELSE peer.namespaces,
              pods       |-> peer.pods]
           taken(peer) ==
             IF peer.type = "ipBlock" THEN [peers |-> {peer}, ports |-> {}]
               ELSE [peers |-> {selector(peer)}, ports |-> ports]
           portsAllow == ports = {} \/ \E q \in ports : q.protocol = pkt.proto /\ q.num = pkt.dport
<1>1. ProgrammedRules(rule) =
        IF rule.peers = {} THEN {[peers |-> {}, ports |-> ports]}
          ELSE {taken(peer) : peer \in {q \in rule.peers : q.type = "ipBlock" \/ q.pods # NoSelector}}
  BY DEF ProgrammedRules
<1>2. ASSUME PortsFit(rule.ports) PROVE portsAllow
  <2>1. CASE rule.ports = {}
    BY <2>1
  <2>2. ASSUME NEW q \in rule.ports, q.protocol \in {"tcp", "udp"}, pkt.proto = q.protocol,
               pkt.dport \in portMatch(q.num)
        PROVE  \E r \in ports : r.protocol = pkt.proto /\ r.num = pkt.dport
    <3>1. CASE q.num = 0
      <4> DEFINE r == [protocol |-> q.protocol, num |-> pkt.dport]
      <4>1. r \in [protocol : {q.protocol}, num : PortNums]
        BY <2>2 DEF PacketOK
      <4>2. r \in ports
        BY <3>1, <4>1
      <4>3. QED
        BY <2>2, <4>2
    <3>2. CASE q.num # 0
      <4>1. q \in ports
        BY <3>2
      <4>2. q.num = pkt.dport
        BY <2>2, <3>2 DEF portMatch
      <4>3. QED
        BY <2>2, <4>1, <4>2
    <3>3. QED
      BY <3>1, <3>2
  <2>3. QED
    BY <1>2, <2>1, <2>2 DEF PortsFit
<1> HIDE DEF ports
<1>3. CASE rule.peers = {} /\ PortsFit(rule.ports)
  <2>1. [peers |-> {}, ports |-> ports] \in ProgrammedRules(rule)
    BY <1>1, <1>3
  <2>2. RuleAllows(Q, [peers |-> {}, ports |-> ports], addr)
    BY <1>2, <1>3 DEF RuleAllows
  <2>3. QED
    BY <2>1, <2>2
<1>4. ASSUME NEW peer \in rule.peers, peer.type = "ipBlock" \/ peer.pods # NoSelector
      PROVE  taken(peer) \in ProgrammedRules(rule)
  <2> HIDE DEF taken
  <2>1. QED
    BY <1>1, <1>4
<1>5. ASSUME NEW peer \in rule.peers, peer.type = "ipBlock", addr \in peer.cidr
      PROVE  \E r \in ProgrammedRules(rule) : RuleAllows(Q, r, addr)
  <2>1. addr \notin UNION peer.except
    BY <1>5 DEF RuleExcepts
  <2>2. PeerHas(Q, peer, addr)
    BY <1>5, <2>1 DEF PeerHas
  <2>3. RuleAllows(Q, [peers |-> {peer}, ports |-> {}], addr)
    BY <2>2 DEF RuleAllows
  <2>4. taken(peer) = [peers |-> {peer}, ports |-> {}]
    BY <1>5
  <2>5. QED
    BY <1>4, <1>5, <2>3, <2>4
<1>6. ASSUME NEW peer \in rule.peers, peer.type # "ipBlock", addr \in peerIPs(pol, peer), PortsFit(rule.ports)
      PROVE  \E r \in ProgrammedRules(rule) : RuleAllows(Q, r, addr)
  <2>1. peer.pods # NoSelector /\ peer.pods \subseteq Pods
    BY <1>6 DEF peerIPs
  <2>2. PICK p \in peer.pods : Namespace[p] \in peerNamespaces(pol, peer) /\ addr = PodIP[p]
    BY <1>6, <2>1 DEF peerIPs
  <2>3. /\ selector(peer).type = "selector" /\ selector(peer).pods = peer.pods
        /\ selector(peer).namespaces = IF peer.namespaces = {} THEN NoSelector ELSE peer.namespaces
    OBVIOUS
  <2>4. p \in podsAt(addr) /\ p \in selector(peer).pods
    BY <2>1, <2>2, <2>3 DEF podsAt
  <2>5. IF selector(peer).namespaces = NoSelector THEN Namespace[p] = Q.namespace
          ELSE Namespace[p] \in selector(peer).namespaces
    BY <2>2, <2>3 DEF peerNamespaces
  <2>6. taken(peer) = [peers |-> {selector(peer)}, ports |-> ports]
    BY <1>6
  <2> HIDE DEF selector
  <2>7. PeerHas(Q, selector(peer), addr)
    BY <2>3, <2>4, <2>5 DEF PeerHas
  <2>8. RuleAllows(Q, [peers |-> {selector(peer)}, ports |-> ports], addr)
    BY <1>2, <1>6, <2>7 DEF RuleAllows
  <2>9. QED
    BY <1>4, <1>6, <2>1, <2>6, <2>8
<1>7. QED
  BY <1>3, <1>5, <1>6 DEF RuleOpens

\* A rule of the API that allows the packet opens its way, if its selector peers have pod selectors.
LEMMA AllowsOpens ==
    ASSUME PacketOK, IsIP, NEW pol, NEW rule, NEW addr,
           \A peer \in rule.peers :
              \/ peer.type = "ipBlock"
              \/ peer.type = "selector" /\ peer.pods # NoSelector,
           \A q \in rule.ports : q.protocol \in {"tcp", "udp", "sctp"},
           RuleAllows(pol, rule, addr)
    PROVE  RuleOpens(pol, rule, addr)
<1>1. PortsFit(rule.ports)
  <2>1. ASSUME NEW q \in rule.ports, q.protocol = pkt.proto, q.num = pkt.dport
        PROVE  q.protocol \in {"tcp", "udp"} /\ pkt.dport \in portMatch(q.num)
    <3>1. q.protocol \in {"tcp", "udp"}
      BY <2>1 DEF IsIP, ip
    <3>2. pkt.dport # 0
      BY <2>1, <3>1, PipelineAssumption DEF PacketOK
    <3>3. QED
      BY <2>1, <3>1, <3>2 DEF portMatch
  <2>2. QED
    BY <2>1 DEF RuleAllows, PortsFit
<1>2. CASE rule.peers = {}
  BY <1>1, <1>2 DEF RuleOpens
<1>3. ASSUME NEW peer \in rule.peers, PeerHas(pol, peer, addr) PROVE RuleOpens(pol, rule, addr)
  <2>1. CASE peer.type = "ipBlock"
    BY <1>3, <2>1 DEF PeerHas, RuleOpens
  <2>2. CASE peer.type # "ipBlock"
    <3>1. peer.pods # NoSelector
      BY <2>2
    <3>2. PICK p \in podsAt(addr) :
             /\ p \in peer.pods
             /\ IF peer.namespaces = NoSelector THEN Namespace[p] = pol.namespace
                  ELSE Namespace[p] \in peer.namespaces
      BY <1>3, <2>2, <3>1 DEF PeerHas
    <3>3. Namespace[p] \in peerNamespaces(pol, peer) /\ PodIP[p] = addr
      BY <3>2 DEF peerNamespaces, podsAt
    <3>4. addr \in peerIPs(pol, peer)
      BY <3>1, <3>2, <3>3 DEF peerIPs
    <3>5. QED
      BY <1>1, <1>3, <2>2, <3>4 DEF RuleOpens
  <2>3. QED
    BY <2>1, <2>2
<1>4. QED
  BY <1>2, <1>3 DEF RuleAllows

\* Every policy is programmed, for both directions.
LEMMA ProgrammedAs ==
    ASSUME NEW pol \in policies
    PROVE  \E Q \in Programmed :
             /\ Q.namespace = pol.namespace
             /\ Selects(pol, pkt.dst) => Q \in InPolicies(Programmed)
             /\ Selects(pol, pkt.src) => Q \in OutPolicies(Programmed)
             /\ \A rule \in pol.ingress : ProgrammedRules(rule) \subseteq Q.ingress
             /\ \A rule \in pol.egress : ProgrammedRules(rule) \subseteq Q.egress
<1> DEFINE Q == [namespace   |-> pol.namespace,
                 podSelector |-> pol.podSelector,
                 types       |-> {"Ingress", "Egress"},
                 ingress     |-> UNION {ProgrammedRules(rule) : rule \in pol.ingress},
                 egress      |-> UNION {ProgrammedRules(rule) : rule \in pol.egress}]
<1>1. Q \in Programmed
  BY DEF Programmed
<1>2. /\ Q.namespace = pol.namespace /\ Q.podSelector = pol.podSelector /\ Q.types = {"Ingress", "Egress"}
      /\ Q.ingress = UNION {ProgrammedRules(rule) : rule \in pol.ingress}
      /\ Q.egress = UNION {ProgrammedRules(rule) : rule \in pol.egress}
  OBVIOUS
<1> HIDE DEF Q
<1>3. \A addr : Selects(Q, addr) <=> Selects(pol, addr)
  BY <1>2 DEF Selects
<1>4. /\ Selects(pol, pkt.dst) => Q \in InPolicies(Programmed)
      /\ Selects(pol, pkt.src) => Q \in OutPolicies(Programmed)
  BY <1>1, <1>2, <1>3 DEF InPolicies, OutPolicies
<1>5. QED
  BY <1>1, <1>2, <1>4

\* A bridge that admits the packet and has an isolated end of it found a rule for that end,
\* or, if it has both, for one of them.
LEMMA AdmitsAllowed ==
    ASSUME IInv, IsIP, NEW n, Admits(n), NEW pol \in policies,
           \/ pkt.dst \in PodCIDR[n] /\ Selects(pol, pkt.dst)
           \/ pkt.src \in PodCIDR[n] /\ Selects(pol, pkt.src)
    PROVE  \/ pkt.dst \in PodCIDR[n] /\ InAllowed(Programmed)
           \/ pkt.src \in PodCIDR[n] /\ OutAllowed(Programmed)
<1>1. PacketOK /\ \A q \in policies : WellFormed(q)
  BY DEF IInv, PacketSent
<1>2. Drops(n)
  BY <1>1, LocalSelects DEF Drops
<1>3. Opens(n) /\ ~Excepts(n)
  BY <1>2 DEF Admits
<1>4. PICK q \in policies :
        \/ pkt.dst \in localPodIPs(n, q) /\ \E rule \in q.ingress : RuleOpens(q, rule, pkt.src)
        \/ pkt.src \in localPodIPs(n, q) /\ \E rule \in q.egress : RuleOpens(q, rule, pkt.dst)
  BY <1>3 DEF Opens
<1>5. PICK Q \in Programmed :
             /\ Q.namespace = q.namespace
             /\ Selects(q, pkt.dst) => Q \in InPolicies(Programmed)
             /\ Selects(q, pkt.src) => Q \in OutPolicies(Programmed)
             /\ \A rule \in q.ingress : ProgrammedRules(rule) \subseteq Q.ingress
             /\ \A rule \in q.egress : ProgrammedRules(rule) \subseteq Q.egress
  BY ProgrammedAs
<1>6. \A rule \in q.ingress \cup q.egress : \A peer \in rule.peers :
         peer.type = "ipBlock" \/ peer.pods = NoSelector \/ peer.pods \subseteq Pods
  BY <1>1 DEF WellFormed
<1>7. ASSUME pkt.dst \in localPodIPs(n, q), NEW rule \in q.ingress, RuleOpens(q, rule, pkt.src)
      PROVE  pkt.dst \in PodCIDR[n] /\ InAllowed(Programmed)
  <2>1. ~RuleExcepts(rule, pkt.src)
    BY <1>3, <1>7 DEF Excepts
  <2>2. PICK r \in ProgrammedRules(rule) : RuleAllows(Q, r, pkt.src)
    BY <1>1, <1>5, <1>6, <1>7, <2>1, OpensProgrammed
  <2>3. pkt.dst \in PodCIDR[n] /\ Selects(q, pkt.dst)
    BY <1>1, <1>7, LocalSelects
  <2>4. QED
    BY <1>5, <2>2, <2>3 DEF InAllowed
<1>8. ASSUME pkt.src \in localPodIPs(n, q), NEW rule \in q.egress, RuleOpens(q, rule, pkt.dst)
      PROVE  pkt.src \in PodCIDR[n] /\ OutAllowed(Programmed)
  <2>1. ~RuleExcepts(rule, pkt.dst)
    BY <1>3, <1>8 DEF Excepts
  <2>2. PICK r \in ProgrammedRules(rule) : RuleAllows(Q, r, pkt.dst)
    BY <1>1, <1>5, <1>6, <1>8, <2>1, OpensProgrammed
  <2>3. pkt.src \in PodCIDR[n] /\ Selects(q, pkt.src)
    BY <1>1, <1>8, LocalSelects
  <2>4. QED
    BY <1>5, <2>2, <2>3 DEF OutAllowed
<1>9. QED
  BY <1>4, <1>7, <1>8

\* A pod that a programmed policy selects is selected by a policy.
LEMMA ProgrammedOf ==
    /\ InPolicies(Programmed) # {} => \E pol \in policies : Selects(pol, pkt.dst)
    /\ OutPolicies(Programmed) # {} => \E pol \in policies : Selects(pol, pkt.src)
<1>1. ASSUME NEW Q \in Programmed
      PROVE  \E pol \in policies : Q.namespace = pol.namespace /\ Q.podSelector = pol.podSelector
  BY DEF Programmed
<1>2. ASSUME NEW Q \in Programmed, NEW addr, Selects(Q, addr)
      PROVE  \E pol \in policies : Selects(pol, addr)
  BY <1>1, <1>2 DEF Selects
<1>3. QED
  BY <1>2 DEF InPolicies, OutPolicies

\* What plain policies allow and no ipBlock excludes, every bridge admits.
LEMMA AllowedAdmits ==
    ASSUME IInv, IsIP, Allowed(policies), ~Excepted, Plain, NEW n
    PROVE  Admits(n)
<1>1. PacketOK /\ \A q \in policies : WellFormed(q)
  BY DEF IInv, PacketSent
<1>2. ASSUME NEW pol \in policies
      PROVE  /\ pkt.dst \in localPodIPs(n, pol) <=> pkt.dst \in PodCIDR[n] /\ pol \in InPolicies(policies)
             /\ pkt.src \in localPodIPs(n, pol) <=> pkt.src \in PodCIDR[n] /\ pol \in OutPolicies(policies)
  <2>1. "Ingress" \in pol.types /\ "Egress" \in pol.types
    BY DEF Plain
  <2>2. QED
    BY <1>1, <2>1, LocalSelects DEF InPolicies, OutPolicies
<1>3. ~Excepts(n)
  <2>1. ASSUME NEW pol \in policies, pkt.dst \in localPodIPs(n, pol),
               NEW rule \in pol.ingress, RuleExcepts(rule, pkt.src)
        PROVE  Excepted
    BY <1>2, <2>1 DEF RuleExcepts, Excepted
  <2>2. ASSUME NEW pol \in policies, pkt.src \in localPodIPs(n, pol),
               NEW rule \in pol.egress, RuleExcepts(rule, pkt.dst)
        PROVE  Excepted
    BY <1>2, <2>2 DEF RuleExcepts, Excepted
  <2>3. QED
    BY <2>1, <2>2 DEF Excepts
<1>4. ASSUME NEW pol \in policies, NEW rule \in pol.ingress \cup pol.egress, NEW addr, RuleAllows(pol, rule, addr)
      PROVE  RuleOpens(pol, rule, addr)
  <2>1. /\ \A peer \in rule.peers : \/ peer.type = "ipBlock"
                                    \/ peer.type = "selector" /\ peer.pods # NoSelector
        /\ \A q \in rule.ports : q.protocol \in {"tcp", "udp", "sctp"}
    BY <1>1, <1>4 DEF Plain, WellFormed
  <2>2. QED
    BY <1>1, <1>4, <2>1, AllowsOpens
<1>5. ASSUME NEW pol \in policies, pkt.dst \in localPodIPs(n, pol) PROVE Opens(n)
  <2>1. InAllowed(policies)
    BY <1>2, <1>5 DEF Allowed
  <2>2. PICK q \in InPolicies(policies) : \E rule \in q.ingress : RuleAllows(q, rule, pkt.src)
    BY <2>1 DEF InAllowed
  <2>3. q \in policies /\ pkt.dst \in localPodIPs(n, q)
    BY <1>2, <1>5, <2>2 DEF InPolicies
  <2>4. \E rule \in q.ingress : RuleOpens(q, rule, pkt.src)
    BY <1>4, <2>2, <2>3
  <2>5. QED
    BY <2>3, <2>4 DEF Opens
<1>6. ASSUME NEW pol \in policies, pkt.src \in localPodIPs(n, pol) PROVE Opens(n)
  <2>1. OutAllowed(policies)
    BY <1>2, <1>6 DEF Allowed
  <2>2. PICK q \in OutPolicies(policies) : \E rule \in q.egress : RuleAllows(q, rule, pkt.dst)
    BY <2>1 DEF OutAllowed
  <2>3. q \in policies /\ pkt.src \in localPodIPs(n, q)
    BY <1>2, <1>6, <2>2 DEF OutPolicies
  <2>4. \E rule \in q.egress : RuleOpens(q, rule, pkt.dst)
    BY <1>4, <2>2, <2>3
  <2>5. QED
    BY <2>3, <2>4 DEF Opens
<1>7. QED
  BY <1>3, <1>5, <1>6 DEF Admits, Drops

-----------------------------------------------------------------------------
(* The properties *)

\* The packet's bridges, from the invariant.
LEMMA SourceNode ==
    ASSUME IInv
    PROVE  \E from \in Nodes : /\ pkt.src \in PodCIDR[from] /\ nodeOf(pkt.src) = from
                               /\ hops = 0 => node = from
                               /\ hops = 1 => node # from /\ Admits(from)
<1>1. CASE hops = 0
  BY <1>1, NodeOf DEF IInv, Where
<1>2. CASE hops = 1
  <2>1. PICK n \in Admitting \ {node} : pkt.src \in PodCIDR[n]
    BY <1>2 DEF IInv, Where
  <2>2. n \in Nodes /\ Admits(n)
    BY <2>1 DEF Admitting
  <2>3. QED
    BY <1>2, <2>1, <2>2, NodeOf
<1>3. QED
  BY <1>1, <1>2 DEF IInv, Where

\* A packet for a pod that its bridges admit, by a way that its sender's node knows, gets there.
LEMMA ReachableEnds ==
    ASSUME IInv, IsIP, Ended, NEW from \in Nodes, NEW to \in Nodes,
           Admits(from), Admits(to), pkt.dst \in PodIPs,
           pkt.src \in PodCIDR[from], pkt.dst \in PodCIDR[to],
           from = to \/ Claims(from, pkt.dst) = {to}
    PROVE  outcome = Destination
<1>1. Reachable
  BY DEF Reachable, Admitting
<1>2. pkt.proto # "arp"
  BY DEF IsIP, ip
<1>3. \E p \in Pods : outcome = [type |-> "pod", pod |-> p] /\ PodIP[p] = pkt.dst
  BY <1>1, <1>2 DEF IInv, EndOK, Ended
<1>4. QED
  BY <1>3, PodOf

\* Every packet without policies ends where it belongs once the configs are known everywhere,
\* for any number of nodes and pods (flows.go:114-272).
THEOREM RoutedCorrect == Spec => []Routed
<1>1. IInv => Routed
  <2>1. SUFFICES ASSUME IInv, Ended, IsIP, policies = {}, AllKnown PROVE outcome = Destination /\ hops <= 1
    BY DEF Routed, AllKnown
  <2>2. outcome = Destination
    BY <2>1 DEF IInv, EndOK, Ended
  <2>3. hops <= 1
    BY <2>1 DEF IInv, Where
  <2>4. QED
    BY <2>2, <2>3
<1>2. QED
  BY <1>1, WayCorrect, PTL

\* A packet for a pod is handed to no one else, whatever the nodes know of each other
\* (flows.go:174-272).
THEOREM NeverMisdeliveredCorrect == Spec => []NeverMisdelivered
<1>1. IInv => NeverMisdelivered
  <2>1. SUFFICES ASSUME IInv, Ended, IsIP, pkt.dst \in PodIPs
                 PROVE  outcome \in {Destination, [type |-> "dropped"]} /\ hops <= 1
    BY DEF NeverMisdelivered
  <2>2. pkt.proto # "arp"
    BY <2>1 DEF IsIP, ip
  <2>3. \/ outcome = [type |-> "dropped"]
        \/ \E p \in Pods : outcome = [type |-> "pod", pod |-> p] /\ PodIP[p] = pkt.dst
    BY <2>1, <2>2 DEF IInv, EndOK, Ended
  <2>4. hops <= 1
    BY <2>1 DEF IInv, Where
  <2>5. QED
    BY <2>3, <2>4, PodOf
<1>2. QED
  BY <1>1, WayCorrect, PTL

\* What the receiver's node knows makes no difference to a packet between pods
\* (flows.go:122-146, 174-272).
THEOREM SenderViewSufficesCorrect == Spec => []SenderViewSuffices
<1>1. IInv => SenderViewSuffices
  <2>1. SUFFICES ASSUME IInv, Ended, IsIP, policies = {}, pkt.dst \in PodIPs,
                        \/ nodeOf(pkt.src) = nodeOf(pkt.dst)
                        \/ Claims(nodeOf(pkt.src), pkt.dst) = {nodeOf(pkt.dst)}
                 PROVE  outcome = Destination
    BY DEF SenderViewSuffices
  <2>2. PICK from \in Nodes : pkt.src \in PodCIDR[from] /\ nodeOf(pkt.src) = from
    BY <2>1, SourceNode
  <2>3. PICK to \in Nodes : pkt.dst \in PodCIDR[to]
    BY <2>1, PodAddr
  <2>4. nodeOf(pkt.dst) = to
    BY <2>3, NodeOf
  <2>5. Admits(from) /\ Admits(to)
    BY <2>1 DEF Admits, Excepts, Drops
  <2>6. QED
    BY <2>1, <2>2, <2>3, <2>4, <2>5, ReachableEnds
<1>2. QED
  BY <1>1, WayCorrect, PTL

\* Every ARP request for an address of the cluster is answered on the sender's bridge,
\* whatever the policies say (flows.go:150-165, 265-269).
THEOREM ArpAnsweredCorrect == Spec => []ArpAnswered
<1>1. IInv => ArpAnswered
  <2>1. SUFFICES ASSUME IInv, Ended, pkt.proto = "arp" PROVE outcome.type = "answered" /\ hops = 0
    BY DEF ArpAnswered
  <2>2. ~IsIP
    BY <2>1 DEF IsIP, ip
  <2>3. QED
    BY <2>1, <2>2 DEF IInv, EndOK, Where, Ended
<1>2. QED
  BY <1>1, WayCorrect, PTL

\* Between nodes, what reaches a pod is what the policies of both ends allow, as the flows
\* take them, and what plain policies allow reaches it, for any policies (flows.go:288-677).
THEOREM PolicyEnforcedCorrect == Spec => []PolicyEnforced
<1>1. IInv => PolicyEnforced
  <2>1. SUFFICES ASSUME IInv, Ended, IsIP, pkt.dst \in PodIPs, nodeOf(pkt.src) # nodeOf(pkt.dst)
                 PROVE  /\ outcome = Destination => Allowed(Programmed)
                        /\ Allowed(policies) /\ ~Excepted /\ Plain /\ AllKnown => outcome = Destination
    BY DEF PolicyEnforced, AllKnown
  <2>2. PICK from \in Nodes : /\ pkt.src \in PodCIDR[from] /\ nodeOf(pkt.src) = from
                              /\ hops = 0 => node = from
                              /\ hops = 1 => node # from /\ Admits(from)
    BY <2>1, SourceNode
  <2>3. PICK to \in Nodes : pkt.dst \in PodCIDR[to]
    BY <2>1, PodAddr
  <2>4. nodeOf(pkt.dst) = to /\ from # to
    BY <2>1, <2>2, <2>3, NodeOf
  <2>5. pkt.dst \notin PodCIDR[from] /\ pkt.src \notin PodCIDR[to]
    BY <2>2, <2>4, NodeOf
  <2>6. ASSUME outcome = Destination PROVE Allowed(Programmed)
    <3>1. PICK p \in Pods : PodIP[p] = pkt.dst
      BY <2>1 DEF PodIPs
    <3>2. outcome = [type |-> "pod", pod |-> p]
      BY <2>6, <3>1, PodOf
    <3>3. node \in Nodes /\ Admits(node) /\ pkt.dst \in PodCIDR[node] /\ hops \in {0, 1}
      BY <2>1, <3>2 DEF IInv, EndOK, Where, Admitting
    <3>4. node = to
      BY <2>4, <3>3, NodeOf
    <3>5. Admits(from) /\ Admits(to)
      BY <2>2, <2>4, <3>3, <3>4
    <3>6. InPolicies(Programmed) = {} \/ InAllowed(Programmed)
      BY <2>1, <2>3, <2>5, <3>5, AdmitsAllowed, ProgrammedOf
    <3>7. OutPolicies(Programmed) = {} \/ OutAllowed(Programmed)
      BY <2>1, <2>2, <2>5, <3>5, AdmitsAllowed, ProgrammedOf
    <3>8. QED
      BY <3>6, <3>7 DEF Allowed
  <2>7. ASSUME Allowed(policies), ~Excepted, Plain, AllKnown PROVE outcome = Destination
    <3>1. Admits(from) /\ Admits(to)
      BY <2>1, <2>7, AllowedAdmits
    <3>2. \A c \in Nodes : pkt.dst \in PodCIDR[c] <=> c = to
      BY <2>3, <2>4, NodeOf
    <3>3. Claims(from, pkt.dst) = {to}
      BY <2>4, <2>7, <3>2 DEF Claims, AllKnown
    <3>4. QED
      BY <2>1, <2>2, <2>3, <3>1, <3>3, ReachableEnds
  <2>8. QED
    BY <2>6, <2>7
<1>2. QED
  BY <1>1, WayCorrect, PTL

\* No packet of an isolated pod reaches a pod without a rule for it (flows.go:333-677).
THEOREM NoOpenDoorCorrect == Spec => []NoOpenDoor
<1>1. IInv => NoOpenDoor
  <2>1. SUFFICES ASSUME IInv, outcome.type = "pod", InPolicies(policies) \cup OutPolicies(policies) # {}
                 PROVE  InAllowed(Programmed) \/ OutAllowed(Programmed)
    BY DEF NoOpenDoor
  <2>2. IsIP /\ node \in Nodes /\ Admits(node) /\ pkt.dst \in PodCIDR[node] /\ hops \in {0, 1}
    BY <2>1 DEF IInv, EndOK, Where, Admitting
  <2>3. PICK from \in Nodes : /\ pkt.src \in PodCIDR[from]
                              /\ hops = 0 => node = from
                              /\ hops = 1 => Admits(from)
    BY <2>1, SourceNode
  <2>4. Admits(from)
    BY <2>2, <2>3
  <2>5. PICK pol \in policies : Selects(pol, pkt.dst) \/ Selects(pol, pkt.src)
    BY <2>1 DEF InPolicies, OutPolicies
  <2>6. CASE Selects(pol, pkt.dst)
    BY <2>1, <2>2, <2>5, <2>6, AdmitsAllowed
  <2>7. CASE Selects(pol, pkt.src)
    BY <2>1, <2>2, <2>3, <2>4, <2>5, <2>7, AdmitsAllowed
  <2>8. QED
    BY <2>5, <2>6, <2>7
<1>2. QED
  BY <1>1, WayCorrect, PTL

-----------------------------------------------------------------------------
(* Every way ends *)

\* Tables are only left for later ones.
LEMMA ResubmitsOnward ==
    ASSUME NEW n, NEW f \in syncFlows(n), f.action.type = "resubmit"
    PROVE  f.action.table \in 0..tableLocalARP /\ f.table < f.action.table
<1> USE DEF tableEntry, tableNetworkPolicies, tableClassification, tableL3Forwarding, tableL2Rewrites, tableLocalARP
<1>1. CASE f \in defaultFlows(n)
  BY <1>1, DefaultFlow DEF classificationFlows, arpFlows, Flow, Resubmit, ArpReply, Local
<1>2. ASSUME NEW m \in view[n], f \in flowsForVSwitch(n, m)
      PROVE  f.action.table \in 0..100 /\ f.table < f.action.table
  <2>1. CASE f.table = tableClassification
    BY <1>2, <2>1, ClassificationFlowIs DEF Flow, Resubmit, Local, ClusterWide
  <2>2. CASE f.table = tableL3Forwarding
    BY <1>2, <2>2, L3FlowIs DEF Flow, Resubmit, Tunnel
  <2>3. QED
    BY <1>2, <2>1, <2>2, VSwitchFlow
<1>3. ~ \E p \in Pods : f \in flowsForPod(n, p)
  BY PodFlow DEF Flow, Output, ArpReply
<1>4. CASE \E pol \in policies : f \in flowsForNetworkPolicy(n, pol)
  BY <1>4, PolicyFlow DEF Resubmit, Drop
<1>5. QED
  BY <1>1, <1>2, <1>3, <1>4, SyncFlows

\* Every lookup shortens what is left of a packet's way (flows.go:37-48, 143, 188): no flows
\* that policies and VSwitchConfigs make, of the nodes that are gone too, send a packet
\* round.  With the fairness of Next this is why every way ends.
THEOREM WayShortensCorrect == Spec => WayShortens
<1>1. ASSUME IInv, Next PROVE WayLeft' < WayLeft
  <2>1. tbl \in 0..tableLocalARP /\ outcome.type = "moving"
    BY <1>1 DEF IInv, InTable, Next, Lookup, tableEntry, tableNetworkPolicies, tableClassification,
       tableL3Forwarding, tableL2Rewrites, tableLocalARP
  <2>2. ASSUME NEW o, End(o), o.type # "moving" PROVE WayLeft' < WayLeft
    BY <2>1, <2>2 DEF End, WayLeft, Ended, tableLocalARP
  <2>3. ASSUME NEW f \in syncFlows(node), Matches(f), Apply(f) PROVE WayLeft' < WayLeft
    <3>1. CASE f.action.type = "resubmit" /\ tbl' = f.action.table /\ UNCHANGED <<port, outcome>>
      <4>1. tbl < tbl' /\ tbl' \in 0..tableLocalARP
        BY <2>3, <3>1, ResubmitsOnward DEF Matches
      <4>2. QED
        BY <2>1, <3>1, <4>1 DEF WayLeft, Ended, tableLocalARP
    <3>2. CASE /\ port.type # "overlay" /\ port' = [type |-> "overlay"] /\ tbl' = tableEntry
               /\ UNCHANGED outcome
      BY <2>1, <3>2 DEF WayLeft, Ended, tableLocalARP, tableEntry
    <3>3. CASE \E o : End(o) /\ o.type # "moving"
      BY <2>2, <3>3
    <3>4. \/ f.action.type = "resubmit" /\ tbl' = f.action.table /\ UNCHANGED <<port, outcome>>
          \/ /\ port.type # "overlay" /\ port' = [type |-> "overlay"] /\ tbl' = tableEntry
             /\ UNCHANGED outcome
          \/ End([type |-> "dropped"]) \/ End([type |-> "pod", pod |-> f.action.pod])
          \/ End([type |-> "host", node |-> node]) \/ End([type |-> "answered"])
      BY <2>3 DEF Apply
    <3>5. QED
      BY <3>1, <3>2, <3>3, <3>4
  <2>4. CASE End([type |-> "dropped"])
    BY <2>2, <2>4
  <2>5. QED
    BY <1>1, <2>3, <2>4, LookupApplies DEF Next
<1>2. QED
  BY <1>1, WayCorrect, PTL DEF Spec, WayShortens
=============================================================================
