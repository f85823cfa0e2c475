----------------------------- MODULE MCPipeline -----------------------------
(* Two nodes, two pods on the first and one on the second, and the VSwitchConfig of a third *)
(* node that is gone and had the second one's pod CIDR, for TLC.                            *)
EXTENDS Pipeline

CONSTANTS A, B,                   \* the nodes
          C,                      \* the config without a node
          ga, a1, a2, a3, gb, b1, \* their pod CIDRs' addresses; a3 is free
          oa, ob, oc,             \* their overlay addresses
          pa1, pa2, pb1           \* the pods

MCPodCIDR   == [c \in Configs |-> IF c = A THEN {ga, a1, a2, a3} ELSE {gb, b1}]
MCGateway   == [n \in Nodes |-> IF n = A THEN ga ELSE gb]
MCOverlayIP == [c \in Configs |-> IF c = A THEN oa ELSE IF c = B THEN ob ELSE oc]
MCPodIP     == [p \in Pods |-> IF p = pa1 THEN a1 ELSE IF p = pa2 THEN a2 ELSE b1]
MCNamespace == [p \in Pods |-> IF p = pb1 THEN "back" ELSE "front"]

Selector(namespaces, pods) == [type |-> "selector", namespaces |-> namespaces, pods |-> pods]
Rule(peers, ports) == [peers |-> peers, ports |-> ports]
Policy(ns, sel, types, ingress, egress) ==
    [namespace |-> ns, podSelector |-> sel, types |-> types, ingress |-> ingress, egress |-> egress]

Both == {"Ingress", "Egress"}
Web  == {[protocol |-> "tcp", num |-> 80]}

\* The web port of pa1 is open to the pods of the other namespace.
WebFromBack == Policy("front", {pa1}, Both, {Rule({Selector({"back"}, {pb1})}, Web)}, {})

\* pa1 and pa2 are open to the other node, but not to its host, and may not send.
BlockOfB == Policy("front", {pa1, pa2}, Both,
    {Rule({[type |-> "ipBlock", cidr |-> {gb, b1}, except |-> {{gb}}]}, {})}, {})

\* pb1 receives from everyone and sends only to the pods of the other namespace.
BackToFront == Policy("back", {pb1}, Both, {Rule({}, {})}, {Rule({Selector({"front"}, {pa1, pa2})}, {})})

\* pa2 sends udp to everyone and to pa1 of its own namespace anything.
Sender == Policy("front", {pa2}, Both, {},
    {Rule({}, {[protocol |-> "udp", num |-> 80]}), Rule({Selector(NoSelector, {pa1})}, {})})

\* pa2 receives from pa1 only, and nothing is said of what it sends.
IngressOnly == Policy("front", {pa2}, {"Ingress"}, {Rule({Selector(NoSelector, {pa1})}, {})}, {})

\* A named tcp port of pa1 is open to the other namespace, and pa2 to the pods of namespaces
\* that do not exist.
NamedPort   == Policy("front", {pa1}, Both,
    {Rule({Selector({"back"}, {pb1})}, {[protocol |-> "tcp", num |-> 0]})}, {})
NoNamespace == Policy("front", {pa2}, Both, {Rule({Selector({}, Pods)}, {})}, {})

\* pa1 is open to the other node but for pb1, and on the web port only.
WebOfB      == Policy("front", {pa1}, Both,
    {Rule({[type |-> "ipBlock", cidr |-> {gb, b1}, except |-> {{b1}}]}, Web)}, {})

\* pa1 may send to all pods of a namespace, by a peer without a pod selector; its type leaves out
\* what is said of receiving.
EgressOnly  == Policy("front", {pa1}, {"Egress"}, {Rule({Selector(NoSelector, {pa2})}, {})},
    {Rule({Selector({"back"}, NoSelector)}, {})})

Complete == [n \in Nodes |-> Nodes]

\* What a node's cache holds at some time: nothing yet, a part, all, and the stale config with
\* or instead of the one of the node that took its pod CIDR over.
Partial == [Nodes -> {{}, {B}, Nodes, {A, C}, Configs}]

MCScenarios ==
    [policies : SUBSET {WebFromBack, BlockOfB, BackToFront, Sender, IngressOnly}, view : {Complete}]
    \cup [policies : {{NamedPort}, {NamedPort, NoNamespace}, {NoNamespace, BackToFront},
                      {WebOfB}, {WebOfB, WebFromBack}, {EgressOnly}, {EgressOnly, BackToFront}},
        view : {Complete}]
    \cup [policies : {{}, {WebFromBack, BackToFront}}, view : Partial]

\* Nothing may reach pa1, and pa2 may send to it.
MCEgressOnly == {[policies |-> {WebFromBack, Sender}, view |-> Complete]}
=============================================================================
