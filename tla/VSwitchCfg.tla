----------------------------- MODULE VSwitchCfg -----------------------------
(***************************************************************************)
(* k-vswitch-controller: the controller that keeps one VSwitchConfig per   *)
(* node (controllers/vswitchcfg, cmd/k-vswitch-controller).                *)
(*                                                                         *)
(* Node events reach its handlers one at a time.  The handlers compare the *)
(* node with the VSwitchConfig in the informer's cache, which lags behind  *)
(* the API server, and write to the API server.  A failed request is       *)
(* logged and forgotten; the next event of the node is the only retry.     *)
(*                                                                         *)
(* The API server, the informers and the kubelet's node status updates are *)
(* external.  A node's events are in order; those of different nodes may   *)
(* overtake each other here, which the handlers cannot tell.               *)
(***************************************************************************)
EXTENDS Naturals, Sequences

CONSTANTS
    Nodes,         \* names of nodes and of their VSwitchConfigs
    NodeSpecs,     \* the contents a node may have: [internalIP, externalIP, podCIDR]
    Flags,         \* the controller's flags: [overlayType, clusterCIDR, serviceCIDR]
    None,          \* no object, an empty string
    FaultKinds,    \* what may fail: "request", "watch" (it is lost), "restart"
    MaxChanges,    \* bound: changes of nodes
    MaxFaults      \* bound: faults of these kinds together

ASSUME VSwitchCfgAssumption ==
    /\ None \notin NodeSpecs
    /\ MaxChanges \in Nat /\ MaxFaults \in Nat

VARIABLES
    nodes,         \* per name: the node in the API server
    cfgs,          \* per name: the VSwitchConfig in the API server
    version,       \* the API server's last resourceVersion
    events,        \* per name: node events not yet handled
    watch,         \* per name: VSwitchConfigs not yet in the cache
    cache,         \* per name: the VSwitchConfig in the informer's cache
    flags,         \* the running controller's flags
    pc,            \* the handler: "idle", "sync" (in syncVSwitchConfig) or "crashed"
    cur,           \* the event in the handler
    changes, faults

apiVars == <<nodes, cfgs, version>>
infVars == <<events, watch, cache>>
vars    == <<apiVars, infVars, flags, pc, cur, changes, faults>>

-----------------------------------------------------------------------------
(* What a node's VSwitchConfig should be *)

\* None stands for the error.
nodeOverlayIP(node) == IF node.internalIP # None THEN node.internalIP ELSE node.externalIP

nodePodCIDR(node) == node.podCIDR

\* Mutant: a node without a pod CIDR gets its config too.
Valid_NoCIDR(node) == nodeOverlayIP(node) # None

Valid(node) == nodeOverlayIP(node) # None /\ nodePodCIDR(node) # None

nodeToVSwitchConfig(node) ==
    [overlayIP   |-> nodeOverlayIP(node),
     overlayType |-> flags.overlayType,
     podCIDR     |-> nodePodCIDR(node),
     clusterCIDR |-> flags.clusterCIDR,
     serviceCIDR |-> flags.serviceCIDR]

\* Mutant: a new overlay address is not noticed.
Changed_NotIP(spec, node) ==
    \/ spec.overlayType # flags.overlayType
    \/ spec.podCIDR # nodePodCIDR(node)
    \/ spec.clusterCIDR # flags.clusterCIDR

\* The service CIDR is not compared.
Changed(spec, node) ==
    \/ spec.overlayIP # nodeOverlayIP(node)
    \/ spec.overlayType # flags.overlayType
    \/ spec.podCIDR # nodePodCIDR(node)
    \/ spec.clusterCIDR # flags.clusterCIDR

needsUpdate(n, node) ==
    \/ cache[n] = None
    \/ cache[n] # None /\ Valid(node) /\ Changed(cache[n].spec, node)

-----------------------------------------------------------------------------
\* The cluster has no nodes yet, and the controller has just started.
Init ==
    /\ nodes = [n \in Nodes |-> None]
    /\ cfgs = [n \in Nodes |-> None]
    /\ version = 0
    /\ events = [n \in Nodes |-> <<>>]
    /\ watch = [n \in Nodes |-> <<>>]
    /\ cache = [n \in Nodes |-> None]
    /\ flags \in Flags
    /\ pc = "idle" /\ cur = None
    /\ changes = 0 /\ faults = 0

Fault(kind) ==
    /\ kind \in FaultKinds
    /\ faults < MaxFaults /\ faults' = faults + 1

Notify(n, type, node) ==
    events' = [events EXCEPT ![n] = Append(@, [type |-> type, name |-> n, node |-> node])]

(* The cluster *)

AddNode(n, node) ==
    /\ changes < MaxChanges /\ changes' = changes + 1
    /\ nodes[n] = None
    /\ nodes' = [nodes EXCEPT ![n] = node]
    /\ Notify(n, "add", node)
    /\ UNCHANGED <<cfgs, version, watch, cache, flags, pc, cur, faults>>

\* The API server lets a node's pod CIDR be set once.
UpdateNode(n, node) ==
    /\ changes < MaxChanges /\ changes' = changes + 1
    /\ nodes[n] # None /\ nodes[n] # node
    /\ nodes[n].podCIDR \in {None, node.podCIDR}
    /\ nodes' = [nodes EXCEPT ![n] = node]
    /\ Notify(n, "update", node)
    /\ UNCHANGED <<cfgs, version, watch, cache, flags, pc, cur, faults>>

\* A deletion that the informer learns of by listing again, after it lost its watch, is
\* notified with a tombstone in the node's place.
RemoveNode(n) ==
    /\ changes < MaxChanges /\ changes' = changes + 1
    /\ nodes[n] # None
    /\ nodes' = [nodes EXCEPT ![n] = None]
    /\ \/ Notify(n, "delete", nodes[n]) /\ UNCHANGED faults
       \/ Notify(n, "tombstone", None) /\ Fault("watch")
    /\ UNCHANGED <<cfgs, version, watch, cache, flags, pc, cur>>

\* The kubelet writes its node's status.  Bound: not while an event of the node is queued.
Heartbeat(n) ==
    /\ nodes[n] # None /\ events[n] = <<>> /\ pc # "crashed"
    /\ Notify(n, "update", nodes[n])
    /\ UNCHANGED <<apiVars, watch, cache, flags, pc, cur, changes, faults>>

\* The informer's cache learns of the next change of a VSwitchConfig.
DeliverConfig(n) ==
    /\ watch[n] # <<>>
    /\ cache' = [cache EXCEPT ![n] = Head(watch[n])]
    /\ watch' = [watch EXCEPT ![n] = Tail(@)]
    /\ UNCHANGED <<apiVars, events, flags, pc, cur, changes, faults>>

(* The handlers *)

\* The API server stores a VSwitchConfig, or deletes it.
Write(n, spec) ==
    LET obj == IF spec = None THEN None ELSE [version |-> version + 1, spec |-> spec]
    IN  /\ version' = version + 1
        /\ cfgs' = [cfgs EXCEPT ![n] = obj]
        /\ watch' = [watch EXCEPT ![n] = Append(@, obj)]

\* The API server takes a Create if it has no config of this name, an Update if the
\* config it has is of the version sent; else AlreadyExists, NotFound or Conflict.
Accepted(n) == cfgs[n] = cache[n]

Take(n) ==
    /\ pc = "idle" /\ events[n] # <<>>
    /\ events' = [events EXCEPT ![n] = Tail(@)]

\* Mutant: every event is handled as an update.
OnAddOrUpdate_AnyEvent(n) ==
    /\ Take(n)
    /\ IF needsUpdate(n, Head(events[n]).node)
         THEN pc' = "sync" /\ cur' = Head(events[n])
         ELSE UNCHANGED <<pc, cur>>
    /\ UNCHANGED <<apiVars, watch, cache, flags, changes, faults>>

\* OnAdd and OnUpdate, up to the call of syncVSwitchConfig.
OnAddOrUpdate(n) ==
    /\ Take(n)
    /\ Head(events[n]).type \in {"add", "update"}
    /\ IF needsUpdate(n, Head(events[n]).node)
         THEN pc' = "sync" /\ cur' = Head(events[n])
         ELSE UNCHANGED <<pc, cur>>
    /\ UNCHANGED <<apiVars, watch, cache, flags, changes, faults>>

\* Mutant: a config that is not in the cache is not deleted.
OnDelete_FromCache(n) ==
    /\ Take(n)
    /\ Head(events[n]).type = "delete"
    /\ \/ cfgs[n] # None /\ cache[n] # None /\ Write(n, None) /\ UNCHANGED faults
       \/ (cfgs[n] = None \/ cache[n] = None) /\ UNCHANGED <<cfgs, version, watch, faults>>
       \/ cfgs[n] # None /\ Fault("request") /\ UNCHANGED <<cfgs, version, watch>>
    /\ UNCHANGED <<nodes, cache, flags, pc, cur, changes>>

OnDelete(n) ==
    /\ Take(n)
    /\ Head(events[n]).type = "delete"
    /\ \/ cfgs[n] # None /\ Write(n, None) /\ UNCHANGED faults
       \/ cfgs[n] = None /\ UNCHANGED <<cfgs, version, watch, faults>>
       \/ cfgs[n] # None /\ Fault("request") /\ UNCHANGED <<cfgs, version, watch>>
    /\ UNCHANGED <<nodes, cache, flags, pc, cur, changes>>

\* OnDelete of a tombstone logs that it is no node and goes on to read its name.
OnDeleteTombstone(n) ==
    /\ Take(n)
    /\ Head(events[n]).type = "tombstone"
    /\ pc' = "crashed"
    /\ UNCHANGED <<apiVars, watch, cache, flags, cur, changes, faults>>

\* syncVSwitchConfig.  The cache may have moved on since needsUpdate; what it holds is
\* what Update sends, its resourceVersion included.
syncVSwitchConfig ==
    LET n == cur.name
    IN  /\ pc = "sync"
        /\ pc' = "idle" /\ cur' = None
        /\ \/ ~Valid(cur.node) /\ UNCHANGED <<cfgs, version, watch, faults>>
           \/ /\ Valid(cur.node) /\ Accepted(n)
              /\ Write(n, nodeToVSwitchConfig(cur.node))
              /\ UNCHANGED faults
           \/ /\ Valid(cur.node) /\ ~Accepted(n)
              /\ UNCHANGED <<cfgs, version, watch, faults>>
           \/ Valid(cur.node) /\ Fault("request") /\ UNCHANGED <<cfgs, version, watch>>
        /\ UNCHANGED <<nodes, events, cache, flags, changes>>

\* The process ends, by a panic or for new flags, and is started again.  It starts its
\* informers and does not wait for their caches: node events may come first.
Restart ==
    /\ IF pc = "crashed" THEN UNCHANGED <<faults, flags>> ELSE Fault("restart") /\ flags' \in Flags
    /\ pc' = "idle" /\ cur' = None
    /\ cache' = [n \in Nodes |-> None]
    /\ watch' = [n \in Nodes |-> IF cfgs[n] = None THEN <<>> ELSE <<cfgs[n]>>]
    /\ events' = [n \in Nodes |->
          IF nodes[n] = None THEN <<>> ELSE <<[type |-> "add", name |-> n, node |-> nodes[n]]>>]
    /\ UNCHANGED <<apiVars, changes>>

Next ==
    \/ \E n \in Nodes :
         \/ \E node \in NodeSpecs : AddNode(n, node) \/ UpdateNode(n, node)
         \/ RemoveNode(n) \/ Heartbeat(n) \/ DeliverConfig(n)
         \/ OnAddOrUpdate(n) \/ OnDelete(n) \/ OnDeleteTombstone(n)
    \/ syncVSwitchConfig
    \/ Restart

Spec == Init /\ [][Next]_vars

\* Kubelets keep writing node statuses, watches and the handler's goroutine go on, a
\* node's event is not overtaken for ever, and a crashed container is started again.
Fairness ==
    /\ \A n \in Nodes :
         /\ WF_vars(Heartbeat(n)) /\ WF_vars(DeliverConfig(n))
         /\ SF_vars(OnAddOrUpdate(n)) /\ SF_vars(OnDelete(n)) /\ SF_vars(OnDeleteTombstone(n))
    /\ WF_vars(syncVSwitchConfig)
    /\ WF_vars(pc = "crashed" /\ Restart)

FairSpec == Spec /\ Fairness

-----------------------------------------------------------------------------
(* Properties *)

Strings == {None} \cup (UNION {{s.internalIP, s.externalIP, s.podCIDR} : s \in NodeSpecs})
                  \cup (UNION {{f.overlayType, f.clusterCIDR, f.serviceCIDR} : f \in Flags})

ConfigSpec == [overlayIP : Strings, overlayType : Strings, podCIDR : Strings,
               clusterCIDR : Strings, serviceCIDR : Strings]
Config     == [version : Nat, spec : ConfigSpec] \cup {None}
Event      == [type : {"add", "update", "delete", "tombstone"}, name : Nodes,
               node : NodeSpecs \cup {None}]

\* Every variable has its type, and a handler that syncs holds a node and no tombstone.
TypeOK ==
    /\ nodes \in [Nodes -> NodeSpecs \cup {None}] /\ cfgs \in [Nodes -> Config]
    /\ version \in Nat
    /\ events \in [Nodes -> Seq(Event)] /\ watch \in [Nodes -> Seq(Config)]
    /\ cache \in [Nodes -> Config]
    /\ flags \in Flags
    /\ pc \in {"idle", "sync", "crashed"}
    /\ pc = "sync" => cur \in Event /\ cur.node # None
    /\ changes \in 0..MaxChanges /\ faults \in 0..MaxFaults

\* Without faults a VSwitchConfig outlives its node only until the node's last event, its
\* deletion, is handled: no stale cache and no handler that was already on its way brings
\* it back (vswitchcfg.go:97-129, 161-193).
DeletionApplied ==
    \A n \in Nodes :
        (faults = 0 /\ nodes[n] = None /\ cfgs[n] # None) =>
            events[n] # <<>> /\ events[n][Len(events[n])].type = "delete"

Follows(spec, node) ==
    [nodeToVSwitchConfig(node) EXCEPT !.serviceCIDR = spec.serviceCIDR] = spec

\* Once the cluster is quiet, every node with an address and a pod CIDR has the
\* VSwitchConfig that follows from it and from the controller's flags, the service CIDR
\* apart, whatever was stale, refused or lost before (vswitchcfg.go:74-209).
ConfigsConverge ==
    \A n \in Nodes :
        <>[](nodes[n] # None /\ Valid(nodes[n]) =>
                cfgs[n] # None /\ Follows(cfgs[n].spec, nodes[n]))

\* Once the cluster is quiet, every VSwitchConfig has its node (vswitchcfg.go:119-129).
EveryConfigHasNode == \A n \in Nodes : <>[](cfgs[n] # None => nodes[n] # None)
=============================================================================
