------------------------------ MODULE FlowSync ------------------------------
(***************************************************************************)
(* The flow-programming controller of k-vswitchd (controllers/openflow).   *)
(*                                                                         *)
(* Three informer listeners (VSwitchConfigs, Pods, NetworkPolicies) and a  *)
(* periodic resync are four goroutines that all call syncFlows.  syncFlows *)
(* holds flowsLock, rebuilds one shared flow buffer from the informer      *)
(* caches and the OVS port cache, and hands the buffer to `ovs-ofctl       *)
(* replace-flows`.  The caches keep changing while it runs.                *)
(*                                                                         *)
(* The API server, the informers, the CNI plugin's ports in OVSDB and the  *)
(* bridge's flow table are the environment.  Flows are abstracted to what  *)
(* they are for: one record per VSwitchConfig, one per reachable pod, one  *)
(* per isolated pod and one per allowed (pod, peer) pair.                  *)
(***************************************************************************)
EXTENDS Naturals, Sequences

CONSTANTS
    Pods,          \* namespace/name keys of the pods
    LocalIPs,      \* addresses inside this node's pod CIDR
    RemoteIPs,     \* pod addresses of other nodes
    Configs,       \* names of the VSwitchConfigs
    ConfigSpecs,   \* the values a VSwitchConfig's spec takes
    Policies,      \* names of the NetworkPolicies
    PolicySpecs,   \* the values a NetworkPolicy's spec takes
    Absent,        \* "no such object"
    NoIP,          \* the empty Status.PodIP of a pod that is not running yet
    None,          \* "no lock holder", "no cached port", an unused flow field
    Tombstones,    \* may a watch gap turn a delete into DeletedFinalStateUnknown?
    MaxChanges,    \* bound: changes of API objects
    MaxPorts,      \* bound: OVS ports the CNI plugin ever creates
    MaxFaults,     \* bound: failed ovs-vsctl / ovs-ofctl commands
    MaxRestarts    \* bound: restarts of k-vswitchd

\* The goroutines that run syncFlows: one listener per informer, and the resync timer.
Threads == {"vswitch", "pod", "netpol", "resync"}

IPs == LocalIPs \cup RemoteIPs

ASSUME FlowSyncAssumption ==
    /\ LocalIPs \cap RemoteIPs = {}
    /\ Absent \notin IPs \cup {NoIP} \cup ConfigSpecs \cup PolicySpecs
    /\ NoIP \notin IPs
    /\ None \notin Nat \cup Threads
    /\ PolicySpecs \subseteq [podSelector : SUBSET Pods, from : SUBSET Pods]
    /\ Tombstones \in BOOLEAN
    /\ MaxChanges \in Nat /\ MaxPorts \in Nat /\ MaxFaults \in Nat /\ MaxRestarts \in Nat

VARIABLES
    apiPods, apiCfgs, apiPols,         \* the objects in the API server
    podStore, cfgStore, polStore,      \* the informers' indexers, read through the listers
    podEvents, cfgEvents, polEvents,   \* notifications not yet given to a handler
    ovsPorts,                          \* per pod, its ofports in OVSDB
    bridge,                            \* the flows installed on the bridge
    portCache,                         \* portCache.store: the cached ofport per pod
    flowsLock,                         \* which goroutine holds c.flowsLock
    buffer,                            \* c.flows
    pc,                                \* where each goroutine is
    todoPods, todoPols, rule,          \* locals of the syncFlows that holds the lock
    syncErr,                           \* did the last replace-flows fail?
    changes, nextPort, faults, restarts

api    == <<apiPods, apiCfgs, apiPols>>
stores == <<podStore, cfgStore, polStore>>
events == <<podEvents, cfgEvents, polEvents>>
locals == <<todoPods, todoPols, rule>>
sync   == <<flowsLock, buffer, pc, locals>>
bounds == <<changes, nextPort, faults, restarts>>
vars   == <<api, stores, events, ovsPorts, bridge, portCache, sync, syncErr, bounds>>

-----------------------------------------------------------------------------
PodState == IPs \cup {NoIP, Absent}

\* A notification of the pod informer carries the pod and, if it still exists, its new address.
PodEvent == [type : {"add", "update", "delete", "tombstone"}, pod : Pods, ip : PodState]

ObjEvent == {"add", "update", "delete"}

\* What an informer announces when an object goes from old to new in its indexer.
EventType(old, new) ==
    IF new = Absent THEN "delete" ELSE IF old = Absent THEN "add" ELSE "update"

\* Where syncFlows is while it holds the lock.
SyncPcs == {"listPods", "pods", "pols", "peers"}

InSync(t) == pc[t] \in SyncPcs

-----------------------------------------------------------------------------
\* The flows, by purpose.

Flow(kind, key, val) == [kind |-> kind, key |-> key, val |-> val]

\* Table 0/10/20/100 flows that do not depend on any object.
defaultFlows == {Flow("default", None, None)}

\* Overlay, L3 and node-address flows of one VSwitchConfig.
flowsForVSwitch(c, spec) == {Flow("vswitch", c, spec)}

\* L2 rewrite to the pod's ofport and the ARP responder for its address.
podFlow(ip, ofport) == Flow("pod", ip, ofport)

\* Priority-100 drops of everything to and from an isolated local address.
isolationFlow(ip) == Flow("isolate", ip, None)

\* Priority-1000 resubmit of one allowed (local address, peer address) pair.
allowFlow(ip, peer) == Flow("allow", ip, peer)

isLocalIP(ip) == ip \in LocalIPs

\* Does a pod's own notification lead to a sync?  Only when it has an address of this node.
podNeedsUpdate(ip) == isLocalIP(ip)

\* The addresses of the listed pods; pods without an address are skipped.
getPodIPs(S) == {podStore[p] : p \in S} \cap IPs

\* The policy's own pods that run on this node.
localPodIPs(spec) == {ip \in getPodIPs(spec.podSelector) : isLocalIP(ip)}

\* Nothing may reach or leave these addresses unless a rule allows it.
isolationFlows(ips) == {isolationFlow(ip) : ip \in ips}

\* What the rules of a policy allow the addresses it selects.
allowFlows(ips, peers) == {allowFlow(ip, peer) : ip \in ips, peer \in peers}

\* A policy whose peers are not to be listed (any more).
NoRule == [ips |-> {}, from |-> {}]

-----------------------------------------------------------------------------
Init ==
    /\ apiPods = [p \in Pods |-> Absent]
    /\ apiCfgs = [c \in Configs |-> Absent]
    /\ apiPols = [n \in Policies |-> Absent]
    /\ podStore = apiPods /\ cfgStore = apiCfgs /\ polStore = apiPols
    /\ podEvents = <<>> /\ cfgEvents = <<>> /\ polEvents = <<>>
    /\ ovsPorts = [p \in Pods |-> {}]
    /\ bridge = {}
    /\ portCache = [p \in Pods |-> None]
    /\ flowsLock = None
    /\ buffer = {}
    /\ pc = [t \in Threads |-> "idle"]
    /\ todoPods = {} /\ todoPols = {} /\ rule = NoRule
    /\ syncErr = FALSE
    /\ changes = 0 /\ nextPort = 1 /\ faults = 0 /\ restarts = 0

-----------------------------------------------------------------------------
(* Environment: the cluster and the CNI plugin. *)

Change == changes < MaxChanges /\ changes' = changes + 1

\* The pod is created, starts running (or gets a new address when its sandbox is
\* recreated) and is deleted.  A local address is reported only once the CNI plugin
\* has added a port; no two pods have the same address at the same time.
ChangePod(p, v) ==
    /\ Change
    /\ v # apiPods[p]
    /\ \/ apiPods[p] = Absent /\ v = NoIP
       \/ /\ apiPods[p] # Absent
          /\ v \in IPs \ {apiPods[q] : q \in Pods}
          /\ isLocalIP(v) => ovsPorts[p] # {}
       \/ v = Absent
    /\ apiPods' = [apiPods EXCEPT ![p] = v]
    /\ UNCHANGED <<apiCfgs, apiPols, stores, events, ovsPorts, bridge, portCache, sync, syncErr,
                   nextPort, faults, restarts>>

ChangeConfig(c, v) ==
    /\ Change
    /\ v # apiCfgs[c]
    /\ apiCfgs' = [apiCfgs EXCEPT ![c] = v]
    /\ UNCHANGED <<apiPods, apiPols, stores, events, ovsPorts, bridge, portCache, sync, syncErr,
                   nextPort, faults, restarts>>

ChangePolicy(n, v) ==
    /\ Change
    /\ v # apiPols[n]
    /\ apiPols' = [apiPols EXCEPT ![n] = v]
    /\ UNCHANGED <<apiPods, apiCfgs, stores, events, ovsPorts, bridge, portCache, sync, syncErr,
                   nextPort, faults, restarts>>

\* CNI ADD puts a port with a fresh ofport in OVSDB, next to the one an earlier sandbox of
\* the pod may have left there.
AddPort(p) ==
    /\ apiPods[p] # Absent
    /\ nextPort <= MaxPorts
    /\ ovsPorts' = [ovsPorts EXCEPT ![p] = @ \cup {nextPort}]
    /\ nextPort' = nextPort + 1
    /\ UNCHANGED <<api, stores, events, bridge, portCache, sync, syncErr, changes, faults, restarts>>

\* CNI DEL removes a sandbox's port: the pod is going away, or its sandbox is being
\* recreated.  A DEL without a network namespace leaves it.
DelPort(p) ==
    /\ \E ofport \in ovsPorts[p] : ovsPorts' = [ovsPorts EXCEPT ![p] = @ \ {ofport}]
    /\ UNCHANGED <<api, stores, events, bridge, portCache, sync, syncErr, bounds>>

-----------------------------------------------------------------------------
(* The informers: the indexer catches up with the API server (a relist after *)
(* a watch gap may skip states), and a notification is queued.               *)

DeliverPod(p) ==
    /\ podStore[p] # apiPods[p]
    /\ podStore' = [podStore EXCEPT ![p] = apiPods[p]]
    /\ \E type \in {EventType(podStore[p], apiPods[p])}
                       \cup (IF Tombstones /\ apiPods[p] = Absent THEN {"tombstone"} ELSE {}) :
          podEvents' = Append(podEvents, [type |-> type, pod |-> p, ip |-> apiPods[p]])
    /\ UNCHANGED <<api, cfgStore, polStore, cfgEvents, polEvents, ovsPorts, bridge, portCache,
                   sync, syncErr, bounds>>

DeliverConfig(c) ==
    /\ cfgStore[c] # apiCfgs[c]
    /\ cfgStore' = [cfgStore EXCEPT ![c] = apiCfgs[c]]
    /\ cfgEvents' = Append(cfgEvents, EventType(cfgStore[c], apiCfgs[c]))
    /\ UNCHANGED <<api, podStore, polStore, podEvents, polEvents, ovsPorts, bridge, portCache,
                   sync, syncErr, bounds>>

DeliverPolicy(n) ==
    /\ polStore[n] # apiPols[n]
    /\ polStore' = [polStore EXCEPT ![n] = apiPols[n]]
    /\ polEvents' = Append(polEvents, EventType(polStore[n], apiPols[n]))
    /\ UNCHANGED <<api, podStore, cfgStore, podEvents, cfgEvents, ovsPorts, bridge, portCache,
                   sync, syncErr, bounds>>

-----------------------------------------------------------------------------
(* The event handlers.  A listener gives its handler one notification at a   *)
(* time; a handler that calls syncFlows first has to get flowsLock.          *)

\* Mutant: a call made while another sync runs is taken to be covered by it.
CallSyncFlows_SkipIfRunning(t) ==
    pc' = IF flowsLock = None THEN [pc EXCEPT ![t] = "lock"] ELSE pc

\* c.syncFlows() is called: the goroutine queues for flowsLock.
CallSyncFlows(t) == pc' = [pc EXCEPT ![t] = "lock"]

DropVSwitchEvent ==
    /\ cfgEvents' = Tail(cfgEvents)
    /\ UNCHANGED <<api, stores, podEvents, polEvents, ovsPorts, bridge, portCache, flowsLock,
                   buffer, locals, syncErr, bounds>>

OnAddVSwitch ==
    /\ pc["vswitch"] = "idle" /\ cfgEvents # <<>> /\ Head(cfgEvents) = "add"
    /\ CallSyncFlows("vswitch")
    /\ DropVSwitchEvent

\* Mutant: an update of a VSwitchConfig is ignored, as its deletion is.
OnUpdateVSwitch_Ignored ==
    /\ pc["vswitch"] = "idle" /\ cfgEvents # <<>> /\ Head(cfgEvents) = "update"
    /\ UNCHANGED pc
    /\ DropVSwitchEvent

OnUpdateVSwitch ==
    /\ pc["vswitch"] = "idle" /\ cfgEvents # <<>> /\ Head(cfgEvents) = "update"
    /\ CallSyncFlows("vswitch")
    /\ DropVSwitchEvent

\* The handler is empty: the flows of a deleted node stay until another sync.
OnDeleteVSwitch ==
    /\ pc["vswitch"] = "idle" /\ cfgEvents # <<>> /\ Head(cfgEvents) = "delete"
    /\ UNCHANGED pc
    /\ DropVSwitchEvent

DropPodEvent ==
    /\ podEvents' = Tail(podEvents)
    /\ UNCHANGED <<api, stores, cfgEvents, polEvents, ovsPorts, bridge, flowsLock, buffer,
                   locals, syncErr, bounds>>

\* OnAddPod and OnUpdatePod have the same body.
PodChanged(type) ==
    /\ pc["pod"] = "idle" /\ podEvents # <<>> /\ Head(podEvents).type = type
    /\ IF podNeedsUpdate(Head(podEvents).ip) THEN CallSyncFlows("pod") ELSE UNCHANGED pc
    /\ UNCHANGED portCache
    /\ DropPodEvent

OnAddPod == PodChanged("add")

OnUpdatePod == PodChanged("update")

\* DelPortInfo, and no sync; a DeletedFinalStateUnknown is not a *corev1.Pod, so the
\* handler returns before it.
OnDeletePod ==
    /\ pc["pod"] = "idle" /\ podEvents # <<>>
    /\ \/ /\ Head(podEvents).type = "delete"
          /\ portCache' = [portCache EXCEPT ![Head(podEvents).pod] = None]
       \/ /\ Head(podEvents).type = "tombstone"
          /\ UNCHANGED portCache
    /\ UNCHANGED pc
    /\ DropPodEvent

\* OnAddNetworkPolicy, OnUpdateNetworkPolicy and OnDeleteNetworkPolicy have the same body.
PolicyChanged(type) ==
    /\ pc["netpol"] = "idle" /\ polEvents # <<>> /\ Head(polEvents) = type
    /\ CallSyncFlows("netpol")
    /\ polEvents' = Tail(polEvents)
    /\ UNCHANGED <<api, stores, podEvents, cfgEvents, ovsPorts, bridge, portCache, flowsLock,
                   buffer, locals, syncErr, bounds>>

OnAddNetworkPolicy == PolicyChanged("add")

OnUpdateNetworkPolicy == PolicyChanged("update")

OnDeleteNetworkPolicy == PolicyChanged("delete")

\* wait.Until(fullResync, time.Minute): the timer fires whenever the last resync is over.
FullResync ==
    /\ pc["resync"] = "idle"
    /\ CallSyncFlows("resync")
    /\ UNCHANGED <<api, stores, events, ovsPorts, bridge, portCache, flowsLock, buffer,
                   locals, syncErr, bounds>>

-----------------------------------------------------------------------------
(* syncFlows, cut where it reads a cache that may have changed meanwhile.    *)

\* Mutant: the lock is not taken exclusively.
SyncBegin_NoLock(t) ==
    /\ pc[t] = "lock"
    /\ flowsLock' = t
    /\ buffer' = defaultFlows
           \cup UNION {flowsForVSwitch(c, cfgStore[c]) : c \in {d \in Configs : cfgStore[d] # Absent}}
    /\ pc' = [pc EXCEPT ![t] = "listPods"]
    /\ UNCHANGED <<api, stores, events, ovsPorts, bridge, portCache, locals, syncErr, bounds>>

\* Mutant: the buffer is not reset before the sync.
SyncBegin_NoReset(t) ==
    /\ pc[t] = "lock"
    /\ flowsLock = None
    /\ flowsLock' = t
    /\ buffer' = buffer \cup defaultFlows
           \cup UNION {flowsForVSwitch(c, cfgStore[c]) : c \in {d \in Configs : cfgStore[d] # Absent}}
    /\ pc' = [pc EXCEPT ![t] = "listPods"]
    /\ UNCHANGED <<api, stores, events, ovsPorts, bridge, portCache, locals, syncErr, bounds>>

\* flowsLock.Lock(), Reset, defaultFlows, and the flows of the listed VSwitchConfigs.
SyncBegin(t) ==
    /\ pc[t] = "lock"
    /\ flowsLock = None
    /\ flowsLock' = t
    /\ buffer' = defaultFlows
           \cup UNION {flowsForVSwitch(c, cfgStore[c]) : c \in {d \in Configs : cfgStore[d] # Absent}}
    /\ pc' = [pc EXCEPT ![t] = "listPods"]
    /\ UNCHANGED <<api, stores, events, ovsPorts, bridge, portCache, locals, syncErr, bounds>>

\* podLister.List; flowsForPod returns at once for a pod with no address or a remote one.
SyncListPods(t) ==
    /\ pc[t] = "listPods"
    /\ todoPods' = {[pod |-> p, ip |-> podStore[p]] : p \in {q \in Pods : isLocalIP(podStore[q])}}
    /\ pc' = [pc EXCEPT ![t] = "pods"]
    /\ UNCHANGED <<api, stores, events, ovsPorts, bridge, portCache, flowsLock, buffer, todoPols,
                   rule, syncErr, bounds>>

\* The flows of one listed pod, given the ofport GetPortInfo returned for it.
AddPodFlow(e, ofport) == buffer' = buffer \cup {podFlow(e.ip, ofport)}

\* portCache.GetPortInfo: a cached ofport is used as it is.
CachedPort(e) ==
    /\ portCache[e.pod] # None
    /\ AddPodFlow(e, portCache[e.pod])
    /\ UNCHANGED <<portCache, faults>>

\* Otherwise ovs-vsctl is asked for the pod's port and its answer is cached.
FetchedPort(e) ==
    /\ portCache[e.pod] = None
    /\ \E ofport \in ovsPorts[e.pod] :
          /\ portCache' = [portCache EXCEPT ![e.pod] = ofport]
          /\ AddPodFlow(e, ofport)
    /\ UNCHANGED faults

\* There is none, or the command fails: the pod is skipped and only a warning logged.
NoPort(e) ==
    /\ portCache[e.pod] = None
    /\ \/ ovsPorts[e.pod] = {} /\ UNCHANGED faults
       \/ ovsPorts[e.pod] # {} /\ faults < MaxFaults /\ faults' = faults + 1
    /\ UNCHANGED <<portCache, buffer>>

\* flowsForPod for one pod of the list, as it was when listed.
FlowsForPod(t) ==
    /\ pc[t] = "pods"
    /\ \E e \in todoPods :
         /\ todoPods' = todoPods \ {e}
         /\ CachedPort(e) \/ FetchedPort(e) \/ NoPort(e)
    /\ UNCHANGED <<api, stores, events, ovsPorts, bridge, flowsLock, pc, todoPols, rule, syncErr,
                   changes, nextPort, restarts>>

\* netPolLister.List, after the last pod.
SyncListPolicies(t) ==
    /\ pc[t] = "pods"
    /\ todoPods = {}
    /\ todoPols' = {[pol |-> n, spec |-> polStore[n]] : n \in {m \in Policies : polStore[m] # Absent}}
    /\ pc' = [pc EXCEPT ![t] = "pols"]
    /\ UNCHANGED <<api, stores, events, ovsPorts, bridge, portCache, flowsLock, buffer, todoPods,
                   rule, syncErr, bounds>>

\* One listed policy.  The pods it selects are listed now, not with the pods above.
FlowsForNetworkPolicy(t) ==
    /\ pc[t] = "pols"
    /\ \E e \in todoPols :
         /\ todoPols' = todoPols \ {e}
         /\ buffer' = buffer \cup isolationFlows(localPodIPs(e.spec))
         /\ rule' = [ips |-> localPodIPs(e.spec), from |-> e.spec.from]
    /\ pc' = [pc EXCEPT ![t] = "peers"]
    /\ UNCHANGED <<api, stores, events, ovsPorts, bridge, portCache, flowsLock, todoPods, syncErr,
                   bounds>>

\* The peers of its rules are listed after the pods it selects.
FlowsForPeers(t) ==
    /\ pc[t] = "peers"
    /\ buffer' = buffer \cup allowFlows(rule.ips, getPodIPs(rule.from))
    /\ rule' = NoRule
    /\ pc' = [pc EXCEPT ![t] = "pols"]
    /\ UNCHANGED <<api, stores, events, ovsPorts, bridge, portCache, flowsLock, todoPods, todoPols,
                   syncErr, bounds>>

\* flows.SyncFlows: ovs-ofctl replace-flows with the buffer, then the lock is released.
\* A failed command leaves any mixture of old and new flows; its error is only logged
\* (or lost: the goroutine that writes stdin shares err), so nothing else depends on it.
SyncReplace(t) ==
    /\ pc[t] = "pols"
    /\ todoPols = {}
    /\ \/ /\ bridge' = buffer
          /\ syncErr' = FALSE
          /\ UNCHANGED faults
       \/ /\ faults < MaxFaults
          /\ faults' = faults + 1
          /\ \E del \in SUBSET (bridge \ buffer), add \in SUBSET (buffer \ bridge) :
                bridge' = (bridge \ del) \cup add
          /\ syncErr' = TRUE
    /\ flowsLock' = None
    /\ pc' = [pc EXCEPT ![t] = "idle"]
    /\ UNCHANGED <<api, stores, events, ovsPorts, portCache, buffer, locals, changes, nextPort,
                   restarts>>

SyncStep(t) ==
    \/ SyncListPods(t) \/ FlowsForPod(t) \/ SyncListPolicies(t)
    \/ FlowsForNetworkPolicy(t) \/ FlowsForPeers(t) \/ SyncReplace(t)

-----------------------------------------------------------------------------
\* k-vswitchd stops and is started again: memory and informer caches are empty, the
\* bridge and OVSDB keep what they have.
Restart ==
    /\ restarts < MaxRestarts
    /\ restarts' = restarts + 1
    /\ podStore' = [p \in Pods |-> Absent]
    /\ cfgStore' = [c \in Configs |-> Absent]
    /\ polStore' = [n \in Policies |-> Absent]
    /\ podEvents' = <<>> /\ cfgEvents' = <<>> /\ polEvents' = <<>>
    /\ portCache' = [p \in Pods |-> None]
    /\ flowsLock' = None
    /\ buffer' = {}
    /\ pc' = [t \in Threads |-> "idle"]
    /\ todoPods' = {} /\ todoPols' = {} /\ rule' = NoRule
    /\ syncErr' = FALSE
    /\ UNCHANGED <<api, ovsPorts, bridge, changes, nextPort, faults>>

Environment ==
    \/ \E p \in Pods : AddPort(p) \/ DelPort(p) \/ (\E v \in PodState : ChangePod(p, v))
    \/ \E c \in Configs, v \in ConfigSpecs \cup {Absent} : ChangeConfig(c, v)
    \/ \E n \in Policies, v \in PolicySpecs \cup {Absent} : ChangePolicy(n, v)

Deliver ==
    \/ \E p \in Pods : DeliverPod(p)
    \/ \E c \in Configs : DeliverConfig(c)
    \/ \E n \in Policies : DeliverPolicy(n)

VSwitchHandler == OnAddVSwitch \/ OnUpdateVSwitch \/ OnDeleteVSwitch
PodHandler     == OnAddPod \/ OnUpdatePod \/ OnDeletePod
PolicyHandler  == OnAddNetworkPolicy \/ OnUpdateNetworkPolicy \/ OnDeleteNetworkPolicy

Next ==
    \/ Environment
    \/ Deliver
    \/ VSwitchHandler \/ PodHandler \/ PolicyHandler \/ FullResync
    \/ \E t \in Threads : SyncBegin(t) \/ SyncStep(t)
    \/ Restart

Spec == Init /\ [][Next]_vars

\* The informers deliver, the listeners run their handlers, the timer fires and a sync
\* that holds the lock goes on.  Go's mutex hands itself to a goroutine that waited too
\* long, so a goroutine that keeps finding the lock free in between gets it: strong
\* fairness of SyncBegin.
Fairness ==
    /\ WF_vars(Deliver)
    /\ WF_vars(VSwitchHandler) /\ WF_vars(PodHandler) /\ WF_vars(PolicyHandler)
    /\ WF_vars(FullResync)
    /\ \A t \in Threads : SF_vars(SyncBegin(t)) /\ WF_vars(SyncStep(t))

FairSpec == Spec /\ Fairness

-----------------------------------------------------------------------------
(* Properties *)

Flows ==
    [kind : {"default", "vswitch", "pod", "isolate", "allow"},
     key  : {None} \cup Configs \cup IPs,
     val  : {None} \cup ConfigSpecs \cup Nat \cup IPs]

\* Every variable has its type, and exactly the holder of flowsLock is inside syncFlows.
TypeOK ==
    /\ apiPods \in [Pods -> PodState] /\ podStore \in [Pods -> PodState]
    /\ apiCfgs \in [Configs -> ConfigSpecs \cup {Absent}]
    /\ cfgStore \in [Configs -> ConfigSpecs \cup {Absent}]
    /\ apiPols \in [Policies -> PolicySpecs \cup {Absent}]
    /\ polStore \in [Policies -> PolicySpecs \cup {Absent}]
    /\ podEvents \in Seq(PodEvent)
    /\ cfgEvents \in Seq(ObjEvent) /\ polEvents \in Seq(ObjEvent)
    /\ ovsPorts \in [Pods -> SUBSET Nat]
    /\ bridge \subseteq Flows /\ buffer \subseteq Flows
    /\ portCache \in [Pods -> Nat \cup {None}]
    /\ flowsLock \in Threads \cup {None}
    /\ pc \in [Threads -> {"idle", "lock"} \cup SyncPcs]
    /\ \A t \in Threads : InSync(t) <=> flowsLock = t
    /\ todoPods \subseteq [pod : Pods, ip : LocalIPs]
    /\ todoPols \subseteq [pol : Policies, spec : PolicySpecs]
    /\ rule \in [ips : SUBSET LocalIPs, from : SUBSET Pods]
    /\ syncErr \in BOOLEAN
    /\ changes \in Nat /\ nextPort \in Nat /\ faults \in Nat /\ restarts \in Nat

\* A notification that makes its handler call syncFlows.
PodTrigger(e) == e.type \in {"add", "update"} /\ isLocalIP(e.ip)
CfgTrigger(e) == e \in {"add", "update"}

\* A sync that has read nothing yet is certain to come.
Pending ==
    \/ \E i \in DOMAIN podEvents : PodTrigger(podEvents[i])
    \/ \E i \in DOMAIN cfgEvents : CfgTrigger(cfgEvents[i])
    \/ polEvents # <<>>
    \/ \E t \in Threads : pc[t] = "lock"

At(label) == \E t \in Threads : pc[t] = label
Syncing   == \E t \in Threads : InSync(t)

\* While a sync runs the flow is in the buffer it will install; otherwise it is on the
\* bridge, unless the last replace-flows failed.
Installed(f) == IF Syncing THEN f \in buffer ELSE f \in bridge \/ syncErr

\* A VSwitchConfig in the informer's cache is never forgotten: its present spec is
\* installed, in the buffer of the running sync, or a later sync is certain to come,
\* however the listeners, the resync and the cache updates interleave (flows.go:54-112,
\* 693-710).
CfgCovered ==
    \A c \in Configs : cfgStore[c] # Absent =>
        Pending \/ (\A f \in flowsForVSwitch(c, cfgStore[c]) : Installed(f))

\* A local pod with a cached port never keeps flows for an older address or port: its
\* flow is installed, still to be written by the running sync, or a later sync is
\* certain to come (flows.go:80-89, 238-286, 712-763).
PodCovered ==
    \A p \in Pods : isLocalIP(podStore[p]) /\ portCache[p] # None =>
        \/ Pending
        \/ At("listPods")
        \/ At("pods") /\ [pod |-> p, ip |-> podStore[p]] \in todoPods
        \/ Installed(podFlow(podStore[p], portCache[p]))

\* A sync that works on a pod as it was when listed does so at its present address, or a
\* later sync is certain to come: the port it caches is never left with an old address
\* only (flows.go:80-89).
ListedPodsFresh ==
    At("pods") => \A e \in todoPods :
        isLocalIP(podStore[e.pod]) => podStore[e.pod] = e.ip \/ Pending

\* A local pod that a NetworkPolicy in the cache selects does not stay open: its drop
\* flows are installed, still to be written by the running sync, or a later sync is
\* certain to come, although pods and policies are listed at different times
\* (flows.go:80-103, 288-331, 712-789).
PolicyCovered ==
    \A n \in Policies, p \in Pods :
        (polStore[n] # Absent /\ isLocalIP(podStore[p]) /\ p \in polStore[n].podSelector) =>
            \/ Pending
            \/ At("listPods") \/ At("pods")
            \/ Syncing /\ [pol |-> n, spec |-> polStore[n]] \in todoPols
            \/ Installed(isolationFlow(podStore[p]))

\* The flows the cluster calls for, with the ofports the port cache holds.
Desired ==
    LET ipsOf(S) == {apiPods[p] : p \in S} \cap IPs
        pols     == {n \in Policies : apiPols[n] # Absent}
    IN  defaultFlows
          \cup UNION {flowsForVSwitch(c, apiCfgs[c]) : c \in {d \in Configs : apiCfgs[d] # Absent}}
          \cup {podFlow(apiPods[p], portCache[p]) :
                  p \in {q \in Pods : isLocalIP(apiPods[q]) /\ portCache[q] # None}}
          \cup UNION {isolationFlows(ipsOf(apiPols[n].podSelector) \cap LocalIPs)
                        \cup allowFlows(ipsOf(apiPols[n].podSelector) \cap LocalIPs, ipsOf(apiPols[n].from)) :
                          n \in pols}

\* Once the cluster stops changing the bridge ends with exactly the flows it calls for,
\* after every lost delete notification, remote pod change, failed command and restart:
\* the periodic resync repairs what no handler reacts to (controller.go:131-140).
EventuallyConsistent == <>[](bridge = Desired)

\* Once the cluster stops changing, a local pod that has a single OVS port is reached
\* through it (flows.go:252-262, port_cache.go:55-88).
PortsFollowCNI ==
    <>[](\A p \in Pods : isLocalIP(apiPods[p]) =>
            \A ofport \in ovsPorts[p] :
                ovsPorts[p] = {ofport} => podFlow(apiPods[p], ofport) \in bridge)
=============================================================================
