------------------------ MODULE FlowSyncCoverProofs -------------------------
(***************************************************************************)
(* No cache change is forgotten: the proof that what the informer caches   *)
(* hold is on the bridge, on its way there, or certain to be synced again. *)
(***************************************************************************)
EXTENDS FlowSyncProofs

USE FlowSyncAssumption DEF IPs, Threads, PodState

\* The inductive invariant, next to TypeOK.
CoverInv == CfgCovered /\ PodCovered /\ ListedPodsFresh /\ PolicyCovered

-----------------------------------------------------------------------------
\* An element of a queue stays where it is when another is appended.
LEMMA AppendKeeps ==
    ASSUME NEW S, NEW s \in Seq(S), NEW x \in S
    PROVE  /\ \A i \in DOMAIN s : i \in DOMAIN Append(s, x) /\ Append(s, x)[i] = s[i]
           /\ Len(s) + 1 \in DOMAIN Append(s, x) /\ Append(s, x)[Len(s) + 1] = x
OBVIOUS

\* An element of a queue is its head or moves up when the head is taken.
LEMMA TailKeeps ==
    ASSUME NEW S, NEW s \in Seq(S), s # <<>>, NEW i \in DOMAIN s
    PROVE  s[i] = Head(s) \/ (i - 1 \in DOMAIN Tail(s) /\ Tail(s)[i - 1] = s[i])
<1>1. CASE i = 1
  BY <1>1
<1>2. CASE i # 1
  BY <1>2
<1>3. QED
  BY <1>1, <1>2

\* When a fresh sync is certain to come there is nothing to show.
LEMMA PendingCovers == Pending => CoverInv
BY DEF CoverInv, CfgCovered, PodCovered, ListedPodsFresh, PolicyCovered

\* The same after a step.
LEMMA PendingCoversNext == Pending' => CoverInv'
BY DEF CoverInv, CfgCovered, PodCovered, ListedPodsFresh, PolicyCovered

\* A goroutine that queues for the lock is a pending sync.
LEMMA LockIsPending ==
    ASSUME TypeOK, NEW t \in Threads, pc' = [pc EXCEPT ![t] = "lock"]
    PROVE  Pending'
BY DEF TypeOK, Pending

\* A step that leaves the queues and the goroutines alone leaves Pending alone.
LEMMA PendingFrame ==
    ASSUME UNCHANGED <<podEvents, cfgEvents, polEvents, pc>>
    PROVE  Pending' <=> Pending
BY DEF Pending, PodTrigger, CfgTrigger

\* What is installed depends on the goroutines, the buffer and the bridge only.
LEMMA InstalledFrame ==
    ASSUME UNCHANGED <<pc, buffer, bridge, syncErr>>
    PROVE  /\ \A f : Installed(f)' <=> Installed(f)
           /\ Syncing' <=> Syncing
           /\ At("listPods")' <=> At("listPods")
           /\ At("pods")' <=> At("pods")
BY DEF Installed, Syncing, InSync, At

\* The initial caches are empty, so nothing has to be installed.
LEMMA CoverInit == Init => CoverInv
BY DEF Init, CoverInv, CfgCovered, PodCovered, ListedPodsFresh, PolicyCovered, At, isLocalIP

\* The environment changes nothing the invariant speaks of.
LEMMA CoverEnvironment == CoverInv /\ Environment => CoverInv'
<1> SUFFICES ASSUME CoverInv, Environment PROVE CoverInv'
  OBVIOUS
<1>1. UNCHANGED <<stores, events, bridge, portCache, sync, syncErr>>
  BY DEF Environment, AddPort, DelPort, ChangePod, ChangeConfig, ChangePolicy
<1>2. UNCHANGED <<podEvents, cfgEvents, polEvents, pc, buffer, bridge, syncErr, portCache,
                  podStore, cfgStore, polStore, todoPods, todoPols>>
  BY <1>1 DEF stores, events, sync, locals
<1>3. Pending' <=> Pending
  BY <1>2, PendingFrame
<1>4. /\ \A f : Installed(f)' <=> Installed(f)
      /\ Syncing' <=> Syncing
      /\ At("listPods")' <=> At("listPods")
      /\ At("pods")' <=> At("pods")
  BY <1>2, InstalledFrame
<1>5. QED
  BY <1>2, <1>3, <1>4 DEF CoverInv, CfgCovered, PodCovered, ListedPodsFresh, PolicyCovered,
     flowsForVSwitch, Flow, podFlow, isolationFlow, isLocalIP

\* A new local address and a new spec are announced by the notification queued with them.
LEMMA CoverDeliver == TypeOK /\ CoverInv /\ Deliver => CoverInv'
<1> SUFFICES ASSUME TypeOK, CoverInv, Deliver, ~Pending' PROVE CoverInv'
  BY PendingCoversNext
<1>1. ASSUME NEW p \in Pods, DeliverPod(p) PROVE CoverInv'
  <2>1. UNCHANGED <<cfgStore, polStore, cfgEvents, polEvents, pc, buffer, bridge, syncErr,
                    portCache, todoPods, todoPols>>
    BY <1>1 DEF DeliverPod, sync, locals
  <2>2. podStore' = [podStore EXCEPT ![p] = apiPods[p]]
    BY <1>1 DEF DeliverPod
  <2>3. PICK e \in PodEvent :
          /\ podEvents' = Append(podEvents, e)
          /\ e.ip = apiPods[p]
          /\ apiPods[p] # Absent => e.type \in {"add", "update"}
    <3>1. PICK type \in {EventType(podStore[p], apiPods[p])}
                           \cup (IF Tombstones /\ apiPods[p] = Absent THEN {"tombstone"} ELSE {}) :
            podEvents' = Append(podEvents, [type |-> type, pod |-> p, ip |-> apiPods[p]])
      BY <1>1 DEF DeliverPod
    <3>2. apiPods[p] # Absent => type \in {"add", "update"}
      BY <3>1 DEF EventType
    <3>3. type \in {"add", "update", "delete", "tombstone"}
      BY <3>1 DEF EventType
    <3>4. apiPods[p] \in PodState
      BY DEF TypeOK
    <3>5. [type |-> type, pod |-> p, ip |-> apiPods[p]] \in PodEvent
      BY <3>3, <3>4 DEF PodEvent
    <3>6. QED
      BY <3>1, <3>2, <3>5
  <2>4. podEvents \in Seq(PodEvent)
    BY DEF TypeOK
  <2>5. ~Pending
    <3>1. \A i \in DOMAIN podEvents : i \in DOMAIN podEvents' /\ podEvents'[i] = podEvents[i]
      BY <2>3, <2>4, AppendKeeps
    <3>2. QED
      BY <2>1, <3>1 DEF Pending, PodTrigger
  <2>6. ~isLocalIP(apiPods[p])
    <3>1. Len(podEvents) + 1 \in DOMAIN podEvents' /\ podEvents'[Len(podEvents) + 1] = e
      BY <2>3, <2>4, AppendKeeps
    <3>2. ~PodTrigger(e)
      BY <3>1 DEF Pending, PodTrigger
    <3>3. isLocalIP(apiPods[p]) => apiPods[p] # Absent
      BY DEF isLocalIP
    <3>4. QED
      BY <2>3, <3>2, <3>3 DEF PodTrigger
  <2>7. /\ \A f : Installed(f)' <=> Installed(f)
        /\ Syncing' <=> Syncing
        /\ At("listPods")' <=> At("listPods")
        /\ At("pods")' <=> At("pods")
    BY <2>1, InstalledFrame
  <2>8. \A q \in Pods : isLocalIP(podStore'[q]) => podStore'[q] = podStore[q]
    BY <2>2, <2>6 DEF TypeOK
  <2>9. CfgCovered'
    BY <2>1, <2>5, <2>7 DEF CoverInv, CfgCovered, flowsForVSwitch, Flow
  <2>10. PodCovered'
    BY <2>1, <2>5, <2>7, <2>8 DEF CoverInv, PodCovered, podFlow, Flow, isLocalIP
  <2>11. ListedPodsFresh'
    BY <2>1, <2>5, <2>7, <2>8 DEF CoverInv, ListedPodsFresh, isLocalIP, TypeOK
  <2>12. PolicyCovered'
    BY <2>1, <2>5, <2>7, <2>8 DEF CoverInv, PolicyCovered, isolationFlow, Flow, isLocalIP
  <2>13. QED
    BY <2>9, <2>10, <2>11, <2>12 DEF CoverInv
<1>2. ASSUME NEW c \in Configs, DeliverConfig(c) PROVE CoverInv'
  <2>1. UNCHANGED <<podStore, polStore, podEvents, polEvents, pc, buffer, bridge, syncErr,
                    portCache, todoPods, todoPols>>
    BY <1>2 DEF DeliverConfig, sync, locals
  <2>2. /\ cfgStore' = [cfgStore EXCEPT ![c] = apiCfgs[c]]
        /\ cfgEvents' = Append(cfgEvents, EventType(cfgStore[c], apiCfgs[c]))
        /\ cfgEvents \in Seq(ObjEvent) /\ EventType(cfgStore[c], apiCfgs[c]) \in ObjEvent
    BY <1>2, EventTypeOK DEF DeliverConfig, TypeOK
  <2>3. ~Pending
    <3>1. \A i \in DOMAIN cfgEvents : i \in DOMAIN cfgEvents' /\ cfgEvents'[i] = cfgEvents[i]
      BY <2>2, AppendKeeps
    <3>2. QED
      BY <2>1, <3>1 DEF Pending, CfgTrigger
  <2>4. apiCfgs[c] = Absent
    <3>1. /\ Len(cfgEvents) + 1 \in DOMAIN cfgEvents'
          /\ cfgEvents'[Len(cfgEvents) + 1] = EventType(cfgStore[c], apiCfgs[c])
      BY <2>2, AppendKeeps
    <3>2. ~CfgTrigger(EventType(cfgStore[c], apiCfgs[c]))
      BY <3>1 DEF Pending, CfgTrigger
    <3>3. QED
      BY <3>2 DEF CfgTrigger, EventType
  <2>5. /\ \A f : Installed(f)' <=> Installed(f)
        /\ Syncing' <=> Syncing
        /\ At("listPods")' <=> At("listPods")
        /\ At("pods")' <=> At("pods")
    BY <2>1, InstalledFrame
  <2>6. \A d \in Configs : cfgStore'[d] # Absent => cfgStore'[d] = cfgStore[d]
    BY <2>2, <2>4 DEF TypeOK
  <2>7. CfgCovered'
    BY <2>3, <2>5, <2>6 DEF CoverInv, CfgCovered, flowsForVSwitch, Flow
  <2>8. PodCovered' /\ ListedPodsFresh' /\ PolicyCovered'
    BY <2>1, <2>3, <2>5 DEF CoverInv, PodCovered, ListedPodsFresh, PolicyCovered, podFlow,
       isolationFlow, Flow, isLocalIP
  <2>9. QED
    BY <2>7, <2>8 DEF CoverInv
<1>3. ASSUME NEW n \in Policies, DeliverPolicy(n) PROVE CoverInv'
  <2>1. polEvents' # <<>>
    BY <1>3, EventTypeOK DEF DeliverPolicy, TypeOK
  <2>2. QED
    BY <2>1 DEF Pending
<1>4. QED
  BY <1>1, <1>2, <1>3 DEF Deliver

\* A handler either queues a sync or leaves out a notification that needs none.
LEMMA CoverHandlers ==
    TypeOK /\ CoverInv /\ (VSwitchHandler \/ PodHandler \/ PolicyHandler \/ FullResync) => CoverInv'
<1> SUFFICES ASSUME TypeOK, CoverInv, ~Pending',
                    VSwitchHandler \/ PodHandler \/ PolicyHandler \/ FullResync
             PROVE  CoverInv'
  BY PendingCoversNext
<1>0. \A t \in Threads : ~CallSyncFlows(t)
  BY LockIsPending DEF CallSyncFlows
<1>1. CASE VSwitchHandler
  <2>1. OnDeleteVSwitch
    BY <1>0, <1>1 DEF VSwitchHandler, OnAddVSwitch, OnUpdateVSwitch
  <2>2. UNCHANGED <<podStore, cfgStore, polStore, podEvents, polEvents, pc, buffer, bridge,
                    syncErr, portCache, todoPods, todoPols>>
    BY <2>1 DEF OnDeleteVSwitch, DropVSwitchEvent, stores, locals
  <2>3. /\ cfgEvents \in Seq(ObjEvent) /\ cfgEvents # <<>>
        /\ cfgEvents' = Tail(cfgEvents) /\ Head(cfgEvents) = "delete"
    BY <2>1 DEF OnDeleteVSwitch, DropVSwitchEvent, TypeOK
  <2>4. ~Pending
    <3>1. \A i \in DOMAIN cfgEvents : CfgTrigger(cfgEvents[i]) =>
             \E j \in DOMAIN cfgEvents' : CfgTrigger(cfgEvents'[j])
      BY <2>3, TailKeeps DEF CfgTrigger
    <3>2. QED
      BY <2>2, <3>1 DEF Pending, CfgTrigger
  <2>5. /\ \A f : Installed(f)' <=> Installed(f)
        /\ Syncing' <=> Syncing
        /\ At("listPods")' <=> At("listPods")
        /\ At("pods")' <=> At("pods")
    BY <2>2, InstalledFrame
  <2>6. QED
    BY <2>2, <2>4, <2>5 DEF CoverInv, CfgCovered, PodCovered, ListedPodsFresh, PolicyCovered,
       flowsForVSwitch, Flow, podFlow, isolationFlow, isLocalIP
<1>2. CASE PodHandler
  <2>1. /\ UNCHANGED <<podStore, cfgStore, polStore, cfgEvents, polEvents, pc, buffer, bridge,
                       syncErr, todoPods, todoPols>>
        /\ podEvents # <<>> /\ podEvents' = Tail(podEvents) /\ podEvents \in Seq(PodEvent)
    BY <1>0, <1>2 DEF PodHandler, OnAddPod, OnUpdatePod, OnDeletePod, PodChanged, DropPodEvent,
       stores, locals, TypeOK
  <2>2. ~PodTrigger(Head(podEvents))
    BY <1>0, <1>2 DEF PodHandler, OnAddPod, OnUpdatePod, OnDeletePod, PodChanged, PodTrigger,
       podNeedsUpdate
  <2>3. ~Pending
    <3>1. \A i \in DOMAIN podEvents : PodTrigger(podEvents[i]) =>
             \E j \in DOMAIN podEvents' : PodTrigger(podEvents'[j])
      <4>1. TAKE i \in DOMAIN podEvents
      <4>2. HAVE PodTrigger(podEvents[i])
      <4>3. podEvents[i] # Head(podEvents)
        BY <2>2, <4>2
      <4>4. i - 1 \in DOMAIN podEvents' /\ podEvents'[i - 1] = podEvents[i]
        BY <2>1, <4>3, TailKeeps
      <4>5. QED
        BY <4>2, <4>4
    <3>2. QED
      BY <2>1, <3>1 DEF Pending, PodTrigger, CfgTrigger
  <2>4. /\ \A f : Installed(f)' <=> Installed(f)
        /\ Syncing' <=> Syncing
        /\ At("listPods")' <=> At("listPods")
        /\ At("pods")' <=> At("pods")
    BY <2>1, InstalledFrame
  <2>5. \A p \in Pods : portCache'[p] = portCache[p] \/ portCache'[p] = None
    BY <1>2 DEF PodHandler, OnAddPod, OnUpdatePod, OnDeletePod, PodChanged, TypeOK
  <2>6. CfgCovered' /\ ListedPodsFresh' /\ PolicyCovered'
    BY <2>1, <2>3, <2>4 DEF CoverInv, CfgCovered, ListedPodsFresh, PolicyCovered,
       flowsForVSwitch, Flow, isolationFlow, isLocalIP
  <2>7. PodCovered'
    BY <2>1, <2>3, <2>4, <2>5 DEF CoverInv, PodCovered, podFlow, Flow, isLocalIP
  <2>8. QED
    BY <2>6, <2>7 DEF CoverInv
<1>3. CASE PolicyHandler \/ FullResync
  BY <1>0, <1>3 DEF PolicyHandler, OnAddNetworkPolicy, OnUpdateNetworkPolicy,
     OnDeleteNetworkPolicy, PolicyChanged, FullResync
<1>4. QED
  BY <1>1, <1>2, <1>3

\* Only the goroutine that holds the lock is inside syncFlows.
LEMMA OnlyHolder ==
    ASSUME TypeOK, NEW t \in Threads, InSync(t), NEW u \in Threads, InSync(u)
    PROVE  u = t
BY DEF TypeOK

\* A sync starts from the present VSwitchConfigs and has read nothing else.
LEMMA CoverSyncBegin ==
    ASSUME TypeOK, CoverInv, NEW t \in Threads, SyncBegin(t)
    PROVE  CoverInv'
<1>1. pc'[t] = "listPods" /\ cfgStore' = cfgStore
  BY DEF SyncBegin, TypeOK, stores
<1>2. At("listPods")' /\ Syncing'
  BY <1>1 DEF At, Syncing, InSync, SyncPcs
<1>3. ~At("pods")'
  <2>1. \A u \in Threads : u # t => pc'[u] = pc[u] /\ ~InSync(u)
    BY DEF SyncBegin, TypeOK
  <2>2. QED
    BY <1>1, <2>1 DEF At, InSync, SyncPcs
<1>4. \A c \in Configs : cfgStore[c] # Absent => flowsForVSwitch(c, cfgStore[c]) \subseteq buffer'
  BY DEF SyncBegin
<1>5. CfgCovered'
  BY <1>1, <1>2, <1>4 DEF CfgCovered, Installed, flowsForVSwitch
<1>6. PodCovered' /\ PolicyCovered'
  BY <1>2 DEF PodCovered, PolicyCovered
<1>7. ListedPodsFresh'
  BY <1>3 DEF ListedPodsFresh
<1>8. QED
  BY <1>5, <1>6, <1>7 DEF CoverInv

\* What every step of syncFlows but the last leaves alone.
SyncFrame ==
    /\ UNCHANGED <<podEvents, cfgEvents, polEvents, podStore, cfgStore, polStore, bridge, syncErr>>
    /\ buffer \subseteq buffer'

\* While a sync goes on, what is in its buffer stays there and Pending does not change.
LEMMA SyncFrameKeeps ==
    ASSUME TypeOK, NEW t \in Threads, SyncFrame, InSync(t), InSync(t)',
           \A u \in Threads : u # t => pc'[u] = pc[u]
    PROVE  /\ \A f : Installed(f) => Installed(f)'
           /\ Syncing /\ Syncing'
           /\ Pending' <=> Pending
<1>1. Syncing /\ Syncing'
  BY DEF Syncing
<1>2. \A f : Installed(f) => Installed(f)'
  BY <1>1 DEF Installed, SyncFrame
<1>3. \A u \in Threads : pc'[u] = "lock" <=> pc[u] = "lock"
  BY DEF InSync, SyncPcs
<1>4. Pending' <=> Pending
  BY <1>3 DEF Pending, SyncFrame, PodTrigger, CfgTrigger
<1>5. QED
  BY <1>1, <1>2, <1>4

\* The pods are listed as they are now.
LEMMA CoverListPods ==
    ASSUME TypeOK, CoverInv, NEW t \in Threads, SyncListPods(t)
    PROVE  CoverInv'
<1>1. SyncFrame /\ InSync(t) /\ InSync(t)' /\ \A u \in Threads : u # t => pc'[u] = pc[u]
  BY DEF SyncListPods, SyncFrame, InSync, SyncPcs, stores, events, TypeOK
<1>2. pc'[t] = "pods" /\ UNCHANGED <<podStore, cfgStore, polStore, portCache>>
  BY DEF SyncListPods, stores, TypeOK
<1>3. /\ \A f : Installed(f) => Installed(f)'
      /\ Syncing /\ Syncing'
      /\ Pending' <=> Pending
  BY <1>1, SyncFrameKeeps
<1>4. At("pods")'
  BY <1>2 DEF At
<1>5. \A p \in Pods : isLocalIP(podStore[p]) => [pod |-> p, ip |-> podStore[p]] \in todoPods'
  BY DEF SyncListPods
<1>6. \A e \in todoPods' : podStore[e.pod] = e.ip
  BY DEF SyncListPods
<1>7. CfgCovered'
  BY <1>2, <1>3 DEF CoverInv, CfgCovered, flowsForVSwitch, Flow
<1>8. PodCovered'
  BY <1>2, <1>4, <1>5 DEF PodCovered, isLocalIP
<1>9. ListedPodsFresh'
  BY <1>2, <1>6 DEF ListedPodsFresh
<1>10. PolicyCovered'
  BY <1>4 DEF PolicyCovered
<1>11. QED
  BY <1>7, <1>8, <1>9, <1>10 DEF CoverInv

\* A pod that is taken from the list gets its flow, or has no cached port.
LEMMA CoverFlowsForPod ==
    ASSUME TypeOK, CoverInv, NEW t \in Threads, FlowsForPod(t)
    PROVE  CoverInv'
<1>1. PICK e \in todoPods :
        /\ todoPods' = todoPods \ {e}
        /\ CachedPort(e) \/ FetchedPort(e) \/ NoPort(e)
  BY DEF FlowsForPod
<1>2. e.pod \in Pods /\ e = [pod |-> e.pod, ip |-> e.ip]
  BY DEF TypeOK
<1>3. UNCHANGED <<podStore, cfgStore, polStore, pc, todoPols>> /\ pc[t] = "pods"
  BY DEF FlowsForPod, stores
<1>4. /\ buffer \subseteq buffer'
      /\ \A p \in Pods : p # e.pod => portCache'[p] = portCache[p]
      /\ portCache'[e.pod] # None => podFlow(e.ip, portCache'[e.pod]) \in buffer'
  BY <1>1, <1>2 DEF CachedPort, FetchedPort, NoPort, AddPodFlow, TypeOK
<1>5. SyncFrame /\ InSync(t) /\ InSync(t)' /\ \A u \in Threads : u # t => pc'[u] = pc[u]
  BY <1>3, <1>4 DEF FlowsForPod, SyncFrame, InSync, SyncPcs, stores, events
<1>6. /\ \A f : Installed(f) => Installed(f)'
      /\ Syncing /\ Syncing'
      /\ Pending' <=> Pending
  BY <1>5, SyncFrameKeeps
<1>7. At("pods") /\ At("pods")' /\ ~At("listPods")
  BY <1>3, OnlyHolder DEF At, InSync, SyncPcs
<1>8. CfgCovered'
  BY <1>3, <1>6 DEF CoverInv, CfgCovered, flowsForVSwitch, Flow
<1>9. PodCovered'
  <2> SUFFICES ASSUME NEW p \in Pods, isLocalIP(podStore[p]), portCache'[p] # None, ~Pending,
                      [pod |-> p, ip |-> podStore[p]] \notin todoPods'
               PROVE  podFlow(podStore[p], portCache'[p]) \in buffer'
    BY <1>3, <1>6, <1>7 DEF PodCovered, isLocalIP, Installed, podFlow, Flow
  <2>1. CASE p = e.pod
    <3>1. podStore[p] = e.ip
      BY <2>1, <1>7 DEF CoverInv, ListedPodsFresh
    <3>2. QED
      BY <2>1, <3>1, <1>4
  <2>2. CASE p # e.pod
    <3>1. [pod |-> p, ip |-> podStore[p]] \notin todoPods
      BY <2>2, <1>1, <1>2
    <3>2. portCache'[p] = portCache[p]
      BY <2>2, <1>4
    <3>3. Installed(podFlow(podStore[p], portCache[p]))
      BY <3>1, <3>2, <1>7 DEF CoverInv, PodCovered
    <3>4. podFlow(podStore[p], portCache[p]) \in buffer'
      BY <3>3, <1>4, <1>6 DEF Installed
    <3>5. QED
      BY <3>2, <3>4
  <2>3. QED
    BY <2>1, <2>2
<1>10. ListedPodsFresh'
  BY <1>1, <1>3, <1>6, <1>7 DEF CoverInv, ListedPodsFresh, isLocalIP
<1>11. PolicyCovered'
  BY <1>7 DEF PolicyCovered
<1>12. QED
  BY <1>8, <1>9, <1>10, <1>11 DEF CoverInv

\* The policies are listed as they are now, when no listed pod is left.
LEMMA CoverListPolicies ==
    ASSUME TypeOK, CoverInv, NEW t \in Threads, SyncListPolicies(t)
    PROVE  CoverInv'
<1>1. SyncFrame /\ InSync(t) /\ InSync(t)' /\ \A u \in Threads : u # t => pc'[u] = pc[u]
  BY DEF SyncListPolicies, SyncFrame, InSync, SyncPcs, stores, events, TypeOK
<1>2. /\ pc[t] = "pods" /\ pc'[t] = "pols" /\ todoPods = {} /\ buffer' = buffer
      /\ UNCHANGED <<podStore, cfgStore, polStore, portCache, todoPods>>
  BY DEF SyncListPolicies, stores, TypeOK
<1>3. /\ \A f : Installed(f) => Installed(f)'
      /\ Syncing /\ Syncing'
      /\ Pending' <=> Pending
  BY <1>1, SyncFrameKeeps
<1>4. ~At("listPods")
  BY <1>1, <1>2, OnlyHolder DEF At, InSync, SyncPcs
<1>5. CfgCovered'
  BY <1>2, <1>3 DEF CoverInv, CfgCovered, flowsForVSwitch, Flow
<1>6. PodCovered'
  BY <1>2, <1>3, <1>4 DEF CoverInv, PodCovered, podFlow, Flow, isLocalIP
<1>7. ListedPodsFresh'
  BY <1>2 DEF ListedPodsFresh
<1>8. \A n \in Policies : polStore[n] # Absent => [pol |-> n, spec |-> polStore[n]] \in todoPols'
  BY DEF SyncListPolicies
<1>9. PolicyCovered'
  BY <1>2, <1>3, <1>8 DEF PolicyCovered
<1>10. QED
  BY <1>5, <1>6, <1>7, <1>9 DEF CoverInv

\* A policy taken from the list isolates the local pods it selects now.
LEMMA CoverFlowsForNetworkPolicy ==
    ASSUME TypeOK, CoverInv, NEW t \in Threads, FlowsForNetworkPolicy(t)
    PROVE  CoverInv'
<1>1. PICK e \in todoPols :
        /\ todoPols' = todoPols \ {e}
        /\ buffer' = buffer \cup isolationFlows(localPodIPs(e.spec))
  BY DEF FlowsForNetworkPolicy
<1>2. SyncFrame /\ InSync(t) /\ InSync(t)' /\ \A u \in Threads : u # t => pc'[u] = pc[u]
  BY <1>1 DEF FlowsForNetworkPolicy, SyncFrame, InSync, SyncPcs, stores, events, TypeOK
<1>3. /\ pc[t] = "pols" /\ pc'[t] = "peers"
      /\ UNCHANGED <<podStore, cfgStore, polStore, portCache, todoPods>>
  BY DEF FlowsForNetworkPolicy, stores, TypeOK
<1>4. /\ \A f : Installed(f) => Installed(f)'
      /\ Syncing /\ Syncing'
      /\ Pending' <=> Pending
  BY <1>2, SyncFrameKeeps
<1>5. ~At("listPods") /\ ~At("pods")
  BY <1>2, <1>3, OnlyHolder DEF At, InSync, SyncPcs
<1>6. CfgCovered'
  BY <1>3, <1>4 DEF CoverInv, CfgCovered, flowsForVSwitch, Flow
<1>7. PodCovered'
  BY <1>3, <1>4, <1>5 DEF CoverInv, PodCovered, podFlow, Flow, isLocalIP
<1>8. ~At("pods")'
  BY <1>2, <1>3, <1>5 DEF At
<1>9. ListedPodsFresh'
  BY <1>8 DEF ListedPodsFresh
<1>10. PolicyCovered'
  <2> SUFFICES ASSUME NEW n \in Policies, NEW p \in Pods, polStore[n] # Absent,
                      isLocalIP(podStore[p]), p \in polStore[n].podSelector, ~Pending,
                      [pol |-> n, spec |-> polStore[n]] \notin todoPols'
               PROVE  isolationFlow(podStore[p]) \in buffer'
    BY <1>3, <1>4 DEF PolicyCovered, isLocalIP, Installed, isolationFlow, Flow
  <2>1. CASE e = [pol |-> n, spec |-> polStore[n]]
    <3>1. e.spec = polStore[n]
      BY <2>1
    <3>2. podStore[p] \in localPodIPs(e.spec)
      BY <3>1 DEF localPodIPs, getPodIPs, isLocalIP
    <3>3. QED
      BY <3>2, <1>1 DEF isolationFlows
  <2>2. CASE e # [pol |-> n, spec |-> polStore[n]]
    <3>1. [pol |-> n, spec |-> polStore[n]] \notin todoPols
      BY <2>2, <1>1
    <3>2. Installed(isolationFlow(podStore[p]))
      BY <3>1, <1>5 DEF CoverInv, PolicyCovered
    <3>3. QED
      BY <3>2, <1>1, <1>4 DEF Installed
  <2>3. QED
    BY <2>1, <2>2
<1>11. QED
  BY <1>6, <1>7, <1>9, <1>10 DEF CoverInv

\* Listing the peers only adds flows.
LEMMA CoverFlowsForPeers ==
    ASSUME TypeOK, CoverInv, NEW t \in Threads, FlowsForPeers(t)
    PROVE  CoverInv'
<1>1. SyncFrame /\ InSync(t) /\ InSync(t)' /\ \A u \in Threads : u # t => pc'[u] = pc[u]
  BY DEF FlowsForPeers, SyncFrame, InSync, SyncPcs, stores, events, TypeOK
<1>2. /\ pc[t] = "peers" /\ pc'[t] = "pols"
      /\ UNCHANGED <<podStore, cfgStore, polStore, portCache, todoPods, todoPols>>
  BY DEF FlowsForPeers, stores, TypeOK
<1>3. /\ \A f : Installed(f) => Installed(f)'
      /\ Syncing /\ Syncing'
      /\ Pending' <=> Pending
  BY <1>1, SyncFrameKeeps
<1>4. ~At("listPods") /\ ~At("pods") /\ ~At("pods")'
  BY <1>1, <1>2, OnlyHolder DEF At, InSync, SyncPcs
<1>5. CfgCovered' /\ ListedPodsFresh'
  BY <1>2, <1>3, <1>4 DEF CoverInv, CfgCovered, ListedPodsFresh, flowsForVSwitch, Flow
<1>6. PodCovered'
  BY <1>2, <1>3, <1>4 DEF CoverInv, PodCovered, podFlow, Flow, isLocalIP
<1>7. PolicyCovered'
  BY <1>2, <1>3, <1>4 DEF CoverInv, PolicyCovered, isolationFlow, Flow, isLocalIP
<1>8. QED
  BY <1>5, <1>6, <1>7 DEF CoverInv

\* When the sync ends, its buffer is on the bridge or the command failed.
LEMMA CoverReplace ==
    ASSUME TypeOK, CoverInv, NEW t \in Threads, SyncReplace(t)
    PROVE  CoverInv'
<1>1. /\ pc[t] = "pols" /\ InSync(t) /\ todoPols = {}
      /\ UNCHANGED <<podStore, cfgStore, polStore, portCache, podEvents, cfgEvents, polEvents>>
      /\ pc' = [pc EXCEPT ![t] = "idle"]
  BY DEF SyncReplace, stores, events, InSync, SyncPcs
<1>2. \A u \in Threads : ~InSync(u)'
  BY <1>1, OnlyHolder DEF InSync, SyncPcs, TypeOK
<1>3. Syncing /\ ~Syncing' /\ ~At("pods")' /\ ~At("pods") /\ ~At("listPods")
  BY <1>1, <1>2, OnlyHolder DEF Syncing, At, InSync, SyncPcs
<1>4. Pending => Pending'
  BY <1>1 DEF Pending, PodTrigger, CfgTrigger, TypeOK
<1>5. \A f \in buffer : f \in bridge' \/ syncErr'
  BY DEF SyncReplace
<1>6. \A f : Installed(f) => Installed(f)'
  BY <1>3, <1>5 DEF Installed
<1>7. CfgCovered' /\ ListedPodsFresh'
  BY <1>1, <1>3, <1>4, <1>6 DEF CoverInv, CfgCovered, ListedPodsFresh, flowsForVSwitch, Flow
<1>8. PodCovered'
  BY <1>1, <1>3, <1>4, <1>6 DEF CoverInv, PodCovered, podFlow, Flow, isLocalIP
<1>9. PolicyCovered'
  BY <1>1, <1>3, <1>4, <1>6 DEF CoverInv, PolicyCovered, isolationFlow, Flow, isLocalIP
<1>10. QED
  BY <1>7, <1>8, <1>9 DEF CoverInv

\* After a restart the caches are empty again.
LEMMA CoverRestart == Restart => CoverInv'
BY DEF Restart, CoverInv, CfgCovered, PodCovered, ListedPodsFresh, PolicyCovered, At, isLocalIP

\* A stuttering step changes nothing.
LEMMA CoverStutter == CoverInv /\ UNCHANGED vars => CoverInv'
<1> SUFFICES ASSUME CoverInv, UNCHANGED vars PROVE CoverInv'
  OBVIOUS
<1>1. UNCHANGED <<podEvents, cfgEvents, polEvents, pc, buffer, bridge, syncErr, portCache,
                  podStore, cfgStore, polStore, todoPods, todoPols>>
  BY DEF vars, stores, events, sync, locals
<1>2. Pending' <=> Pending
  BY <1>1, PendingFrame
<1>3. /\ \A f : Installed(f)' <=> Installed(f)
      /\ Syncing' <=> Syncing
      /\ At("listPods")' <=> At("listPods")
      /\ At("pods")' <=> At("pods")
  BY <1>1, InstalledFrame
<1>4. QED
  BY <1>1, <1>2, <1>3 DEF CoverInv, CfgCovered, PodCovered, ListedPodsFresh, PolicyCovered,
     flowsForVSwitch, Flow, podFlow, isolationFlow, isLocalIP

\* The invariant is inductive.
LEMMA CoverNext == TypeOK /\ CoverInv /\ [Next]_vars => CoverInv'
<1> SUFFICES ASSUME TypeOK, CoverInv, [Next]_vars PROVE CoverInv'
  OBVIOUS
<1>1. ASSUME NEW t \in Threads, SyncStep(t) PROVE CoverInv'
  BY <1>1, CoverListPods, CoverFlowsForPod, CoverListPolicies, CoverFlowsForNetworkPolicy,
     CoverFlowsForPeers, CoverReplace DEF SyncStep
<1>2. QED
  BY <1>1, CoverEnvironment, CoverDeliver, CoverHandlers, CoverSyncBegin, CoverRestart,
     CoverStutter DEF Next

\* The invariant holds in every state of every behaviour.
LEMMA CoverHolds == Spec => []CoverInv
BY CoverInit, CoverNext, TypeCorrect, PTL DEF Spec

\* The present spec of every VSwitchConfig in the cache is installed, being installed, or
\* certain to be synced again (flows.go:54-112, 693-710).
THEOREM CfgCorrect == Spec => []CfgCovered
BY CoverHolds, PTL DEF CoverInv

\* So is the flow of every local pod with a cached port (flows.go:80-89, 238-286, 712-763).
THEOREM PodCorrect == Spec => []PodCovered
BY CoverHolds, PTL DEF CoverInv

\* No sync works on a pod's old address unless a later one is certain to come
\* (flows.go:80-89).
THEOREM ListedCorrect == Spec => []ListedPodsFresh
BY CoverHolds, PTL DEF CoverInv

\* A local pod selected by a policy in the cache never stays open (flows.go:80-103,
\* 288-331, 712-789).
THEOREM PolicyCorrect == Spec => []PolicyCovered
BY CoverHolds, PTL DEF CoverInv
=============================================================================
