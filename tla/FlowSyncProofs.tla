--------------------------- MODULE FlowSyncProofs ---------------------------
(***************************************************************************)
(* Proofs about FlowSync for any set of pods, configs and policies, any    *)
(* number of changes, faults and restarts.                                 *)
(***************************************************************************)
EXTENDS FlowSync, TLAPS

USE FlowSyncAssumption DEF IPs, Threads, PodState

\* What an informer announces is one of the three object events.
LEMMA EventTypeOK ==
    \A old, new : EventType(old, new) \in ObjEvent
BY DEF EventType, ObjEvent

\* What is left of a queue after its head is taken.
LEMMA TailOK ==
    ASSUME NEW S, NEW s \in Seq(S), s # <<>>
    PROVE  Head(s) \in S /\ Tail(s) \in Seq(S)
OBVIOUS

\* The initial state is well typed and nobody holds flowsLock.
LEMMA TypeInit == Init => TypeOK
<1> SUFFICES ASSUME Init PROVE TypeOK
  OBVIOUS
<1>1. /\ apiPods \in [Pods -> PodState] /\ podStore \in [Pods -> PodState]
      /\ apiCfgs \in [Configs -> ConfigSpecs \cup {Absent}]
      /\ cfgStore \in [Configs -> ConfigSpecs \cup {Absent}]
      /\ apiPols \in [Policies -> PolicySpecs \cup {Absent}]
      /\ polStore \in [Policies -> PolicySpecs \cup {Absent}]
  BY DEF Init
<1>2. podEvents \in Seq(PodEvent) /\ cfgEvents \in Seq(ObjEvent) /\ polEvents \in Seq(ObjEvent)
  BY DEF Init
<1>3. ovsPorts \in [Pods -> SUBSET Nat] /\ portCache \in [Pods -> Nat \cup {None}]
  BY DEF Init
<1>4. \A t \in Threads : InSync(t) <=> flowsLock = t
  BY DEF Init, InSync, SyncPcs
<1>5. /\ pc \in [Threads -> {"idle", "lock"} \cup SyncPcs]
      /\ rule \in [ips : SUBSET LocalIPs, from : SUBSET Pods]
  BY DEF Init, SyncPcs, NoRule
<1>6. bridge \subseteq Flows /\ buffer \subseteq Flows /\ flowsLock \in Threads \cup {None}
  BY DEF Init
<1>7. /\ todoPods \subseteq [pod : Pods, ip : LocalIPs]
      /\ todoPols \subseteq [pol : Policies, spec : PolicySpecs]
  BY DEF Init
<1>8. changes \in Nat /\ nextPort \in Nat /\ faults \in Nat /\ restarts \in Nat
  BY DEF Init
<1>9. syncErr \in BOOLEAN
  BY Zenon DEF Init
<1>10. QED
  BY <1>1, <1>2, <1>3, <1>4, <1>5, <1>6, <1>7, <1>8, <1>9 DEF TypeOK

\* The cluster and the CNI plugin keep every type.
LEMMA TypeEnvironment == TypeOK /\ Environment => TypeOK'
<1> SUFFICES ASSUME TypeOK, Environment PROVE TypeOK'
  OBVIOUS
<1> USE DEF TypeOK, InSync, SyncPcs, stores, events, sync, locals, bounds
<1>1. ASSUME NEW p \in Pods, AddPort(p) PROVE TypeOK'
  BY <1>1 DEF AddPort, api
<1>2. ASSUME NEW p \in Pods, DelPort(p) PROVE TypeOK'
  BY <1>2 DEF DelPort, api
<1>3. ASSUME NEW p \in Pods, NEW v \in PodState, ChangePod(p, v) PROVE TypeOK'
  BY <1>3 DEF ChangePod, Change
<1>4. ASSUME NEW c \in Configs, NEW v \in ConfigSpecs \cup {Absent}, ChangeConfig(c, v) PROVE TypeOK'
  BY <1>4 DEF ChangeConfig, Change
<1>5. ASSUME NEW n \in Policies, NEW v \in PolicySpecs \cup {Absent}, ChangePolicy(n, v) PROVE TypeOK'
  BY <1>5 DEF ChangePolicy, Change
<1>6. QED
  BY <1>1, <1>2, <1>3, <1>4, <1>5 DEF Environment

\* A delivery keeps every type: notifications are well formed.
LEMMA TypeDeliver == TypeOK /\ Deliver => TypeOK'
<1> SUFFICES ASSUME TypeOK, Deliver PROVE TypeOK'
  OBVIOUS
<1> USE DEF TypeOK, InSync, SyncPcs, api, sync, locals, bounds
<1>1. ASSUME NEW p \in Pods, DeliverPod(p) PROVE TypeOK'
  <2>1. PICK type \in ObjEvent \cup {"tombstone"} :
          podEvents' = Append(podEvents, [type |-> type, pod |-> p, ip |-> apiPods[p]])
    BY <1>1, EventTypeOK DEF DeliverPod
  <2>2. podEvents' \in Seq(PodEvent)
    BY <2>1 DEF PodEvent, ObjEvent
  <2>3. podStore' \in [Pods -> PodState]
    BY <1>1 DEF DeliverPod
  <2>4. QED
    BY <1>1, <2>2, <2>3 DEF DeliverPod
<1>2. ASSUME NEW c \in Configs, DeliverConfig(c) PROVE TypeOK'
  <2>1. cfgEvents' \in Seq(ObjEvent)
    BY <1>2, EventTypeOK DEF DeliverConfig
  <2>2. cfgStore' \in [Configs -> ConfigSpecs \cup {Absent}]
    BY <1>2 DEF DeliverConfig
  <2>3. QED
    BY <1>2, <2>1, <2>2 DEF DeliverConfig
<1>3. ASSUME NEW n \in Policies, DeliverPolicy(n) PROVE TypeOK'
  <2>1. polEvents' \in Seq(ObjEvent)
    BY <1>3, EventTypeOK DEF DeliverPolicy
  <2>2. polStore' \in [Policies -> PolicySpecs \cup {Absent}]
    BY <1>3 DEF DeliverPolicy
  <2>3. QED
    BY <1>3, <2>1, <2>2 DEF DeliverPolicy
<1>4. QED
  BY <1>1, <1>2, <1>3 DEF Deliver

\* A handler keeps every type: it only queues for the lock.
LEMMA TypeHandlers ==
    TypeOK /\ (VSwitchHandler \/ PodHandler \/ PolicyHandler \/ FullResync) => TypeOK'
<1> SUFFICES ASSUME TypeOK, VSwitchHandler \/ PodHandler \/ PolicyHandler \/ FullResync
             PROVE  TypeOK'
  OBVIOUS
<1> USE DEF TypeOK, InSync, SyncPcs, api, stores, locals, bounds, CallSyncFlows
<1>1. CASE VSwitchHandler
  <2>0. cfgEvents \in Seq(ObjEvent) /\ cfgEvents # <<>> /\ cfgEvents' = Tail(cfgEvents)
    BY <1>1 DEF VSwitchHandler, OnAddVSwitch, OnUpdateVSwitch, OnDeleteVSwitch, DropVSwitchEvent
  <2>1. cfgEvents' \in Seq(ObjEvent)
    BY <2>0, TailOK
  <2>2. QED
    BY <1>1, <2>1 DEF VSwitchHandler, OnAddVSwitch, OnUpdateVSwitch, OnDeleteVSwitch, DropVSwitchEvent
<1>2. CASE PodHandler
  <2>0. podEvents \in Seq(PodEvent) /\ podEvents # <<>> /\ podEvents' = Tail(podEvents)
    BY <1>2 DEF PodHandler, OnAddPod, OnUpdatePod, OnDeletePod, PodChanged, DropPodEvent
  <2>1. podEvents' \in Seq(PodEvent)
    BY <2>0, TailOK
  <2>2. portCache' \in [Pods -> Nat \cup {None}]
    BY <1>2 DEF PodHandler, OnAddPod, OnUpdatePod, OnDeletePod, PodChanged, DropPodEvent
  <2>3. /\ pc' \in [Threads -> {"idle", "lock"} \cup SyncPcs]
        /\ \A t \in Threads : InSync(t)' <=> flowsLock' = t
    BY <1>2 DEF PodHandler, OnAddPod, OnUpdatePod, OnDeletePod, PodChanged, DropPodEvent
  <2>4. QED
    BY <1>2, <2>1, <2>2, <2>3
    DEF PodHandler, OnAddPod, OnUpdatePod, OnDeletePod, PodChanged, DropPodEvent
<1>3. CASE PolicyHandler
  <2>0. polEvents \in Seq(ObjEvent) /\ polEvents # <<>> /\ polEvents' = Tail(polEvents)
    BY <1>3 DEF PolicyHandler, OnAddNetworkPolicy, OnUpdateNetworkPolicy, OnDeleteNetworkPolicy,
                PolicyChanged
  <2>1. polEvents' \in Seq(ObjEvent)
    BY <2>0, TailOK
  <2>2. QED
    BY <1>3, <2>1 DEF PolicyHandler, OnAddNetworkPolicy, OnUpdateNetworkPolicy,
                      OnDeleteNetworkPolicy, PolicyChanged
<1>4. CASE FullResync
  BY <1>4 DEF FullResync, events
<1>5. QED
  BY <1>1, <1>2, <1>3, <1>4

\* The steps of syncFlows keep every type, and mutual exclusion: the holder of flowsLock
\* is exactly the goroutine inside syncFlows.
LEMMA TypeSync ==
    ASSUME TypeOK, NEW t \in Threads, SyncBegin(t) \/ SyncStep(t)
    PROVE  TypeOK'
<1> USE DEF TypeOK, InSync, SyncPcs, api, stores, events, locals, bounds
<1>1. CASE SyncBegin(t)
  <2>1. buffer' \subseteq Flows
    <3>1. Flow("default", None, None) \in Flows
      BY DEF Flow, Flows
    <3>2. \A c \in Configs : cfgStore[c] # Absent => Flow("vswitch", c, cfgStore[c]) \in Flows
      BY DEF Flow, Flows
    <3>3. QED
      BY <1>1, <3>1, <3>2 DEF SyncBegin, defaultFlows, flowsForVSwitch
  <2>2. QED
    BY <1>1, <2>1 DEF SyncBegin
<1>2. CASE SyncListPods(t)
  <2>1. todoPods' \subseteq [pod : Pods, ip : LocalIPs]
    BY <1>2 DEF SyncListPods, isLocalIP
  <2>2. QED
    BY <1>2, <2>1 DEF SyncListPods
<1>3. CASE FlowsForPod(t)
  <2>1. PICK e \in todoPods :
          /\ todoPods' = todoPods \ {e}
          /\ CachedPort(e) \/ FetchedPort(e) \/ NoPort(e)
    BY <1>3 DEF FlowsForPod
  <2>2. e.pod \in Pods /\ e.ip \in LocalIPs
    OBVIOUS
  <2>3. \A ofport \in Nat : podFlow(e.ip, ofport) \in Flows
    BY <2>2 DEF podFlow, Flow, Flows
  <2>4. buffer' \subseteq Flows /\ portCache' \in [Pods -> Nat \cup {None}] /\ faults' \in Nat
    <3>1. CASE CachedPort(e)
      BY <3>1, <2>2, <2>3 DEF CachedPort, AddPodFlow
    <3>2. CASE FetchedPort(e)
      <4>1. PICK ofport \in ovsPorts[e.pod] :
              portCache' = [portCache EXCEPT ![e.pod] = ofport] /\ AddPodFlow(e, ofport)
        BY <3>2 DEF FetchedPort
      <4>2. ofport \in Nat
        BY <2>2, <4>1
      <4>3. QED
        BY <3>2, <4>1, <4>2, <2>3 DEF FetchedPort, AddPodFlow
    <3>3. CASE NoPort(e)
      BY <3>3 DEF NoPort
    <3>4. QED
      BY <2>1, <3>1, <3>2, <3>3
  <2>5. QED
    BY <1>3, <2>1, <2>4 DEF FlowsForPod
<1>4. CASE SyncListPolicies(t)
  <2>1. todoPols' \subseteq [pol : Policies, spec : PolicySpecs]
    BY <1>4 DEF SyncListPolicies
  <2>2. QED
    BY <1>4, <2>1 DEF SyncListPolicies
<1>5. CASE FlowsForNetworkPolicy(t)
  <2>1. PICK e \in todoPols :
          /\ todoPols' = todoPols \ {e}
          /\ buffer' = buffer \cup isolationFlows(localPodIPs(e.spec))
          /\ rule' = [ips |-> localPodIPs(e.spec), from |-> e.spec.from]
    BY <1>5 DEF FlowsForNetworkPolicy
  <2>2. e.spec.from \subseteq Pods
    OBVIOUS
  <2>3. localPodIPs(e.spec) \subseteq LocalIPs
    BY DEF localPodIPs, isLocalIP
  <2>4. isolationFlows(localPodIPs(e.spec)) \subseteq Flows
    BY <2>3 DEF isolationFlows, isolationFlow, Flow, Flows
  <2>5. QED
    BY <1>5, <2>1, <2>2, <2>3, <2>4 DEF FlowsForNetworkPolicy
<1>6. CASE FlowsForPeers(t)
  <2>1. getPodIPs(rule.from) \subseteq IPs
    BY DEF getPodIPs
  <2>2. allowFlows(rule.ips, getPodIPs(rule.from)) \subseteq Flows
    BY <2>1 DEF allowFlows, allowFlow, Flow, Flows
  <2>3. rule' \in [ips : SUBSET LocalIPs, from : SUBSET Pods]
    BY <1>6 DEF FlowsForPeers, NoRule
  <2>4. QED
    BY <1>6, <2>2, <2>3 DEF FlowsForPeers
<1>7. CASE SyncReplace(t)
  <2>1. bridge' \subseteq Flows
    BY <1>7 DEF SyncReplace
  <2>2. syncErr' \in BOOLEAN
    BY <1>7, Zenon DEF SyncReplace
  <2>3. QED
    BY <1>7, <2>1, <2>2 DEF SyncReplace
<1>8. QED
  BY <1>1, <1>2, <1>3, <1>4, <1>5, <1>6, <1>7 DEF SyncStep

\* A restart keeps every type.
LEMMA TypeRestart == TypeOK /\ Restart => TypeOK'
<1> SUFFICES ASSUME TypeOK, Restart PROVE TypeOK'
  OBVIOUS
<1>1. /\ podStore' \in [Pods -> PodState]
      /\ cfgStore' \in [Configs -> ConfigSpecs \cup {Absent}]
      /\ polStore' \in [Policies -> PolicySpecs \cup {Absent}]
      /\ portCache' \in [Pods -> Nat \cup {None}]
  BY DEF Restart
<1>2. podEvents' \in Seq(PodEvent) /\ cfgEvents' \in Seq(ObjEvent) /\ polEvents' \in Seq(ObjEvent)
  BY DEF Restart
<1>3. /\ \A t \in Threads : InSync(t)' <=> flowsLock' = t
      /\ flowsLock' \in Threads \cup {None}
      /\ pc' \in [Threads -> {"idle", "lock"} \cup SyncPcs]
  BY DEF Restart, InSync, SyncPcs
<1>4. /\ todoPods' \subseteq [pod : Pods, ip : LocalIPs]
      /\ todoPols' \subseteq [pol : Policies, spec : PolicySpecs]
      /\ rule' \in [ips : SUBSET LocalIPs, from : SUBSET Pods]
      /\ buffer' \subseteq Flows /\ bridge' \subseteq Flows
  BY DEF Restart, TypeOK, NoRule
<1>5. syncErr' \in BOOLEAN
  BY Zenon DEF Restart
<1>6. changes' \in Nat /\ nextPort' \in Nat /\ faults' \in Nat /\ restarts' \in Nat
  BY DEF Restart, TypeOK
<1>7. QED
  BY <1>1, <1>2, <1>3, <1>4, <1>5, <1>6 DEF Restart, TypeOK, api

\* Every step keeps every type.
LEMMA TypeNext == TypeOK /\ [Next]_vars => TypeOK'
<1> SUFFICES ASSUME TypeOK, [Next]_vars PROVE TypeOK'
  OBVIOUS
<1>1. CASE Next
  BY <1>1, TypeEnvironment, TypeDeliver, TypeHandlers, TypeSync, TypeRestart DEF Next
<1>2. CASE UNCHANGED vars
  BY <1>2 DEF vars, api, stores, events, sync, locals, bounds, TypeOK, InSync
<1>3. QED
  BY <1>1, <1>2

\* The controller keeps its types and two syncs never run at once, for every set of
\* objects and any number of changes, faults and restarts (flows.go:54-112).
THEOREM TypeCorrect == Spec => []TypeOK
BY TypeInit, TypeNext, PTL DEF Spec
=============================================================================
