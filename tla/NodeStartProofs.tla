-------------------------- MODULE NodeStartProofs ---------------------------
(***************************************************************************)
(* Proofs about NodeStart, for any nodes, node contents, flags and bounds. *)
(*                                                                         *)
(* The composition leaves the controller's behaviours as they are, so what *)
(* VSwitchCfgProofs proves of the controller holds beside its agents.  The *)
(* host is as it should be because each step of main leaves its mark, no   *)
(* later step takes it away, and the next step is only reached through it. *)
(* A pod CIDR is followed from the node through the events, the handler    *)
(* and the VSwitchConfig into the agent: every copy of it anywhere on the  *)
(* way was once assigned to a node of that name.                           *)
(***************************************************************************)
EXTENDS NodeStart, VSwitchCfgProofs

USE NodeStartAssumption

-----------------------------------------------------------------------------
(* The inductive invariant *)

HostState ==
    [bridge : BOOLEAN, clusterWide : BOOLEAN, overlay : Strings, controller : BOOLEAN,
     secure : BOOLEAN, addrs : SUBSET Strings, routes : SUBSET Strings, forward : BOOLEAN,
     rules : SUBSET ({"accept", "from", "notTo"} \X Strings)]

\* The mark a step of main leaves on the host.
Has(step, h, spec) ==
    /\ step = "bridge" => h.bridge
    /\ step = "clusterWidePort" => h.clusterWide
    /\ step = "overlayPort" => h.overlay = spec.overlayType
    /\ step = "addr" => spec.podCIDR \in h.addrs
    /\ step = "route" => spec.clusterCIDR \in h.routes
    /\ step = "controllerTarget" => h.controller
    /\ step = "failMode" => h.secure
    /\ step = "sysctls" => h.forward
    /\ step = "forwarding" => forwardingRules(spec) \subseteq h.rules

Early == {"off", "installCNIConf", "wait"}
Late  == {"newController", "running"}

\* An agent that is at step a has the set-up's step i behind it.
Behind(a, i) == a \in Late \/ \E j \in DOMAIN Setup : i < j /\ a = Setup[j]

\* Past the wait main has its VSwitchConfig, and every step behind it left its mark.
SetupInv ==
    \A n \in Nodes :
        /\ host[n] \in HostState
        /\ agent[n] \notin Early => own[n] \in ConfigSpec
        /\ \A i \in DOMAIN Setup : Behind(agent[n], i) => Has(Setup[i], host[n], own[n])

\* The pod CIDR of this node, if it has one, was assigned to a node of the name n.
From(n, node) == node = None \/ node.podCIDR \in cidrs[n] \cup {None}

NodesAssigned   == \A n \in Nodes : From(n, nodes[n])
EventsAssigned  == \A n \in Nodes : \A i \in DOMAIN events[n] : From(n, events[n][i].node)
HandlerAssigned == pc = "sync" => From(cur.name, cur.node)
ConfigsAssigned == \A n \in Nodes : cfgs[n] # None => cfgs[n].spec.podCIDR \in cidrs[n]

CtlAssigned == NodesAssigned /\ EventsAssigned /\ HandlerAssigned /\ ConfigsAssigned

\* What main has read by now was assigned.
AgentAssigned ==
    \A n \in Nodes :
        /\ agent[n] # "off" => nodeCIDR[n] \in cidrs[n]
        /\ agent[n] \notin {"off", "installCNIConf"} => cniConf[n] \in cidrs[n]
        /\ agent[n] \notin Early => own[n].podCIDR \in cidrs[n]

HostType == host \in [Nodes -> HostState]

SysInv == TypeInv /\ AgentTypeOK /\ HostType /\ SetupInv /\ CtlAssigned /\ AgentAssigned

-----------------------------------------------------------------------------
(* The steps of main *)

LEMMA SetupNames ==
    /\ DOMAIN Setup = 1..9 /\ Len(Setup) = 9
    /\ Setup[1] = "bridge" /\ Setup[2] = "clusterWidePort" /\ Setup[3] = "overlayPort"
    /\ Setup[4] = "addr" /\ Setup[5] = "route" /\ Setup[6] = "controllerTarget"
    /\ Setup[7] = "failMode" /\ Setup[8] = "sysctls" /\ Setup[9] = "forwarding"
BY DEF Setup

\* No name of a step is that of another or of a state outside the set-up.
LEMMA SetupDistinct ==
    ASSUME NEW i \in DOMAIN Setup
    PROVE  /\ Setup[i] \notin Early \cup Late
           /\ \A j \in DOMAIN Setup : Setup[i] = Setup[j] => i = j
<1>1. i \in 1..9
  BY SetupNames
<1>2. i = 1 \/ i = 2 \/ i = 3 \/ i = 4 \/ i = 5 \/ i = 6 \/ i = 7 \/ i = 8 \/ i = 9
  BY <1>1
<1>3. Setup[i] \notin Early \cup Late
  BY <1>2, SetupNames DEF Early, Late
<1>4. ASSUME NEW j \in DOMAIN Setup, Setup[i] = Setup[j] PROVE i = j
  <2>1. j \in 1..9
    BY SetupNames
  <2>2. j = 1 \/ j = 2 \/ j = 3 \/ j = 4 \/ j = 5 \/ j = 6 \/ j = 7 \/ j = 8 \/ j = 9
    BY <2>1
  <2>3. QED
    BY <1>2, <1>4, <2>2, SetupNames
<1>5. QED
  BY <1>3, <1>4

\* A step's effect is its mark; it takes no other step's mark away.
LEMMA AfterHas ==
    ASSUME NEW h \in HostState, NEW spec \in ConfigSpec, NEW i \in DOMAIN Setup
    PROVE  /\ After(Setup[i], h, spec) \in HostState
           /\ Has(Setup[i], After(Setup[i], h, spec), spec)
           /\ \A s : Has(s, h, spec) => Has(s, After(Setup[i], h, spec), spec)
<1> DEFINE new == After(Setup[i], h, spec)
<1>1. /\ spec.overlayType \in Strings /\ spec.podCIDR \in Strings /\ spec.clusterCIDR \in Strings
      /\ spec.serviceCIDR \in Strings /\ None \in Strings
  BY DEF ConfigSpec, Strings
<1>2. forwardingRules(spec) \in SUBSET ({"accept", "from", "notTo"} \X Strings)
  BY <1>1 DEF forwardingRules
<1>3. i = 1 \/ i = 2 \/ i = 3 \/ i = 4 \/ i = 5 \/ i = 6 \/ i = 7 \/ i = 8 \/ i = 9
  BY SetupNames
<1>4. CASE i = 1
  <2>1. Setup[i] = "bridge" /\ new = [h EXCEPT !.bridge = TRUE]
    BY <1>4, SetupNames DEF After, setupOVSBridgeIfNotExists
  <2>2. QED
    BY <2>1 DEF Has, HostState
<1>5. CASE i = 2
  <2>1. Setup[i] = "clusterWidePort" /\ new = [h EXCEPT !.clusterWide = TRUE]
    BY <1>5, SetupNames DEF After, setupClusterWideInternalPort
  <2>2. QED
    BY <2>1 DEF Has, HostState
<1>6. CASE i = 3
  <2>1. Setup[i] = "overlayPort" /\ new = [h EXCEPT !.overlay = spec.overlayType]
    BY <1>6, SetupNames DEF After, setupOverlayPort
  <2>2. QED
    BY <1>1, <2>1 DEF Has, HostState
<1>7. CASE i = 4
  <2>1. Setup[i] = "addr" /\ new = [h EXCEPT !.addrs = h.addrs \cup {spec.podCIDR}]
    BY <1>7, SetupNames DEF After, netlinkAddrForLocal
  <2>2. QED
    BY <1>1, <2>1 DEF Has, HostState
<1>8. CASE i = 5
  <2>1. Setup[i] = "route" /\ new = [h EXCEPT !.routes = h.routes \cup {spec.clusterCIDR}]
    BY <1>8, SetupNames DEF After, netlinkRouteForCluster
  <2>2. QED
    BY <1>1, <2>1 DEF Has, HostState
<1>9. CASE i = 6
  <2>1. Setup[i] = "controllerTarget" /\ new = [h EXCEPT !.controller = TRUE]
    BY <1>9, SetupNames DEF After, setControllerTarget
  <2>2. QED
    BY <2>1 DEF Has, HostState
<1>10. CASE i = 7
  <2>1. Setup[i] = "failMode" /\ new = [h EXCEPT !.secure = TRUE]
    BY <1>10, SetupNames DEF After, setSecureFailMode
  <2>2. QED
    BY <2>1 DEF Has, HostState
<1>11. CASE i = 8
  <2>1. Setup[i] = "sysctls" /\ new = [h EXCEPT !.forward = TRUE]
    BY <1>11, SetupNames DEF After, setupModulesAndSysctls
  <2>2. QED
    BY <2>1 DEF Has, HostState
<1>12. CASE i = 9
  <2>1. Setup[i] = "forwarding" /\ new = [h EXCEPT !.rules = h.rules \cup forwardingRules(spec)]
    BY <1>12, SetupNames DEF After, setupBridgeForwarding
  <2>2. QED
    BY <1>2, <2>1 DEF Has, HostState
<1>13. QED
  BY <1>3, <1>4, <1>5, <1>6, <1>7, <1>8, <1>9, <1>10, <1>11, <1>12

\* The step a successful step leads to has that step, and those before it, behind it.
LEMMA NextBehind ==
    ASSUME NEW i \in DOMAIN Setup, NEW k \in DOMAIN Setup,
           Behind(IF i = Len(Setup) THEN "newController" ELSE Setup[i + 1], k)
    PROVE  k = i \/ Behind(Setup[i], k)
<1>1. i \in 1..9 /\ k \in 1..9 /\ Len(Setup) = 9 /\ DOMAIN Setup = 1..9
  BY SetupNames
<1>2. CASE i = 9
  <2>1. k = 9 \/ k < 9
    BY <1>1
  <2>2. QED
    BY <1>1, <1>2, <2>1 DEF Behind
<1>3. CASE i # 9
  <2>1. i + 1 \in DOMAIN Setup /\ Setup[i + 1] \notin Late
    BY <1>1, <1>3, SetupDistinct
  <2>2. PICK j \in DOMAIN Setup : k < j /\ Setup[i + 1] = Setup[j]
    BY <1>1, <1>3, <2>1 DEF Behind
  <2>3. j = i + 1
    BY <2>1, <2>2, SetupDistinct
  <2>4. k = i \/ k < i
    BY <1>1, <2>2, <2>3
  <2>5. QED
    BY <1>1, <2>4 DEF Behind
<1>4. QED
  BY <1>2, <1>3

-----------------------------------------------------------------------------
(* The composition *)

\* A step of the system is one of the controller and the cluster, or leaves them alone.
LEMMA StepOfController == [SysNext]_sysVars => [Next]_vars
BY DEF SysNext, sysVars

-----------------------------------------------------------------------------
(* Types of the agents *)

AgentSteps == {"off", "installCNIConf", "wait", "newController", "running"}
                  \cup {Setup[i] : i \in DOMAIN Setup}

LEMMA AgentTypeInit == SysInit => AgentTypeOK
BY DEF SysInit, AgentTypeOK

\* The end of the process.
LEMMA OffType ==
    ASSUME AgentTypeOK, NEW n \in Nodes, Off(n), exits' \in 0..MaxExits,
           cniConf' = cniConf \/ cniConf' = [cniConf EXCEPT ![n] = None]
    PROVE  AgentTypeOK'
<1>1. /\ agent' = [agent EXCEPT ![n] = "off"] /\ nodeCIDR' = [nodeCIDR EXCEPT ![n] = None]
      /\ own' = [own EXCEPT ![n] = None] /\ polls' = [polls EXCEPT ![n] = 0]
  BY DEF Off, Goto
<1>2. agent' \in [Nodes -> AgentSteps] /\ polls' \in [Nodes -> 0..MaxPolls]
  BY <1>1 DEF AgentTypeOK, AgentSteps
<1>3. /\ nodeCIDR' \in [Nodes -> CIDRs \cup {None}] /\ cniConf' \in [Nodes -> CIDRs \cup {None}]
      /\ own' \in [Nodes -> ConfigSpec \cup {None}]
  BY <1>1 DEF AgentTypeOK
<1>4. /\ \A m \in Nodes : agent'[m] # "off" <=> nodeCIDR'[m] # None
      /\ \A m \in Nodes : agent'[m] \notin Early => own'[m] \in ConfigSpec
  BY <1>1 DEF AgentTypeOK, Early
<1>5. QED
  BY <1>2, <1>3, <1>4 DEF AgentTypeOK, AgentSteps, Early

LEMMA FailType ==
    ASSUME AgentTypeOK, NEW n \in Nodes, Fail(n),
           cniConf' = cniConf \/ cniConf' = [cniConf EXCEPT ![n] = None]
    PROVE  AgentTypeOK'
<1>1. exits' \in 0..MaxExits
  BY DEF Fail, AgentTypeOK
<1>2. QED
  BY <1>1, OffType DEF Fail

\* A step that goes on, with what main has read until then.
LEMMA OnType ==
    ASSUME AgentTypeOK, NEW n \in Nodes, NEW s \in AgentSteps \ {"off"}, agent[n] # "off",
           Goto(n, s), UNCHANGED <<nodeCIDR, exits>>,
           cniConf' \in [Nodes -> CIDRs \cup {None}], polls' \in [Nodes -> 0..MaxPolls],
           own' \in [Nodes -> ConfigSpec \cup {None}],
           s \notin Early => own'[n] \in ConfigSpec, \A m \in Nodes \ {n} : own'[m] = own[m]
    PROVE  AgentTypeOK'
<1>1. agent' = [agent EXCEPT ![n] = s] /\ agent' \in [Nodes -> AgentSteps]
  BY DEF Goto, AgentTypeOK, AgentSteps
<1>2. \A m \in Nodes : agent'[m] # "off" <=> nodeCIDR'[m] # None
  BY <1>1 DEF AgentTypeOK
<1>3. \A m \in Nodes : agent'[m] \notin Early => own'[m] \in ConfigSpec
  BY <1>1 DEF AgentTypeOK, Early
<1>4. QED
  BY <1>1, <1>2, <1>3 DEF AgentTypeOK, AgentSteps, Early

LEMMA AgentTypeStep ==
    ASSUME TypeOK, AgentTypeOK, NEW n \in Nodes, AgentStep(n) \/ Stop(n) \/ Evict(n)
    PROVE  AgentTypeOK'
<1>1. CASE Start(n)
  <2>1. nodes[n] \in NodeSpecs /\ nodes[n].podCIDR \in CIDRs \ {None}
    BY <1>1 DEF Start, TypeOK, CIDRs
  <2>2. /\ agent' = [agent EXCEPT ![n] = "installCNIConf"]
        /\ nodeCIDR' = [nodeCIDR EXCEPT ![n] = nodes[n].podCIDR]
    BY <1>1 DEF Start, Goto
  <2>3. agent' \in [Nodes -> AgentSteps] /\ nodeCIDR' \in [Nodes -> CIDRs \cup {None}]
    BY <2>1, <2>2 DEF AgentTypeOK, AgentSteps
  <2>4. \A m \in Nodes : agent'[m] # "off" <=> nodeCIDR'[m] # None
    BY <2>1, <2>2 DEF AgentTypeOK
  <2>5. \A m \in Nodes : agent'[m] \notin Early => own'[m] \in ConfigSpec
    BY <1>1, <2>2 DEF Start, AgentTypeOK, Early
  <2>6. QED
    BY <1>1, <2>3, <2>4, <2>5 DEF Start, AgentTypeOK, AgentSteps, Early
<1>2. CASE installCNIConf(n)
  <2>1. CASE Goto(n, "wait") /\ cniConf' = [cniConf EXCEPT ![n] = nodeCIDR[n]]
             /\ UNCHANGED <<nodeCIDR, polls, own, exits>>
    <3>1. cniConf' \in [Nodes -> CIDRs \cup {None}]
      BY <2>1 DEF AgentTypeOK
    <3>2. /\ polls' \in [Nodes -> 0..MaxPolls] /\ own' \in [Nodes -> ConfigSpec \cup {None}]
          /\ agent[n] # "off"
      BY <1>2, <2>1 DEF AgentTypeOK, installCNIConf
    <3>3. QED
      BY <2>1, <3>1, <3>2, OnType DEF AgentSteps, Early
  <2>2. QED
    BY <1>2, <2>1, FailType DEF installCNIConf
<1>3. CASE waitForVSwitchConfig(n)
  <2>1. agent[n] = "wait" /\ cniConf' = cniConf
    BY <1>3 DEF waitForVSwitchConfig
  <2>2. CASE /\ cfgs[n] # None /\ own' = [own EXCEPT ![n] = cfgs[n].spec]
             /\ polls' = [polls EXCEPT ![n] = 0] /\ Goto(n, Setup[1]) /\ UNCHANGED <<nodeCIDR, exits>>
    <3>1. cfgs[n].spec \in ConfigSpec
      BY <2>2 DEF TypeOK, Config
    <3>2. own' \in [Nodes -> ConfigSpec \cup {None}] /\ polls' \in [Nodes -> 0..MaxPolls]
      BY <2>2, <3>1 DEF AgentTypeOK
    <3>3. Setup[1] \in AgentSteps \ {"off"} /\ cniConf' \in [Nodes -> CIDRs \cup {None}]
      BY <2>1, SetupNames DEF AgentSteps, AgentTypeOK
    <3>4. own'[n] \in ConfigSpec /\ \A m \in Nodes \ {n} : own'[m] = own[m]
      BY <2>2, <3>1 DEF AgentTypeOK
    <3>5. QED
      BY <2>1, <2>2, <3>2, <3>3, <3>4, OnType
  <2>3. CASE polls[n] < MaxPolls /\ polls' = [polls EXCEPT ![n] = @ + 1]
             /\ UNCHANGED <<agent, nodeCIDR, own, exits>>
    <3>1. polls' \in [Nodes -> 0..MaxPolls]
      BY <2>3 DEF AgentTypeOK
    <3>2. QED
      BY <2>1, <2>3, <3>1 DEF AgentTypeOK
  <2>4. CASE Off(n) /\ UNCHANGED exits
    <3>1. exits' \in 0..MaxExits
      BY <2>4 DEF AgentTypeOK
    <3>2. QED
      BY <2>1, <2>4, <3>1, OffType
  <2>5. CASE Fail(n)
    BY <2>1, <2>5, FailType
  <2>6. QED
    BY <1>3, <2>2, <2>3, <2>4, <2>5 DEF waitForVSwitchConfig
<1>4. CASE SetupHost(n)
  <2>1. PICK i \in DOMAIN Setup :
          /\ agent[n] = Setup[i] /\ UNCHANGED cniConf
          /\ \/ /\ Goto(n, IF i = Len(Setup) THEN "newController" ELSE Setup[i + 1])
                /\ UNCHANGED <<nodeCIDR, polls, own, exits>>
             \/ Fail(n)
    BY <1>4 DEF SetupHost
  <2>2. CASE Fail(n)
    BY <2>1, <2>2, FailType
  <2>3. CASE ~Fail(n)
    <3> DEFINE s == IF i = Len(Setup) THEN "newController" ELSE Setup[i + 1]
    <3>1. s \in AgentSteps \ {"off"}
      <4>1. CASE i = Len(Setup)
        BY <4>1 DEF AgentSteps
      <4>2. CASE i # Len(Setup)
        <5>1. i + 1 \in DOMAIN Setup
          BY <4>2, SetupNames
        <5>2. QED
          BY <4>2, <5>1, SetupDistinct DEF AgentSteps, Early
      <4>3. QED
        BY <4>1, <4>2
    <3>2. agent[n] # "off"
      BY <2>1, SetupDistinct DEF Early
    <3>3. /\ cniConf' \in [Nodes -> CIDRs \cup {None}] /\ polls' \in [Nodes -> 0..MaxPolls]
          /\ own' \in [Nodes -> ConfigSpec \cup {None}]
      BY <2>1, <2>3 DEF AgentTypeOK
    <3>4. Goto(n, s) /\ UNCHANGED <<nodeCIDR, own, exits>>
      BY <2>1, <2>3
    <3> HIDE DEF s
    <3>5. own[n] \in ConfigSpec
      BY <2>1, SetupDistinct DEF AgentTypeOK, Early
    <3>6. QED
      BY <3>1, <3>2, <3>3, <3>4, <3>5, OnType
  <2>4. QED
    BY <2>2, <2>3
<1>5. CASE Run(n)
  <2>1. agent[n] # "off" /\ own[n] \in ConfigSpec /\ UNCHANGED cniConf
    BY <1>5 DEF Run, AgentTypeOK
  <2>2. CASE Goto(n, "running") /\ UNCHANGED <<nodeCIDR, polls, own, exits>>
    <3>1. /\ cniConf' \in [Nodes -> CIDRs \cup {None}] /\ polls' \in [Nodes -> 0..MaxPolls]
          /\ own' \in [Nodes -> ConfigSpec \cup {None}]
      BY <2>1, <2>2 DEF AgentTypeOK
    <3>2. QED
      BY <2>1, <2>2, <3>1, OnType DEF AgentSteps
  <2>3. QED
    BY <1>5, <2>1, <2>2, FailType DEF Run
<1>6. CASE Stop(n)
  BY <1>6, FailType DEF Stop
<1>7. CASE Evict(n)
  <2>1. exits' \in 0..MaxExits
    BY <1>7 DEF Evict, AgentTypeOK
  <2>2. QED
    BY <1>7, <2>1, OffType DEF Evict
<1>8. QED
  BY <1>1, <1>2, <1>3, <1>4, <1>5, <1>6, <1>7 DEF AgentStep

LEMMA AgentTypeNext == TypeOK /\ AgentTypeOK /\ [SysNext]_sysVars => AgentTypeOK'
<1> SUFFICES ASSUME TypeOK, AgentTypeOK, [SysNext]_sysVars PROVE AgentTypeOK'
  OBVIOUS
<1>1. CASE UNCHANGED agentVars
  BY <1>1 DEF agentVars, AgentTypeOK
<1>2. QED
  BY <1>1, AgentTypeStep DEF SysNext, sysVars

-----------------------------------------------------------------------------
(* The host *)

LEMMA SetupInit == SysInit => SetupInv
<1> SUFFICES ASSUME SysInit, NEW n \in Nodes
             PROVE  /\ host[n] \in HostState /\ agent[n] \in Early
                    /\ \A i \in DOMAIN Setup : ~Behind(agent[n], i)
  BY DEF SetupInv
<1>1. host[n] = NewHost /\ agent[n] = "off"
  BY DEF SysInit
<1>2. NewHost \in HostState
  BY DEF NewHost, HostState, Strings
<1>3. \A i \in DOMAIN Setup : ~Behind("off", i)
  BY SetupDistinct DEF Behind, Early, Late
<1>4. QED
  BY <1>1, <1>2, <1>3 DEF Early

\* Before the set-up, and once the process has ended, nothing is expected of the host.
LEMMA SetupEarly ==
    ASSUME AgentTypeOK, SetupInv, NEW n \in Nodes, agent'[n] \in Early,
           \A m \in Nodes \ {n} : agent'[m] = agent[m] /\ own'[m] = own[m] /\ host'[m] = host[m],
           host'[n] \in HostState
    PROVE  SetupInv'
<1>1. \A i \in DOMAIN Setup : ~Behind(agent'[n], i)
  BY SetupDistinct DEF Behind, Early, Late
<1>2. ASSUME NEW m \in Nodes \ {n}
      PROVE  /\ host'[m] \in HostState
             /\ agent'[m] \notin Early => own'[m] \in ConfigSpec
             /\ \A i \in DOMAIN Setup : Behind(agent'[m], i) => Has(Setup[i], host'[m], own'[m])
  BY <1>2 DEF SetupInv
<1>3. QED
  BY <1>1, <1>2 DEF SetupInv

LEMMA OffSetup ==
    ASSUME AgentTypeOK, SetupInv, NEW n \in Nodes, Off(n),
           \A m \in Nodes \ {n} : host'[m] = host[m], host'[n] \in HostState
    PROVE  SetupInv'
<1>1. agent' = [agent EXCEPT ![n] = "off"] /\ own' = [own EXCEPT ![n] = None]
  BY DEF Off, Goto
<1>2. agent'[n] \in Early /\ \A m \in Nodes \ {n} : agent'[m] = agent[m] /\ own'[m] = own[m]
  BY <1>1 DEF AgentTypeOK, Early
<1>3. QED
  BY <1>2, SetupEarly

\* The agents of other nodes have their own variables.
LEMMA SetupOthers ==
    ASSUME SetupInv, NEW n \in Nodes,
           \A m \in Nodes \ {n} : agent'[m] = agent[m] /\ own'[m] = own[m] /\ host'[m] = host[m],
           host'[n] \in HostState, own'[n] \in ConfigSpec,
           \A i \in DOMAIN Setup : Behind(agent'[n], i) => Has(Setup[i], host'[n], own'[n])
    PROVE  SetupInv'
<1>1. ASSUME NEW m \in Nodes \ {n}
      PROVE  /\ host'[m] \in HostState
             /\ agent'[m] \notin Early => own'[m] \in ConfigSpec
             /\ \A i \in DOMAIN Setup : Behind(agent'[m], i) => Has(Setup[i], host'[m], own'[m])
  BY <1>1 DEF SetupInv
<1>2. QED
  BY <1>1 DEF SetupInv

LEMMA SetupStep ==
    ASSUME TypeOK, AgentTypeOK, HostType, SetupInv, NEW n \in Nodes,
           AgentStep(n) \/ Stop(n) \/ Evict(n)
    PROVE  SetupInv'
<1> USE DEF HostType
<1>1. CASE Start(n)
  <2>1. agent' = [agent EXCEPT ![n] = "installCNIConf"] /\ own' = own /\ host' = host
    BY <1>1 DEF Start, Goto
  <2>2. agent'[n] \in Early /\ \A m \in Nodes \ {n} : agent'[m] = agent[m]
    BY <2>1 DEF AgentTypeOK, Early
  <2>3. QED
    BY <2>1, <2>2, SetupEarly DEF SetupInv
<1>2. CASE installCNIConf(n)
  <2>1. host' = host
    BY <1>2 DEF installCNIConf
  <2>2. CASE Off(n)
    BY <2>1, <2>2, OffSetup
  <2>3. CASE ~Off(n)
    <3>1. agent' = [agent EXCEPT ![n] = "wait"] /\ own' = own
      BY <1>2, <2>3 DEF installCNIConf, Goto, Fail
    <3>2. agent'[n] \in Early /\ \A m \in Nodes \ {n} : agent'[m] = agent[m]
      BY <3>1 DEF AgentTypeOK, Early
    <3>3. QED
      BY <2>1, <3>1, <3>2, SetupEarly
  <2>4. QED
    BY <2>2, <2>3
<1>3. CASE waitForVSwitchConfig(n)
  <2>1. host' = host /\ agent[n] = "wait"
    BY <1>3 DEF waitForVSwitchConfig
  <2>2. CASE Off(n)
    BY <2>1, <2>2, OffSetup
  <2>3. CASE UNCHANGED <<agent, own>>
    BY <2>1, <2>3, SetupEarly DEF Early
  <2>4. CASE cfgs[n] # None /\ own' = [own EXCEPT ![n] = cfgs[n].spec] /\ Goto(n, Setup[1])
    <3>1. agent' = [agent EXCEPT ![n] = Setup[1]]
      BY <2>4 DEF Goto
    <3>2. agent'[n] = Setup[1] /\ \A m \in Nodes \ {n} : agent'[m] = agent[m] /\ own'[m] = own[m]
      BY <2>4, <3>1 DEF AgentTypeOK
    <3>3. own'[n] \in ConfigSpec
      BY <2>4 DEF TypeOK, Config, AgentTypeOK
    <3>4. \A i \in DOMAIN Setup : ~Behind(Setup[1], i)
      <4>1. \A i \in DOMAIN Setup : i >= 1
        BY SetupNames
      <4>2. 1 \in DOMAIN Setup
        BY SetupNames
      <4>3. ASSUME NEW i \in DOMAIN Setup, NEW j \in DOMAIN Setup, i < j PROVE Setup[1] # Setup[j]
        <5>1. j # 1
          BY <4>3, SetupNames
        <5>2. QED
          BY <4>2, <5>1, SetupDistinct
      <4>4. QED
        BY <4>2, <4>3, SetupDistinct DEF Behind
    <3>5. QED
      BY <2>1, <3>2, <3>3, <3>4, SetupOthers
  <2>5. QED
    BY <1>3, <2>2, <2>3, <2>4 DEF waitForVSwitchConfig, Fail
<1>4. CASE SetupHost(n)
  <2>1. PICK i \in DOMAIN Setup :
          LET new == [host EXCEPT ![n] = After(Setup[i], @, own[n])]
          IN  /\ agent[n] = Setup[i]
              /\ \/ /\ host' = new
                    /\ Goto(n, IF i = Len(Setup) THEN "newController" ELSE Setup[i + 1])
                    /\ UNCHANGED own
                 \/ Fail(n) /\ (UNCHANGED host \/ host' = new)
    BY <1>4 DEF SetupHost
  <2>2. own[n] \in ConfigSpec
    BY <2>1, SetupDistinct DEF SetupInv
  <2>3. /\ After(Setup[i], host[n], own[n]) \in HostState
        /\ Has(Setup[i], After(Setup[i], host[n], own[n]), own[n])
        /\ \A s : Has(s, host[n], own[n]) => Has(s, After(Setup[i], host[n], own[n]), own[n])
    BY <2>2, AfterHas
  <2>4. /\ \A m \in Nodes \ {n} : host'[m] = host[m]
        /\ host'[n] = host[n] \/ host'[n] = After(Setup[i], host[n], own[n])
    BY <2>1
  <2>5. CASE Fail(n)
    BY <2>3, <2>4, <2>5, OffSetup DEF Fail
  <2>6. CASE ~Fail(n)
    <3> DEFINE s == IF i = Len(Setup) THEN "newController" ELSE Setup[i + 1]
    <3>1. agent' = [agent EXCEPT ![n] = s] /\ own' = own
      BY <2>1, <2>6 DEF Goto
    <3>2. host'[n] = After(Setup[i], host[n], own[n])
      BY <2>1, <2>6
    <3>3. ASSUME NEW k \in DOMAIN Setup, Behind(s, k) PROVE Has(Setup[k], host'[n], own[n])
      <4>1. k = i \/ Behind(agent[n], k)
        BY <2>1, <3>3, NextBehind
      <4>2. QED
        BY <2>3, <3>2, <4>1 DEF SetupInv
    <3> HIDE DEF s
    <3>4. agent'[n] = s /\ \A m \in Nodes \ {n} : agent'[m] = agent[m] /\ own'[m] = own[m]
      BY <3>1 DEF AgentTypeOK
    <3>5. QED
      BY <2>2, <2>3, <2>4, <3>1, <3>2, <3>3, <3>4, SetupOthers
  <2>7. QED
    BY <2>5, <2>6
<1>5. CASE Run(n)
  <2>1. host' = host /\ agent[n] = "newController"
    BY <1>5 DEF Run
  <2>2. CASE Fail(n)
    BY <2>1, <2>2, OffSetup DEF Fail
  <2>3. CASE ~Fail(n)
    <3>1. agent' = [agent EXCEPT ![n] = "running"] /\ own' = own
      BY <1>5, <2>3 DEF Run, Goto
    <3>2. /\ agent'[n] = "running"
          /\ \A m \in Nodes \ {n} : agent'[m] = agent[m] /\ own'[m] = own[m] /\ host'[m] = host[m]
      BY <2>1, <3>1 DEF AgentTypeOK
    <3>3. own'[n] \in ConfigSpec /\ \A i \in DOMAIN Setup : Has(Setup[i], host[n], own[n])
      BY <2>1, <3>1 DEF SetupInv, Behind, Early, Late
    <3>4. QED
      BY <2>1, <3>1, <3>2, <3>3, SetupOthers
  <2>4. QED
    BY <2>2, <2>3
<1>6. CASE Stop(n)
  <2>1. Rebooted(host[n]) \in HostState
    BY DEF Rebooted, HostState
  <2>2. /\ \A m \in Nodes \ {n} : host'[m] = host[m]
        /\ host'[n] \in HostState
    BY <1>6, <2>1 DEF Stop
  <2>3. QED
    BY <1>6, <2>2, OffSetup DEF Stop, Fail
<1>7. CASE Evict(n)
  BY <1>7, OffSetup DEF Evict
<1>8. QED
  BY <1>1, <1>2, <1>3, <1>4, <1>5, <1>6, <1>7 DEF AgentStep

LEMMA SetupNext ==
    TypeOK /\ AgentTypeOK /\ HostType /\ SetupInv /\ [SysNext]_sysVars => HostType' /\ SetupInv'
<1> SUFFICES ASSUME TypeOK, AgentTypeOK, HostType, SetupInv, [SysNext]_sysVars
             PROVE  HostType' /\ SetupInv'
  OBVIOUS
<1>1. CASE UNCHANGED agentVars
  BY <1>1 DEF agentVars, SetupInv, HostType
<1>2. ASSUME NEW n \in Nodes, AgentStep(n) \/ Stop(n) \/ Evict(n) PROVE HostType' /\ SetupInv'
  <2>1. SetupInv'
    BY <1>2, SetupStep
  <2>2. \E x : host' = host \/ host' = [host EXCEPT ![n] = x]
    BY <1>2 DEF AgentStep, Start, installCNIConf, waitForVSwitchConfig, SetupHost, Run, Stop, Evict
  <2>3. \A m \in Nodes : host'[m] \in HostState
    BY <2>1 DEF SetupInv
  <2>4. QED
    BY <2>1, <2>2, <2>3 DEF HostType
<1>3. QED
  BY <1>1, <1>2 DEF SysNext, sysVars

-----------------------------------------------------------------------------
(* The pod CIDRs *)

LEMMA AssignedInit == SysInit => CtlAssigned /\ AgentAssigned
BY DEF SysInit, Init, CtlAssigned, NodesAssigned, EventsAssigned, HandlerAssigned, ConfigsAssigned,
   From, AgentAssigned, Early

\* An event comes from a queue, or carries the node as it is or was in the API server.
LEMMA NotifyOrigin ==
    ASSUME TypeInv, NEW n \in Nodes, NEW type, NEW node, Notify(n, type, node),
           NEW m \in Nodes, NEW i \in DOMAIN events'[m]
    PROVE  \/ \E j \in DOMAIN events[m] : events'[m][i] = events[m][j]
           \/ m = n /\ events'[m][i].node = node
<1> DEFINE ev == [type |-> type, name |-> n, node |-> node]
<1>1. events' = [events EXCEPT ![n] = Append(events[n], ev)] /\ ev.node = node
  BY DEF Notify
<1> HIDE DEF ev
<1>2. events[m] \in Seq(Event) /\ events[n] \in Seq(Event)
  BY DEF TypeInv, TypeOK
<1>3. CASE m = n
  <2>1. events'[m] = Append(events[n], ev)
    BY <1>1, <1>3 DEF TypeInv, TypeOK
  <2>2. QED
    BY <1>1, <1>2, <1>3, <2>1
<1>4. CASE m # n
  BY <1>1, <1>4 DEF TypeInv, TypeOK
<1>5. QED
  BY <1>3, <1>4

LEMMA TakeOrigin ==
    ASSUME TypeInv, NEW n \in Nodes, Take(n), NEW m \in Nodes, NEW i \in DOMAIN events'[m]
    PROVE  \E j \in DOMAIN events[m] : events'[m][i] = events[m][j]
<1>1. events[n] \in Seq(Event) /\ events[n] # <<>> /\ events' = [events EXCEPT ![n] = Tail(events[n])]
  BY DEF TypeInv, TypeOK, Take
<1>2. CASE m = n
  <2>1. events'[m] = Tail(events[n]) /\ i + 1 \in DOMAIN events[n] /\ Tail(events[n])[i] = events[n][i + 1]
    BY <1>1, <1>2 DEF TypeInv, TypeOK
  <2>2. QED
    BY <1>2, <2>1
<1>3. CASE m # n
  BY <1>1, <1>3 DEF TypeInv, TypeOK
<1>4. QED
  BY <1>2, <1>3

LEMMA EventOrigin ==
    ASSUME TypeInv, [Next]_vars, NEW m \in Nodes, NEW i \in DOMAIN events'[m]
    PROVE  \/ \E j \in DOMAIN events[m] : events'[m][i] = events[m][j]
           \/ events'[m][i].node \in {nodes[m], nodes'[m], None}
<1>1. CASE events' = events
  BY <1>1
<1>2. ASSUME NEW n \in Nodes, NEW node \in NodeSpecs, AddNode(n, node) \/ UpdateNode(n, node)
      PROVE  \/ \E j \in DOMAIN events[m] : events'[m][i] = events[m][j]
             \/ events'[m][i].node = nodes'[m]
  <2>1. nodes'[n] = node
    BY <1>2 DEF AddNode, UpdateNode, TypeInv, TypeOK
  <2>2. \E type \in {"add", "update"} : Notify(n, type, node)
    BY <1>2 DEF AddNode, UpdateNode
  <2>3. QED
    BY <2>1, <2>2, NotifyOrigin
<1>3. ASSUME NEW n \in Nodes, RemoveNode(n) \/ Heartbeat(n)
      PROVE  \/ \E j \in DOMAIN events[m] : events'[m][i] = events[m][j]
             \/ events'[m][i].node \in {nodes[m], None}
  <2>1. \E type \in {"delete", "update", "tombstone"}, node \in {nodes[n], None} : Notify(n, type, node)
    BY <1>3 DEF RemoveNode, Heartbeat
  <2>2. QED
    BY <2>1, NotifyOrigin
<1>4. ASSUME NEW n \in Nodes, OnAddOrUpdate(n) \/ OnDelete(n) \/ OnDeleteTombstone(n)
      PROVE  \E j \in DOMAIN events[m] : events'[m][i] = events[m][j]
  BY <1>4, TakeOrigin DEF OnAddOrUpdate, OnDelete, OnDeleteTombstone
<1>5. CASE Restart
  <2>1. events'[m] = IF nodes[m] = None THEN <<>>
                     ELSE <<[type |-> "add", name |-> m, node |-> nodes[m]]>>
    BY <1>5 DEF Restart
  <2>2. events'[m][i].node = nodes[m]
    BY <2>1
  <2>3. QED
    BY <2>2
<1>6. CASE syncVSwitchConfig \/ (\E n \in Nodes : DeliverConfig(n)) \/ UNCHANGED vars
  BY <1>1, <1>6 DEF syncVSwitchConfig, DeliverConfig, vars, infVars
<1>7. QED
  BY <1>2, <1>3, <1>4, <1>5, <1>6 DEF Next

\* The handler syncs the node of an event it took.
LEMMA HandlerOrigin ==
    ASSUME TypeInv, [Next]_vars, pc' = "sync"
    PROVE  \/ pc = "sync" /\ cur' = cur
           \/ \E n \in Nodes : \E j \in DOMAIN events[n] : cur' = events[n][j] /\ cur'.name = n
<1>1. CASE pc' = pc /\ cur' = cur
  BY <1>1
<1>2. ASSUME NEW n \in Nodes, OnAddOrUpdate(n), cur' = Head(events[n])
      PROVE  \E j \in DOMAIN events[n] : cur' = events[n][j] /\ cur'.name = n
  <2>1. events[n] \in Seq(Event) /\ events[n] # <<>> /\ Take(n)
    BY <1>2 DEF OnAddOrUpdate, Take, TypeInv, TypeOK
  <2>2. Head(events[n]) = events[n][1] /\ 1 \in DOMAIN events[n]
    BY <2>1
  <2>3. QED
    BY <1>2, <2>1, <2>2, TakeType
<1>3. ASSUME NEW n \in Nodes, OnAddOrUpdate(n), cur' # Head(events[n]) PROVE pc' = pc /\ cur' = cur
  BY <1>3 DEF OnAddOrUpdate
<1>4. ASSUME NEW n \in Nodes,
             \/ \E node \in NodeSpecs : AddNode(n, node) \/ UpdateNode(n, node)
             \/ RemoveNode(n) \/ Heartbeat(n) \/ DeliverConfig(n) \/ OnDelete(n)
      PROVE  pc' = pc /\ cur' = cur
  BY <1>4 DEF AddNode, UpdateNode, RemoveNode, Heartbeat, DeliverConfig, OnDelete
<1>5. ASSUME NEW n \in Nodes PROVE ~OnDeleteTombstone(n)
  BY DEF OnDeleteTombstone
<1>6. ~syncVSwitchConfig /\ ~Restart
  BY DEF syncVSwitchConfig, Restart
<1>7. UNCHANGED vars => pc' = pc /\ cur' = cur
  BY DEF vars
<1>8. QED
  BY <1>1, <1>2, <1>3, <1>4, <1>5, <1>6, <1>7 DEF Next

\* A VSwitchConfig is written for the node in the handler, which has a pod CIDR.
LEMMA ConfigOrigin ==
    ASSUME TypeInv, [Next]_vars, NEW m \in Nodes, cfgs'[m] # None
    PROVE  \/ cfgs'[m] = cfgs[m]
           \/ /\ pc = "sync" /\ cur.name = m /\ cur.node.podCIDR # None
              /\ cfgs'[m].spec.podCIDR = cur.node.podCIDR
<1>1. CASE cfgs' = cfgs
  BY <1>1
<1>2. ASSUME NEW n \in Nodes, OnDelete(n) PROVE cfgs'[m] = cfgs[m]
  <2>1. cfgs' = cfgs \/ cfgs' = [cfgs EXCEPT ![n] = None]
    BY <1>2 DEF OnDelete, Write
  <2>2. QED
    BY <2>1 DEF TypeInv, TypeOK
<1>3. CASE syncVSwitchConfig /\ cfgs' # cfgs
  <2>1. pc = "sync" /\ Valid(cur.node) /\ Write(cur.name, nodeToVSwitchConfig(cur.node))
    BY <1>3 DEF syncVSwitchConfig
  <2>2. cur.node.podCIDR # None /\ nodeToVSwitchConfig(cur.node).podCIDR = cur.node.podCIDR
    BY <2>1 DEF Valid, nodePodCIDR, nodeToVSwitchConfig
  <2>3. CASE m = cur.name
    <3>1. \/ cfgs'[m] = None
          \/ cfgs'[m] = [version |-> version + 1, spec |-> nodeToVSwitchConfig(cur.node)]
      BY <2>1, <2>3 DEF Write, TypeInv, TypeOK
    <3>2. cfgs'[m].spec = nodeToVSwitchConfig(cur.node)
      BY <3>1
    <3>3. QED
      BY <2>1, <2>2, <2>3, <3>2
  <2>4. CASE m # cur.name
    BY <2>1, <2>4 DEF Write, TypeInv, TypeOK
  <2>5. QED
    BY <2>3, <2>4
<1>4. ASSUME NEW n \in Nodes,
             \/ \E node \in NodeSpecs : AddNode(n, node) \/ UpdateNode(n, node)
             \/ RemoveNode(n) \/ Heartbeat(n) \/ DeliverConfig(n)
             \/ OnAddOrUpdate(n) \/ OnDeleteTombstone(n)
      PROVE  cfgs' = cfgs
  BY <1>4 DEF AddNode, UpdateNode, RemoveNode, Heartbeat, DeliverConfig, OnAddOrUpdate,
     OnDeleteTombstone, apiVars
<1>5. Restart \/ UNCHANGED vars => cfgs' = cfgs
  BY DEF Restart, vars, apiVars
<1>6. QED
  BY <1>1, <1>2, <1>3, <1>4, <1>5 DEF Next

\* What was assigned stays so.
LEMMA CIDRsGrow ==
    ASSUME AssignedCIDRs, NEW n \in Nodes
    PROVE  /\ cidrs[n] \subseteq cidrs'[n]
           /\ From(n, nodes[n])' /\ \A node : From(n, node) => From(n, node)'
BY DEF AssignedCIDRs, From

LEMMA CtlAssignedNext ==
    ASSUME TypeInv, CtlAssigned, Next, AssignedCIDRs PROVE CtlAssigned'
<1> USE DEF CtlAssigned
<1>1. NodesAssigned'
  BY CIDRsGrow DEF NodesAssigned
<1>2. ASSUME NEW m \in Nodes, NEW i \in DOMAIN events'[m] PROVE From(m, events[m][i].node)'
  <2>1. CASE \E j \in DOMAIN events[m] : events'[m][i] = events[m][j]
    <3>1. From(m, events'[m][i].node)
      BY <2>1 DEF EventsAssigned
    <3>2. QED
      BY <3>1, CIDRsGrow
  <2>2. CASE events'[m][i].node \in {nodes[m], nodes'[m], None}
    <3>1. From(m, nodes[m]) /\ From(m, nodes[m])' /\ From(m, None)
      BY CIDRsGrow DEF NodesAssigned, From
    <3>2. QED
      BY <2>2, <3>1, CIDRsGrow DEF From
  <2>3. QED
    BY <2>1, <2>2, EventOrigin
<1>3. HandlerAssigned'
  <2> SUFFICES ASSUME pc' = "sync" PROVE From(cur.name, cur.node)'
    BY DEF HandlerAssigned
  <2>1. CASE pc = "sync" /\ cur' = cur
    <3>1. cur.name \in Nodes
      BY <2>1 DEF TypeInv, TypeOK, Event
    <3>2. From(cur.name, cur.node)
      BY <2>1 DEF HandlerAssigned
    <3>3. QED
      BY <2>1, <3>1, <3>2, CIDRsGrow DEF From
  <2>2. CASE \E n \in Nodes : \E j \in DOMAIN events[n] : cur' = events[n][j] /\ cur'.name = n
    <3>1. PICK n \in Nodes : \E j \in DOMAIN events[n] : cur' = events[n][j] /\ cur'.name = n
      BY <2>2
    <3>2. From(n, cur'.node)
      BY <3>1 DEF EventsAssigned
    <3>3. QED
      BY <3>1, <3>2, CIDRsGrow DEF From
  <2>3. QED
    BY <2>1, <2>2, HandlerOrigin
<1>4. ConfigsAssigned'
  <2> SUFFICES ASSUME NEW m \in Nodes, cfgs'[m] # None PROVE cfgs'[m].spec.podCIDR \in cidrs'[m]
    BY DEF ConfigsAssigned
  <2>1. CASE cfgs'[m] = cfgs[m]
    BY <2>1, CIDRsGrow DEF ConfigsAssigned
  <2>2. CASE /\ pc = "sync" /\ cur.name = m /\ cur.node.podCIDR # None
             /\ cfgs'[m].spec.podCIDR = cur.node.podCIDR
    <3>1. cur.node # None
      BY <2>2 DEF TypeInv, TypeOK
    <3>2. cur.node.podCIDR \in cidrs[m]
      BY <2>2, <3>1 DEF HandlerAssigned, From
    <3>3. QED
      BY <2>2, <3>2, CIDRsGrow
  <2>3. QED
    BY <2>1, <2>2, ConfigOrigin
<1>5. QED
  BY <1>1, <1>2, <1>3, <1>4 DEF EventsAssigned

\* A step of the agent of n leaves the other agents alone.
LEMMA AssignedOthers ==
    ASSUME AgentAssigned, NEW n \in Nodes, cidrs' = cidrs,
           \A m \in Nodes \ {n} : /\ agent'[m] = agent[m] /\ nodeCIDR'[m] = nodeCIDR[m]
                                  /\ cniConf'[m] = cniConf[m] /\ own'[m] = own[m],
           /\ agent'[n] # "off" => nodeCIDR'[n] \in cidrs[n]
           /\ agent'[n] \notin {"off", "installCNIConf"} => cniConf'[n] \in cidrs[n]
           /\ agent'[n] \notin Early => own'[n].podCIDR \in cidrs[n]
    PROVE  AgentAssigned'
<1>1. ASSUME NEW m \in Nodes \ {n}
      PROVE  /\ agent'[m] # "off" => nodeCIDR'[m] \in cidrs'[m]
             /\ agent'[m] \notin {"off", "installCNIConf"} => cniConf'[m] \in cidrs'[m]
             /\ agent'[m] \notin Early => own'[m].podCIDR \in cidrs'[m]
  BY <1>1 DEF AgentAssigned
<1>2. QED
  BY <1>1 DEF AgentAssigned

LEMMA OffAssigned ==
    ASSUME AgentTypeOK, AgentAssigned, NEW n \in Nodes, cidrs' = cidrs, Off(n),
           cniConf' = cniConf \/ cniConf' = [cniConf EXCEPT ![n] = None]
    PROVE  AgentAssigned'
<1>1. /\ agent' = [agent EXCEPT ![n] = "off"] /\ nodeCIDR' = [nodeCIDR EXCEPT ![n] = None]
      /\ own' = [own EXCEPT ![n] = None]
  BY DEF Off, Goto
<1>2. /\ agent'[n] = "off"
      /\ \A m \in Nodes \ {n} : /\ agent'[m] = agent[m] /\ nodeCIDR'[m] = nodeCIDR[m]
                                /\ cniConf'[m] = cniConf[m] /\ own'[m] = own[m]
  BY <1>1 DEF AgentTypeOK
<1>3. QED
  BY <1>2, AssignedOthers DEF Early

LEMMA AgentAssignedStep ==
    ASSUME TypeOK, AgentTypeOK, CtlAssigned, AgentAssigned, NEW n \in Nodes, cidrs' = cidrs,
           AgentStep(n) \/ Stop(n) \/ Evict(n)
    PROVE  AgentAssigned'
<1>1. CASE Start(n)
  <2>1. /\ agent' = [agent EXCEPT ![n] = "installCNIConf"]
        /\ nodeCIDR' = [nodeCIDR EXCEPT ![n] = nodes[n].podCIDR] /\ cniConf' = cniConf /\ own' = own
    BY <1>1 DEF Start, Goto
  <2>2. nodes[n].podCIDR \in cidrs[n]
    BY <1>1 DEF Start, CtlAssigned, NodesAssigned, From
  <2>3. /\ agent'[n] = "installCNIConf" /\ nodeCIDR'[n] \in cidrs[n]
        /\ \A m \in Nodes \ {n} : /\ agent'[m] = agent[m] /\ nodeCIDR'[m] = nodeCIDR[m]
                                  /\ cniConf'[m] = cniConf[m] /\ own'[m] = own[m]
    BY <2>1, <2>2 DEF AgentTypeOK
  <2>4. QED
    BY <2>3, AssignedOthers DEF Early
<1>2. CASE installCNIConf(n)
  <2>1. CASE Fail(n) /\ (UNCHANGED cniConf \/ cniConf' = [cniConf EXCEPT ![n] = None])
    BY <2>1, OffAssigned DEF Fail
  <2>2. CASE /\ cniConf' = [cniConf EXCEPT ![n] = nodeCIDR[n]] /\ Goto(n, "wait")
             /\ UNCHANGED <<nodeCIDR, own>>
    <3>1. /\ agent[n] = "installCNIConf" /\ agent' = [agent EXCEPT ![n] = "wait"]
          /\ cniConf' = [cniConf EXCEPT ![n] = nodeCIDR[n]] /\ nodeCIDR' = nodeCIDR /\ own' = own
      BY <1>2, <2>2 DEF installCNIConf, Goto
    <3>2. nodeCIDR[n] \in cidrs[n]
      BY <3>1 DEF AgentAssigned
    <3>3. /\ agent'[n] = "wait" /\ cniConf'[n] = nodeCIDR[n] /\ nodeCIDR'[n] = nodeCIDR[n]
          /\ \A m \in Nodes \ {n} : /\ agent'[m] = agent[m] /\ nodeCIDR'[m] = nodeCIDR[m]
                                    /\ cniConf'[m] = cniConf[m] /\ own'[m] = own[m]
      BY <3>1 DEF AgentTypeOK
    <3>4. QED
      BY <3>2, <3>3, AssignedOthers DEF Early
  <2>3. QED
    BY <1>2, <2>1, <2>2 DEF installCNIConf
<1>3. CASE waitForVSwitchConfig(n)
  <2>1. agent[n] = "wait" /\ cniConf' = cniConf
    BY <1>3 DEF waitForVSwitchConfig
  <2>2. CASE Off(n)
    BY <2>1, <2>2, OffAssigned
  <2>3. CASE UNCHANGED <<agent, nodeCIDR, own>>
    BY <2>1, <2>3 DEF AgentAssigned
  <2>4. CASE /\ cfgs[n] # None /\ own' = [own EXCEPT ![n] = cfgs[n].spec] /\ Goto(n, Setup[1])
             /\ UNCHANGED nodeCIDR
    <3>1. agent' = [agent EXCEPT ![n] = Setup[1]]
      BY <2>4 DEF Goto
    <3>2. /\ own'[n] = cfgs[n].spec
          /\ \A m \in Nodes \ {n} : /\ agent'[m] = agent[m] /\ nodeCIDR'[m] = nodeCIDR[m]
                                    /\ cniConf'[m] = cniConf[m] /\ own'[m] = own[m]
      BY <2>1, <2>4, <3>1 DEF AgentTypeOK
    <3>3. own'[n].podCIDR \in cidrs[n] /\ nodeCIDR'[n] \in cidrs[n] /\ cniConf'[n] \in cidrs[n]
      BY <2>1, <2>4, <3>2 DEF CtlAssigned, ConfigsAssigned, AgentAssigned
    <3>4. QED
      BY <3>2, <3>3, AssignedOthers
  <2>5. QED
    BY <1>3, <2>2, <2>3, <2>4 DEF waitForVSwitchConfig, Fail
<1>4. CASE SetupHost(n) \/ Run(n)
  <2>1. CASE Fail(n)
    BY <1>4, <2>1, OffAssigned DEF SetupHost, Run, Fail
  <2>2. CASE ~Fail(n)
    <3>1. /\ agent[n] \notin Early /\ UNCHANGED <<nodeCIDR, own, cniConf>>
          /\ \E s : Goto(n, s)
      BY <1>4, <2>2, SetupDistinct DEF SetupHost, Run, Early
    <3>2. \A m \in Nodes \ {n} : agent'[m] = agent[m]
      BY <3>1 DEF Goto, AgentTypeOK
    <3>3. nodeCIDR[n] \in cidrs[n] /\ cniConf[n] \in cidrs[n] /\ own[n].podCIDR \in cidrs[n]
      BY <3>1 DEF AgentAssigned, Early
    <3>4. QED
      BY <3>1, <3>2, <3>3, AssignedOthers
  <2>3. QED
    BY <2>1, <2>2
<1>5. CASE Stop(n) \/ Evict(n)
  BY <1>5, OffAssigned DEF Stop, Evict, Fail
<1>6. QED
  BY <1>1, <1>2, <1>3, <1>4, <1>5 DEF AgentStep

LEMMA AssignedNext ==
    ASSUME TypeInv, AgentTypeOK, CtlAssigned, AgentAssigned, [SysNext]_sysVars
    PROVE  CtlAssigned' /\ AgentAssigned'
<1>1. CASE Next /\ AssignedCIDRs /\ UNCHANGED agentVars
  <2>1. CtlAssigned'
    BY <1>1, CtlAssignedNext
  <2>2. \A n \in Nodes : cidrs[n] \subseteq cidrs'[n]
    BY <1>1, CIDRsGrow
  <2>3. AgentAssigned'
    BY <1>1, <2>2 DEF AgentAssigned, agentVars
  <2>4. QED
    BY <2>1, <2>3
<1>2. CASE UNCHANGED <<vars, cidrs>>
  <2>1. CtlAssigned'
    BY <1>2 DEF vars, apiVars, infVars, CtlAssigned, NodesAssigned, EventsAssigned, HandlerAssigned,
       ConfigsAssigned, From
  <2>2. CASE UNCHANGED agentVars
    <3>1. UNCHANGED <<agent, nodeCIDR, own, cniConf, cidrs>>
      BY <1>2, <2>2 DEF agentVars
    <3>2. QED
      BY <2>1, <3>1 DEF AgentAssigned
  <2>3. ASSUME NEW n \in Nodes, AgentStep(n) \/ Stop(n) \/ Evict(n) PROVE AgentAssigned'
    BY <1>2, <2>3, AgentAssignedStep DEF TypeInv
  <2>4. QED
    BY <2>1, <2>2, <2>3 DEF SysNext, sysVars
<1>3. QED
  BY <1>1, <1>2 DEF SysNext, sysVars

-----------------------------------------------------------------------------
(* The theorems *)

\* The inductive invariant holds in every state of the controller with its agents.
THEOREM SysInvariant == SysSpec => []SysInv
<1>1. SysInit => SysInv
  <2>1. SysInit => HostType
    BY DEF SysInit, NewHost, HostType, HostState, Strings
  <2>2. QED
    BY <2>1, TypeInit, AgentTypeInit, SetupInit, AssignedInit DEF SysInv, SysInit
<1>2. SysInv /\ [SysNext]_sysVars => SysInv'
  BY StepOfController, TypeNext, AgentTypeNext, SetupNext, AssignedNext DEF SysInv, TypeInv
<1>3. QED
  BY <1>1, <1>2, PTL DEF SysSpec

\* The agents' variables keep their types, and a process that runs on has its node's pod
\* CIDR (main.go:60-288).
THEOREM AgentTypeCorrect == SysSpec => []AgentTypeOK
BY SysInvariant, PTL DEF SysInv

\* A running k-vswitchd finds the bridge and the host as its own VSwitchConfig wants them,
\* whatever earlier starts left half-done and whatever a reboot took away (main.go:117-192).
THEOREM HostReadyCorrect == SysSpec => []HostReady
<1>1. SysInv => HostReady
  <2> SUFFICES ASSUME SetupInv, NEW n \in Nodes, agent[n] = "running"
               PROVE  /\ host[n].bridge /\ host[n].clusterWide
                      /\ host[n].overlay = own[n].overlayType
                      /\ host[n].controller /\ host[n].secure /\ host[n].forward
                      /\ own[n].podCIDR \in host[n].addrs /\ own[n].clusterCIDR \in host[n].routes
                      /\ forwardingRules(own[n]) \subseteq host[n].rules
    BY DEF SysInv, HostReady
  <2>1. \A i \in 1..9 : Has(Setup[i], host[n], own[n])
    BY SetupNames DEF SetupInv, Behind, Late
  <2>2. QED
    BY <2>1, SetupNames DEF Has
<1>2. QED
  BY <1>1, SysInvariant, PTL

\* The pod CIDR of a running k-vswitchd's CNI configuration and that of its VSwitchConfig
\* were assigned to nodes of its name, whatever event, cache or config was stale
\* (main.go:83-115, vswitchcfg.go:141-149).
THEOREM AssignedOnlyCorrect == SysSpec => []AssignedOnly
<1>1. SysInv => AssignedOnly
  BY DEF SysInv, AgentAssigned, AssignedOnly, Early
<1>2. QED
  BY <1>1, SysInvariant, PTL
=============================================================================
