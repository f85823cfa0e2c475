----------------------------- MODULE NodeStart ------------------------------
(***************************************************************************)
(* The start-up of k-vswitchd (cmd/k-vswitchd/main.go), composed with      *)
(* k-vswitch-controller.                                                   *)
(*                                                                         *)
(* k-vswitchd runs on every node.  It takes the node's pod CIDR from the   *)
(* node for the CNI configuration, waits for the node's VSwitchConfig,     *)
(* which k-vswitch-controller writes, and sets up the bridge and the host  *)
(* from that.  Whatever fails ends the process, and the container is       *)
(* started again on a host that keeps what was set up before.  Once the    *)
(* process runs it never reads its own VSwitchConfig again.                *)
(*                                                                         *)
(* The kubelet, the kernel and Open vSwitch's database are external.       *)
(***************************************************************************)
EXTENDS VSwitchCfg

CONSTANTS
    MaxPolls,      \* bound: polls of waitForVSwitchConfig before its minute is over
    MaxExits       \* bound: failed steps, killed processes and reboots together

ASSUME NodeStartAssumption == MaxPolls \in Nat /\ MaxExits \in Nat

VARIABLES
    agent,         \* per node: the next step of main, "off" or "running"
    nodeCIDR,      \* per node, local: curNode.Spec.PodCIDR
    polls,         \* per node, local: polls so far
    own,           \* per node, local: the spec of its VSwitchConfig
    cniConf,       \* per node: the subnet of the installed CNI configuration
    host,          \* per node: bridge, links, routes and rules, see HostState
    exits,
    cidrs          \* history, per node: the pod CIDRs assigned to nodes of this name

agentVars == <<agent, nodeCIDR, polls, own, cniConf, host, exits>>
sysVars   == <<vars, agentVars, cidrs>>

-----------------------------------------------------------------------------
(* The host.  Ports and settings of the bridge are in Open vSwitch's         *)
(* database and survive a reboot; addresses, routes, sysctls and iptables    *)
(* do not.                                                                   *)

NewHost ==
    [bridge |-> FALSE, clusterWide |-> FALSE, overlay |-> None, controller |-> FALSE,
     secure |-> FALSE, addrs |-> {}, routes |-> {}, forward |-> FALSE, rules |-> {}]

Rebooted(h) == [h EXCEPT !.addrs = {}, !.routes = {}, !.forward = FALSE, !.rules = {}]

\* What each step of main makes of the host.  All of them may be repeated.
setupOVSBridgeIfNotExists(h) == [h EXCEPT !.bridge = TRUE]

setupClusterWideInternalPort(h) == [h EXCEPT !.clusterWide = TRUE]

\* The type is set also if the port exists.
setupOverlayPort(h, overlayType) == [h EXCEPT !.overlay = overlayType]

\* Mutant: a bridge that has an address keeps it.
netlinkAddrForLocal_IfNone(h, podCIDR) ==
    [h EXCEPT !.addrs = IF @ = {} THEN {podCIDR} ELSE @]

\* The gateway address of the pod CIDR, beside any the bridge has.
netlinkAddrForLocal(h, podCIDR) == [h EXCEPT !.addrs = @ \cup {podCIDR}]

netlinkRouteForCluster(h, clusterCIDR) == [h EXCEPT !.routes = @ \cup {clusterCIDR}]

setControllerTarget(h) == [h EXCEPT !.controller = TRUE]

setSecureFailMode(h) == [h EXCEPT !.secure = TRUE]

setupModulesAndSysctls(h) == [h EXCEPT !.forward = TRUE]

\* Accept to and from the bridge, masquerade from the pod CIDR, to outside the cluster
\* CIDR and to outside the service CIDR.
forwardingRules(spec) ==
    {<<"accept", None>>, <<"from", spec.podCIDR>>, <<"notTo", spec.clusterCIDR>>,
     <<"notTo", spec.serviceCIDR>>}

setupBridgeForwarding(h, spec) == [h EXCEPT !.rules = @ \cup forwardingRules(spec)]

\* The steps of main that change the host, in their order.
Setup == <<"bridge", "clusterWidePort", "overlayPort", "addr", "route", "controllerTarget",
           "failMode", "sysctls", "forwarding">>

After(step, h, spec) ==
    CASE step = "bridge"           -> setupOVSBridgeIfNotExists(h)
      [] step = "clusterWidePort"  -> setupClusterWideInternalPort(h)
      [] step = "overlayPort"      -> setupOverlayPort(h, spec.overlayType)
      [] step = "addr"             -> netlinkAddrForLocal(h, spec.podCIDR)
      [] step = "route"            -> netlinkRouteForCluster(h, spec.clusterCIDR)
      [] step = "controllerTarget" -> setControllerTarget(h)
      [] step = "failMode"         -> setSecureFailMode(h)
      [] step = "sysctls"          -> setupModulesAndSysctls(h)
      [] step = "forwarding"       -> setupBridgeForwarding(h, spec)

-----------------------------------------------------------------------------
SysInit ==
    /\ Init
    /\ agent = [n \in Nodes |-> "off"]
    /\ nodeCIDR = [n \in Nodes |-> None] /\ own = [n \in Nodes |-> None]
    /\ polls = [n \in Nodes |-> 0]
    /\ cniConf = [n \in Nodes |-> None]
    /\ host = [n \in Nodes |-> NewHost]
    /\ exits = 0
    /\ cidrs = [n \in Nodes |-> {}]

Goto(n, step) == agent' = [agent EXCEPT ![n] = step]

\* os.Exit(1), or the end of the process by other means.  Its locals are gone.
Off(n) ==
    /\ Goto(n, "off")
    /\ nodeCIDR' = [nodeCIDR EXCEPT ![n] = None] /\ own' = [own EXCEPT ![n] = None]
    /\ polls' = [polls EXCEPT ![n] = 0]

Fail(n) == exits < MaxExits /\ exits' = exits + 1 /\ Off(n)

\* The container is started on its node, which is read.  A node without a pod CIDR ends
\* the process again.
Start(n) ==
    /\ agent[n] = "off"
    /\ nodes[n] # None /\ nodes[n].podCIDR # None
    /\ nodeCIDR' = [nodeCIDR EXCEPT ![n] = nodes[n].podCIDR]
    /\ Goto(n, "installCNIConf")
    /\ UNCHANGED <<polls, own, cniConf, host, exits>>

\* Mutant: a CNI configuration that is already there is an error.
installCNIConf_MustBeNew(n) ==
    /\ agent[n] = "installCNIConf"
    /\ \/ /\ cniConf[n] = None /\ cniConf' = [cniConf EXCEPT ![n] = nodeCIDR[n]]
          /\ Goto(n, "wait") /\ UNCHANGED <<nodeCIDR, polls, own>>
       \/ cniConf[n] # None /\ Off(n) /\ UNCHANGED cniConf
    /\ UNCHANGED <<host, exits>>

\* WriteFile may fail with the old file, or with it truncated.
installCNIConf(n) ==
    /\ agent[n] = "installCNIConf"
    /\ \/ /\ cniConf' = [cniConf EXCEPT ![n] = nodeCIDR[n]]
          /\ Goto(n, "wait")
          /\ UNCHANGED <<nodeCIDR, polls, own, exits>>
       \/ Fail(n) /\ (UNCHANGED cniConf \/ cniConf' = [cniConf EXCEPT ![n] = None])
    /\ UNCHANGED host

\* Mutant: the end of the time is no error.
waitForVSwitchConfig_NoError(n) ==
    /\ agent[n] = "wait"
    /\ \/ cfgs[n] # None /\ own' = [own EXCEPT ![n] = cfgs[n].spec] /\ Goto(n, Setup[1])
       \/ cfgs[n] = None /\ polls[n] < MaxPolls /\ UNCHANGED <<agent, own>>
       \/ cfgs[n] = None /\ polls[n] = MaxPolls /\ Goto(n, Setup[1]) /\ UNCHANGED own
    /\ polls' = [polls EXCEPT ![n] = IF cfgs[n] = None /\ @ < MaxPolls THEN @ + 1 ELSE 0]
    /\ UNCHANGED <<nodeCIDR, exits, cniConf, host>>

\* One poll: the config is there, there is time for another poll, the time is over, or
\* the request fails.
waitForVSwitchConfig(n) ==
    /\ agent[n] = "wait"
    /\ \/ /\ cfgs[n] # None
          /\ own' = [own EXCEPT ![n] = cfgs[n].spec]
          /\ polls' = [polls EXCEPT ![n] = 0]
          /\ Goto(n, Setup[1])
          /\ UNCHANGED <<nodeCIDR, exits>>
       \/ /\ cfgs[n] = None /\ polls[n] < MaxPolls
          /\ polls' = [polls EXCEPT ![n] = @ + 1]
          /\ UNCHANGED <<agent, nodeCIDR, own, exits>>
       \/ cfgs[n] = None /\ polls[n] = MaxPolls /\ Off(n) /\ UNCHANGED exits
       \/ Fail(n)
    /\ UNCHANGED <<cniConf, host>>

\* A step of the set-up.  One that fails may have had its effect.
SetupHost(n) ==
    \E i \in DOMAIN Setup :
        LET new == [host EXCEPT ![n] = After(Setup[i], @, own[n])]
        IN  /\ agent[n] = Setup[i]
            /\ \/ /\ host' = new
                  /\ Goto(n, IF i = Len(Setup) THEN "newController" ELSE Setup[i + 1])
                  /\ UNCHANGED <<nodeCIDR, polls, own, exits>>
               \/ Fail(n) /\ (UNCHANGED host \/ host' = new)
            /\ UNCHANGED cniConf

\* NewOFConnect, NewController and the start of the goroutines.
Run(n) ==
    /\ agent[n] = "newController"
    /\ \/ Goto(n, "running") /\ UNCHANGED <<nodeCIDR, polls, own, exits>>
       \/ Fail(n)
    /\ UNCHANGED <<cniConf, host>>

AgentStep(n) ==
    Start(n) \/ installCNIConf(n) \/ waitForVSwitchConfig(n) \/ SetupHost(n) \/ Run(n)

\* The process is killed, or the machine reboots.
Stop(n) ==
    /\ agent[n] # "off" /\ Fail(n)
    /\ UNCHANGED host \/ host' = [host EXCEPT ![n] = Rebooted(@)]
    /\ UNCHANGED cniConf

\* The kubelet ends the pods of a node that was deleted.
Evict(n) ==
    /\ agent[n] # "off" /\ nodes[n] = None
    /\ Off(n)
    /\ UNCHANGED <<cniConf, host, exits>>

AssignedCIDRs ==
    cidrs' = [n \in Nodes |->
        IF nodes'[n] = None THEN cidrs[n] ELSE cidrs[n] \cup ({nodes'[n].podCIDR} \ {None})]

SysNext ==
    \/ Next /\ AssignedCIDRs /\ UNCHANGED agentVars
    \/ \E n \in Nodes : (AgentStep(n) \/ Stop(n) \/ Evict(n)) /\ UNCHANGED <<vars, cidrs>>

SysSpec == SysInit /\ [][SysNext]_sysVars

\* The controller's fairness, a process that goes on, and a container that is started
\* again whenever it ended.
SysFairSpec ==
    /\ SysSpec /\ Fairness
    /\ \A n \in Nodes : WF_sysVars(AgentStep(n) /\ UNCHANGED <<vars, cidrs>>)

-----------------------------------------------------------------------------
(* Properties *)

CIDRs == {node.podCIDR : node \in NodeSpecs}

\* Every variable has its type; main holds its node's pod CIDR from the start, and past the
\* wait its VSwitchConfig (main.go:90-115, 271-288).
AgentTypeOK ==
    /\ agent \in [Nodes -> {"off", "installCNIConf", "wait", "newController", "running"}
                             \cup {Setup[i] : i \in DOMAIN Setup}]
    /\ nodeCIDR \in [Nodes -> CIDRs \cup {None}] /\ cniConf \in [Nodes -> CIDRs \cup {None}]
    /\ polls \in [Nodes -> 0..MaxPolls]
    /\ own \in [Nodes -> ConfigSpec \cup {None}]
    /\ exits \in 0..MaxExits
    /\ \A n \in Nodes :
         /\ agent[n] # "off" <=> nodeCIDR[n] # None
         /\ agent[n] \notin {"off", "installCNIConf", "wait"} => own[n] \in ConfigSpec

\* A running k-vswitchd finds the bridge and the host as its own VSwitchConfig wants them,
\* whatever earlier starts, with other configs, left half-done and whatever a reboot took
\* away (main.go:117-192).
HostReady ==
    \A n \in Nodes : agent[n] = "running" =>
        /\ host[n].bridge /\ host[n].clusterWide /\ host[n].overlay = own[n].overlayType
        /\ host[n].controller /\ host[n].secure /\ host[n].forward
        /\ own[n].podCIDR \in host[n].addrs /\ own[n].clusterCIDR \in host[n].routes
        /\ forwardingRules(own[n]) \subseteq host[n].rules

\* The CNI plugin hands out addresses of, and the flows are made for, a pod CIDR that was
\* assigned to a node of this name: no half-registered node, stale event or time-out makes
\* k-vswitchd go on with an empty or a foreign one (main.go:83-115, vswitchcfg.go:141-149).
AssignedOnly ==
    \A n \in Nodes : agent[n] = "running" => {cniConf[n], own[n].podCIDR} \subseteq cidrs[n]

\* Once the cluster is quiet, k-vswitchd runs on every node that has an address and a pod
\* CIDR, however late its VSwitchConfig came and whatever failed before; and unless
\* the name had another pod CIDR before, node, bridge and CNI configuration agree
\* (main.go:60-288).
AgentsRun ==
    \A n \in Nodes :
        <>[](nodes[n] # None /\ Valid(nodes[n]) =>
                /\ agent[n] = "running"
                /\ cidrs[n] = {nodes[n].podCIDR} =>
                       cniConf[n] = nodes[n].podCIDR /\ own[n].podCIDR = nodes[n].podCIDR)
=============================================================================
