# A TLA+ verification of k-vswitch

k-vswitch is a Kubernetes network on Open vSwitch. This directory models its
own logic (not the vendored libraries), checks the models with TLC and proves
every safety invariant that is checked, for every instance, with TLAPS.

## The system

| Component | State | Operations | Hard behaviour |
|---|---|---|---|
| Flow controller of k-vswitchd (`controllers/openflow/flows.go`, `port_cache.go`, `flows/buffer.go`) | flow buffer, port cache, `flowsLock`; reads three informer caches | informer handlers, periodic resync, `syncFlows` | four goroutines over one buffer; caches that move while a sync runs; failed commands; restarts |
| Flow pipeline (`flows.go`, `flows/flows.go`) | the flows of a bridge | generation of default, VSwitchConfig, pod and policy flows | priorities of flows generated apart from each other; a packet's way over two bridges |
| OpenFlow connection manager (`connection/`, `controllers/openflow/controller.go`) | message queue, current connection, two mutexes with condition variables | `Send`, `SetConnection`, `ProcessQueue`, `Serve`, `handleConn`, `Run` | lost wakeups, reconnection in the middle of a write, blocking writes |
| k-vswitch-controller (`controllers/vswitchcfg`) | none but the caches of its informers | `OnAdd`, `OnUpdate`, `OnDelete`, `syncVSwitchConfig` | stale cache, errors that are only logged, tombstones, restarts |
| k-vswitch-cni (`cmd/k-vswitch-cni`) | veth pairs, OVS ports, addresses of the IPAM plugin | `cmdAdd`, `cmdDel` | failure between two steps, killed processes, repeated DEL |
| Start-up of k-vswitchd (`cmd/k-vswitchd/main.go`) | bridge, links, routes, iptables, CNI configuration | one sequence | a wait that times out; starts on a host that earlier ones, with other configs, left half-done; informer caches are not waited for |
| API types and generated clients (`apis/`) | none | none | not modelled |

How they interact: k-vswitch-controller turns nodes into VSwitchConfigs; every
k-vswitchd watches VSwitchConfigs, pods and policies and programs its bridge;
k-vswitch-cni writes a pod's port into the OVS database, where k-vswitchd's port
cache finds it; the bridge connects to k-vswitchd's OpenFlow listener.

What makes each correct: no change of the caches is forgotten and the bridge
converges (flow controller); packets end where the cluster and its policies say
(pipeline); messages are neither lost nor reordered and nobody sleeps with work
to do (connection manager); every node gets its config and no config outlives
its node (controller); a command leaves either a complete sandbox or nothing,
and addresses return to the pool (CNI); a process that runs has its host ready, for
a pod CIDR that is its node's, and in the end it does run (start-up).

## Modules

* **FlowSync**: the flow controller. An informer step updates the cache and
  queues the notification (`DeliverPod`...); a handler step takes it
  (`OnAddPod`...) and may put its goroutine at `lock`. `SyncBegin` takes
  `flowsLock`, resets the buffer and writes default and VSwitchConfig flows.
  Listing the pods, one step per pod, listing the policies, two steps per policy
  (its own pods, its peers) and `replace-flows` follow, and between them the
  caches may change. Flows are records of purpose, key and value.
  `CachedPort`, `FetchedPort` and `NoPort` are the outcomes of `GetPortInfo`.
* **Pipeline**: the flows themselves. Each generator of `flows.go` is an operator
  that returns a set of flows; a CIDR is the set of its addresses. `Lookup`
  applies one flow of the highest priority that matches; a tunnel moves the packet to
  the other node's bridge. Where flows of equal priority match, Open vSwitch's
  choice is nondeterministic. A scenario is a set of policies and, per node, the
  VSwitchConfigs in its cache, which may lack some and hold one whose node is gone
  (a tunnel to its address loses the packet: the address is taken not to be in use again).
* **OFConnect**: the connection manager and the loop of `Run`. Each step is the code
  between two points where another goroutine can interfere: a lock, an unlock,
  a `Wait`, a blocking read or write. The switch and TCP are external. TCP is a stream: a
  socket holds messages, and perhaps the rest of one that a read cut in two. `ReadAhead` is what the
  new `bufio.Reader` of every turn takes and drops: any number of messages, the last of
  them perhaps in part. `ReadMessage` parses the first of them, by its header; a `Read` that comes
  short pads it with zeros, which changes no message's type. Once a message was cut, the framing is
  lost (`Framed`): its rest is taken for a header, parses to anything, and where the next header is taken
  to be is open too. Such bytes may also be too few for a header, so that a read of them may never come.
* **Channel**: what OFConnect promises, a fair FIFO channel. `Chan` in OFConnect maps
  the queue to `pending` and the written messages to `delivered`: `Send` puts, a
  successful `Write` takes, every other step stutters.
* **VSwitchCfg**: k-vswitch-controller. `needsUpdate` and `syncVSwitchConfig` read
  the cache separately. The API server accepts an update only of the version it has.
  Reading the cache and sending the request are one step: the cache can only move
  forward meanwhile, and the request no longer depends on it. `FaultKinds` names what may fail
  in an instance: requests, the watch (a deletion is then notified by a tombstone), the process.
* **NodeStart**: `main` of k-vswitchd on every node, which EXTENDS VSwitchCfg and shares
  its nodes and VSwitchConfigs. One step per call that can fail; `os.Exit` and `Stop`
  lose the process's locals, and a reboot also what the kernel holds. The
  steps of the set-up are functions from host to host, applied in `main`'s order to whatever
  earlier starts left. A container that cannot start yet (no node, no pod CIDR) is not started:
  the code exits at once and nothing has changed.
* **CNI**: `cmdAdd` and `cmdDel`, one step per external effect. A failed step leaves
  all it did or nothing, the steps of the IPAM plugin included; `Kill` ends a command without its
  deferred functions. A failed ADD keeps its address in three ways besides: `ExecAdd` failed after it
  stored the address, which is before the release is deferred (`plugin.go:412-418`); the release
  failed; or only the result could not be printed, which is after `success` was set (`plugin.go:531-533`).
* **Attachment**: what CNI promises. A sandbox is attached once, with an address no other
  has, and once detached stays so. `Att` in CNI derives a sandbox's status from
  the history of ADDs and from whether it still has its port, veth pair and address.
* **MC...** give the constants values for TLC. **FlowSyncProofs**, **FlowSyncCoverProofs**,
  **OFConnectProofs**, **OFMessageProofs**, **PipelineProofs**, **VSwitchCfgProofs**,
  **NodeStartProofs** and **CNIProofs** hold the theorems.

Definitions named `X_...` and commented "Mutant" are variants of `X` with a plausible
bug; replacing `X` by one makes the property it belongs to fail.

## Runs

| Run | Checks | Instance |
|---|---|---|
| flowsync_safety | TypeOK, PodCovered, ListedPodsFresh, PolicyCovered | two pods, three addresses, one policy with two specs, four changes, tombstones |
| flowsync_faults | CfgCovered, PolicyCovered, EventuallyConsistent | one pod, one config with two specs, one policy, a failed command, a restart |
| flowsync_portcache | *violates* PortsFollowCNI | one pod, two ports |
| ofconnect_queue | TypeOK, HeadExists, ConnSet, QueueFIFO, NoLostWakeup, AnsweredOnce, EventuallyDrained, LostConnsClose, IsChannel | two connections, one message sent unasked, one read that ends inside a message, a socket of one message |
| ofconnect_hello | *violates* HelloFirst | two connections |
| pipeline_policies | Routed, NeverMisdelivered, SenderViewSuffices, ArpAnswered, PolicyEnforced, NoOpenDoor, WayShortens, EveryPacketEnds | two nodes and the config of a third, three pods, 39 sets of nine policies, 25 views, every packet |
| pipeline_samenode | *violates* OnlyAllowed | two pods of one node |
| vswitchcfg_configs | TypeOK, DeletionApplied, ConfigsConverge | one node, four changes, two faults of any kind, three sets of flags |
| vswitchcfg_orphan | *violates* EveryConfigHasNode | one node, two changes, a lost watch and no other fault |
| nodestart_agents | AgentTypeOK, HostReady, AssignedOnly, AgentsRun | one node, three changes, two pod CIDRs, two failures or reboots, time-outs |
| cni_commands | TypeOK, AddComplete, NoSharedAddress, DelComplete, DelReleases, IsAttachment | two sandboxes, one address, two faults |
| cni_repeat | *violates* DelReleases | one sandbox, one fault |

What they show, beyond what the table's names say: a sync of the flow controller works on
caches that change under it, and its handlers and timer make up for that
(flowsync); a switch may come back at any point of a write, and garbage read from one connection
harms neither the queue nor the end of that connection (ofconnect); the halves
of a policy that two nodes program apart agree, and what a node does not know yet
costs packets but never hands them to the wrong pod or host (pipeline); node status updates repair
what a stale cache or a refused request left (vswitchcfg); the set-up of a node may be
cut off anywhere and repeated (nodestart); a sandbox is complete or on its way
out, and what failed ADDs leave is what DEL cleans up (cni). A run that *violates* its property exhibits a finding below.

### Bounds

Two pods and two local addresses are what an address taken over needs; four
changes allow create, address, policy and deletion in any order during a sync.
Two connections are what a reconnection needs, a socket of one message makes
`Write` block; one read that ends inside a message loses the framing until
a later read happens to end between two messages. The three sets of flags differ in the
overlay type, or in all three flags. Two nodes with two pods and one pod cover sender and receiver on
one node and on two; one address without a pod, one of the cluster CIDR without
a node and one outside are there too. Beside every subset of five policies there are
sets with a named port, a namespace selector that matches nothing, an ipBlock with ports
and an exception that another policy allows, and a policy of one type with peers that have no
pod selector; views go from empty to complete, with
and without the config of a node whose pod CIDR was assigned again. A node of NodeStart is created,
deleted and created with another pod CIDR, which takes three changes; one poll before the time-out
tells a config that comes in time from one that does not; two failures allow one at any
step and another in the start that follows. Two sandboxes contend for one address, so
the pool is exhausted as well as reused. The handlers of k-vswitch-controller touch one
name each, so one node has its interesting behaviours and a second one would only
compete for the handler.

Where a cfg says `CHECK_DEADLOCK FALSE` the system may stop: a switch falls
silent, a packet's way ends, a cluster without nodes changes no more.

### Fairness

* FlowSync: informers deliver, goroutines run, the one-minute timer fires. `SyncBegin` is
  strongly fair: a Go mutex hands itself to a goroutine that waited for long.
* OFConnect: goroutines run, the switch reads and, having lost its connection,
  dials again. `SetConnection`, `Send` and the channel's receiver are strongly fair,
  by the mutexes' starvation mode and the channel's FIFO queue of senders. A handler reads what is there as long
  as the framing holds; with lost framing nothing is assumed but that it sees the end of the stream.
* Pipeline: a packet is looked up until it ends.
* NodeStart: that of VSwitchCfg, and `main` goes on, the container being started again
  whenever it ended (a DaemonSet). Time-outs are not bounded, failures are.
* VSwitchCfg: kubelets write node statuses for ever, which is the only retry the
  code has. The listener's queue is FIFO; the model keeps a queue per node, so
  taking an event is strongly fair.
* CNI: commands go on, the kubelet repeats DEL after a failed command. `cni_commands` also
  assumes that the runtime removes the namespace of a deleted sandbox; `cni_repeat`
  shows what happens until then (the repeated DEL changes nothing, so the
  counterexample ends in stuttering).

## Findings

* A recreated sandbox keeps the flows of its old port: `GetPortInfo` trusts its cache
  and only the pod's deletion clears it (`port_cache.go:60`).
* The hello is sent once per process, not per connection (`controller.go:121`).
* On one node an egress rule of the sender overrides the ingress isolation of
  the receiver (`flows.go:340`, `466`, `640`). Between nodes the two halves agree,
  which PolicyEnforced shows.
* `OnDelete` panics on a tombstone, and the VSwitchConfig stays (`vswitchcfg.go:121`).
* A repeated DEL fails at `findPort` and never releases the address (`plugin.go:551`).

Seen while modelling and not the subject of a run; the properties are stated so that they
say what holds beside it:

* Every message gets its own `bufio.Reader`, and what it read ahead is lost
  (`connection.go:158`), and the count `Read` returns is ignored (`connection.go:172`). Messages are lost, and
  after a read that ended inside one the handler parses what the switch never said. No property claims
  otherwise: AnsweredOnce speaks of what was parsed, EventuallyDrained and LostConnsClose say that garbage
  stops neither the queue nor the end of a connection.
* The flows do not take a policy as the API does, and `Programmed` puts together how they take it.
  They are wider in three ways: a named port
  opens every port of its protocol (`flows/flows.go:84`), a namespace selector that matches
  nothing stands for the policy's namespace (`flows.go:437`), an ipBlock is
  opened on all ports (`flows.go:392`). They are narrower in three: `policyTypes` is not read, so that every
  policy isolates both directions (`flows.go:320`), a peer without a pod selector is skipped
  (`flows.go:421`, `593`), and an `except` outranks what other rules allow (`flows.go:402`).
  PolicyEnforced and NoOpenDoor say that nothing is delivered but what `Programmed` allows; PolicyEnforced
  claims delivery of all the API allows where the policies are `Plain` (none is narrowed in the first
  two ways) and the packet is not `Excepted`.
* A changed service CIDR is not written to existing configs (`vswitchcfg.go:151`), so
  ConfigsConverge leaves it out.
* k-vswitchd reads its VSwitchConfig once. After its node's name got another pod CIDR, the CNI
  configuration and the bridge may disagree until the next start; AgentsRun claims their agreement
  for names with one pod CIDR only.
* The key `isGateway` of the installed CNI configuration matches no field, since the tag of
  `IsGW` lacks its closing quote (`plugin.go:59`): `ensureBridgeAddr` never runs, and
  the bridge has its address from k-vswitchd's start-up alone.

## Proofs

* `FlowSyncProofs!TypeCorrect`: `Spec => []TypeOK`. TypeOK includes that exactly the
  holder of `flowsLock` is inside `syncFlows`, which makes the locals of a sync
  well defined. One lemma per group of actions.
* `FlowSyncCoverProofs`: `CfgCorrect`, `PodCorrect`, `ListedCorrect` and `PolicyCorrect`, that
  CfgCovered, PodCovered, ListedPodsFresh and PolicyCovered always hold, from the lemma `CoverHolds`.
  PodCovered is not inductive: a sync may put the port of a pod it listed earlier into
  the cache, and the pod may have another address by then. `ListedPodsFresh` adds that
  such a pod has a sync to come. The argument: a step that changes a cache queues a
  notification that is `Pending` or concerns no flow covered; a step that takes
  a notification puts its goroutine at `lock`, which is `Pending` too; a sync that
  takes the last pending lock has its whole way ahead; each step of a sync moves an
  object from what is still to do to the buffer.
* `OFConnectProofs`: `TypeCorrect`, `HeadCorrect`, `ConnCorrect`, `WakeupCorrect` and
  `QueueCorrect`, from the inductive `IInv`, the conjunction of the five
  invariants. HeadExists needs NoLostWakeup and the mutexes (only `ProcessQueue` shortens the
  queue), QueueFIFO needs HeadExists (the head moves from the queue to what is written).
  `ImplementsChannel` is `Spec => Chan!Spec`, step by step; a successful write is a `Take`
  because of HeadExists. The fairness of `IsChannel` is left to TLC.
* `OFMessageProofs`: `AnsweredCorrect`. AnsweredOnce counts;
  `AccountInv` keeps the account of each kind, parsed = given + held by handlers + in `Run`'s hands, as cardinalities
  of finite sets of positions, with the hand-over (`HandOver`): a handler holds a message only while it
  delivers it, and `Run` an answer only until it sent it.
* `PipelineProofs`, for any nodes, pods, addresses, views and policies. First, what the generators
  make: one lemma per table says which flows it has, one per policy table which priorities a packet
  meets there. Then one lemma per table says what a lookup does; that of the policy table is that a packet passes exactly
  if this bridge `Admits` it (no exception, and some rule opens if any policy isolates one of its ends
  here). The inductive `IInv` (`WayCorrect`) has where the packet is and through which tunnel it came, that
  every bridge behind it admitted it (`Where`, `InTable`), and how it may end (`EndOK`).
  `RoutedCorrect`, `NeverMisdeliveredCorrect`, `SenderViewSufficesCorrect` and `ArpAnsweredCorrect`
  follow from it; `PolicyEnforcedCorrect` and `NoOpenDoorCorrect` also need that the rules that open a packet
  are those that allow it in `Programmed`, and that for `Plain` policies those the API has
  are among them. `WayShortensCorrect` is the measure behind EveryPacketEnds: tables only resubmit
  to later ones, and a packet out of a tunnel is not tunnelled again.
* `VSwitchCfgProofs`: `TypeCorrect`, from `TypeInv`, which adds that every queued event has its
  shape; `DeletionCorrect`, that DeletionApplied always holds, from `DeletionInv`. The
  latter says more (`Owed`): as long as anything is left of a deleted node, its config, a handler
  at work on it or an unhandled event, the last event queued is the deletion; and without a
  fault there is no tombstone.
* `NodeStartProofs`: every step of the composed system is one of the controller or leaves its variables alone, as `SysNext` is
  written, so the controller's `TypeInv` is used here too. `AgentTypeCorrect`, `HostReadyCorrect` and
  `AssignedOnlyCorrect` follow from the inductive `SysInv` (`SysInvariant`). HostReady is not inductive: it speaks of
  the running process only. `SetupInv` says of every step of `main` that if it is behind the agent
  (`Behind`), its mark (`Has`) is on the host; a step leaves its mark and takes no other one's
  away (`AfterHas`), and a process that ended has no step behind it, so reboots and half-done starts do no harm.
  AssignedOnly needs the whole way of a pod CIDR: it was assigned to the name wherever it is found, in the node,
  its queued events, the handler, the VSwitchConfig, or the agent's variables
  (`CtlAssigned`, `AgentAssigned`); a config is written only for a node that has one.
* `CNIProofs`: `TypeCorrect`, `AddCorrect`, `DelCorrect` and `AddressesDistinct`, from one
  `IInv`: what an ADD has done when it is at a given step (`AddProgress`), what a
  DEL has undone (`DelProgress`: the port goes before the address; `Undone`: each of its steps leaves nothing
  of its own behind, and a namespace that is gone took the veth pair with it), and that the
  IPAM plugin holds an address once (`Distinct`). DelComplete is `Undone` at the last step. NoSharedAddress follows from the last
  two: a sandbox with a port and an address on its interface still has it from the
  IPAM plugin. `ImplementsAttachment` is `Spec => Att!Spec`.

The assumptions are the named `ASSUME`s of the modules: disjoint sets of values and
natural bounds; for Pipeline also that nodes' CIDRs, pods' addresses and gateways are
distinct, as the cluster assigns them, and that policies are as the API server admits them (`WellFormed`).
The bounds are part of the specifications but unrestricted, so the
theorems hold for any number of changes, faults, restarts and connections.

Only model-checked: all liveness (EventuallyConsistent, EventuallyDrained, LostConnsClose, EveryPacketEnds, ConfigsConverge,
AgentsRun, DelReleases) and the fairness in IsChannel and IsAttachment, since fairness is beyond the
prover. Every invariant and the action property of the passing runs are theorems.

## Not modelled

The wording of flows, commands and OpenFlow messages; MAC addresses, apart from ARP being
answered; `MatchExpressions` of selectors, which the code ignores; panics of the flow generators
(a policy port without a number, `flows.go:365`) and of the OpenFlow parser on garbage, which
end the process (the next one starts from OFConnect's Init); the data race on `err` in
`buffer.go:72`, whose outcomes `SyncReplace` includes; the branches of the CNI plugin that
the installed configuration never takes (IsGW, IPMasq, IPv6, forced bridge addresses); packets
on a bridge that is not programmed yet; API types, generated and vendored code.

## Hazards

PROJECT.json lists, at the lines where they bite, the behaviours a test would hardly reach,
with the properties that watch them; those without one say why.

## Plan

1. *Composition of CNI and FlowSync*: ports and addresses as the commands of CNI make them
   instead of FlowSync's `AddPort` and `DelPort`.
2. *An abstract "bridge follows the cluster"* that FlowSync implements. Its safety part is in CfgCovered,
   PodCovered and PolicyCovered already; the step-by-step refinement is left.
