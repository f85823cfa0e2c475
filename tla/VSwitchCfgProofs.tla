-------------------------- MODULE VSwitchCfgProofs --------------------------
(***************************************************************************)
(* Proofs about VSwitchCfg, for any nodes, node contents, flags and bounds.*)
(***************************************************************************)
EXTENDS VSwitchCfg, SequenceTheorems, TLAPS

USE VSwitchCfgAssumption

\* A node's events carry its name; additions and updates carry the node too.
EventsOK ==
    \A n \in Nodes : \A i \in DOMAIN events[n] :
        /\ events[n][i].name = n
        /\ events[n][i].type \in {"add", "update"} => events[n][i].node # None

TypeInv == TypeOK /\ EventsOK

LastIsDelete(n) == events[n] # <<>> /\ events[n][Len(events[n])].type = "delete"

\* While nothing failed, the controller owes a deleted node's name a deletion as long as
\* anything is left of the node: its config, a handler at work on it or an unhandled event.
Owed ==
    \A n \in Nodes :
        nodes[n] = None /\ (cfgs[n] # None \/ (pc = "sync" /\ cur.name = n) \/ events[n] # <<>>) =>
            LastIsDelete(n)

\* While nothing failed, no deletion is a tombstone, and the process runs.
NoTombstone ==
    pc # "crashed" /\ \A n \in Nodes : \A i \in DOMAIN events[n] : events[n][i].type # "tombstone"

DeletionInv == faults = 0 => Owed /\ NoTombstone

-----------------------------------------------------------------------------
(* Types *)

\* The sequences a restart begins with.
LEMMA ShortSeqs == ASSUME NEW S PROVE <<>> \in Seq(S) /\ \A x \in S : <<x>> \in Seq(S)
<1>1. <<>> \in Seq(S)
  OBVIOUS
<1>2. ASSUME NEW x \in S PROVE <<x>> \in Seq(S)
  BY <1>2
<1>3. QED
  BY <1>1, <1>2

\* The config the controller computes for a node is made of the node's and the flags' strings.
LEMMA ConfigType ==
    ASSUME NEW node \in NodeSpecs, flags \in Flags PROVE nodeToVSwitchConfig(node) \in ConfigSpec
<1>1. {node.internalIP, node.externalIP, node.podCIDR} \subseteq Strings
  BY DEF Strings
<1>2. {flags.overlayType, flags.clusterCIDR, flags.serviceCIDR} \subseteq Strings
  BY DEF Strings
<1>3. QED
  BY <1>1, <1>2 DEF nodeToVSwitchConfig, nodeOverlayIP, nodePodCIDR, ConfigSpec

\* What the API server does with an accepted write.
LEMMA WriteType ==
    ASSUME TypeOK, NEW n \in Nodes, NEW spec \in ConfigSpec \cup {None}, Write(n, spec)
    PROVE  version' \in Nat /\ cfgs' \in [Nodes -> Config] /\ watch' \in [Nodes -> Seq(Config)]
<1> DEFINE obj == IF spec = None THEN None ELSE [version |-> version + 1, spec |-> spec]
<1>1. obj \in Config
  BY DEF TypeOK, Config
<1>2. version' = version + 1 /\ cfgs' = [cfgs EXCEPT ![n] = obj]
      /\ watch' = [watch EXCEPT ![n] = Append(@, obj)]
  BY DEF Write
<1> HIDE DEF obj
<1>3. QED
  BY <1>1, <1>2 DEF TypeOK

\* A queued event is of its type and is the last one of its node.
LEMMA NotifyType ==
    ASSUME TypeInv, NEW n \in Nodes, NEW type \in {"add", "update", "delete", "tombstone"},
           NEW node \in NodeSpecs \cup {None}, type \in {"add", "update"} => node # None,
           Notify(n, type, node)
    PROVE  events' \in [Nodes -> Seq(Event)] /\ EventsOK'
<1> DEFINE ev == [type |-> type, name |-> n, node |-> node]
<1>1. ev \in Event /\ ev.name = n /\ ev.type = type /\ ev.node = node
  BY DEF Event
<1>2. events' = [events EXCEPT ![n] = Append(events[n], ev)]
  BY DEF Notify
<1> HIDE DEF ev
<1>3. events' \in [Nodes -> Seq(Event)]
  BY <1>1, <1>2 DEF TypeInv, TypeOK
<1>4. ASSUME NEW m \in Nodes, NEW i \in DOMAIN events'[m]
      PROVE  /\ events'[m][i].name = m
             /\ events'[m][i].type \in {"add", "update"} => events'[m][i].node # None
  BY <1>1, <1>2, <1>4 DEF TypeInv, TypeOK, EventsOK
<1>5. QED
  BY <1>3, <1>4 DEF EventsOK

\* The next event of a node, and those left once it is taken.
LEMMA TakeType ==
    ASSUME TypeInv, NEW n \in Nodes, Take(n)
    PROVE  /\ Head(events[n]) \in Event /\ Head(events[n]).name = n
           /\ Head(events[n]).type \in {"add", "update"} => Head(events[n]).node \in NodeSpecs
           /\ events' \in [Nodes -> Seq(Event)] /\ EventsOK'
<1>1. events[n] \in Seq(Event) /\ events[n] # <<>> /\ events' = [events EXCEPT ![n] = Tail(events[n])]
  BY DEF TypeInv, TypeOK, Take
<1>2. Head(events[n]) = events[n][1] /\ 1 \in DOMAIN events[n] /\ Head(events[n]) \in Event
  BY <1>1
<1>3. Head(events[n]).node \in NodeSpecs \cup {None}
  BY <1>2 DEF Event
<1>4. events' \in [Nodes -> Seq(Event)]
  BY <1>1 DEF TypeInv, TypeOK
<1>5. ASSUME NEW m \in Nodes, NEW i \in DOMAIN events'[m]
      PROVE  /\ events'[m][i].name = m
             /\ events'[m][i].type \in {"add", "update"} => events'[m][i].node # None
  <2>1. CASE m = n
    <3>1. events'[m] = Tail(events[n]) /\ i + 1 \in DOMAIN events[n] /\ Tail(events[n])[i] = events[n][i + 1]
      BY <1>1, <1>5, <2>1 DEF TypeInv, TypeOK
    <3>2. QED
      BY <2>1, <3>1 DEF TypeInv, EventsOK
  <2>2. CASE m # n
    BY <1>1, <1>5, <2>2 DEF TypeInv, TypeOK, EventsOK
  <2>3. QED
    BY <2>1, <2>2
<1>6. QED
  BY <1>2, <1>3, <1>4, <1>5 DEF TypeInv, EventsOK

\* Before the first node there are no configs and no events.
LEMMA TypeInit == Init => TypeInv
BY DEF Init, TypeInv, TypeOK, EventsOK, Config

\* A change of the cluster keeps the types.
LEMMA TypeCluster ==
    ASSUME TypeInv, NEW n \in Nodes,
           \/ \E node \in NodeSpecs : AddNode(n, node) \/ UpdateNode(n, node)
           \/ RemoveNode(n) \/ Heartbeat(n)
    PROVE  TypeInv'
<1>1. ASSUME NEW node \in NodeSpecs, AddNode(n, node) \/ UpdateNode(n, node) PROVE TypeInv'
  <2>1. events' \in [Nodes -> Seq(Event)] /\ EventsOK'
    <3>1. \E type \in {"add", "update"} : Notify(n, type, node)
      BY <1>1 DEF AddNode, UpdateNode
    <3>2. QED
      BY <3>1, NotifyType
  <2>2. nodes' \in [Nodes -> NodeSpecs \cup {None}] /\ changes' \in 0..MaxChanges
    <3>1. nodes' = [nodes EXCEPT ![n] = node] /\ changes < MaxChanges /\ changes' = changes + 1
      BY <1>1 DEF AddNode, UpdateNode
    <3>2. QED
      BY <3>1 DEF TypeInv, TypeOK
  <2>3. QED
    BY <1>1, <2>1, <2>2 DEF TypeInv, TypeOK, AddNode, UpdateNode
<1>2. CASE RemoveNode(n)
  <2>1. events' \in [Nodes -> Seq(Event)] /\ EventsOK'
    <3>1. nodes[n] \in NodeSpecs
      BY <1>2 DEF TypeInv, TypeOK, RemoveNode
    <3>2. Notify(n, "delete", nodes[n]) \/ Notify(n, "tombstone", None)
      BY <1>2 DEF RemoveNode
    <3>3. QED
      BY <3>1, <3>2, NotifyType
  <2>2. nodes' \in [Nodes -> NodeSpecs \cup {None}] /\ changes' \in 0..MaxChanges
    BY <1>2 DEF TypeInv, TypeOK, RemoveNode
  <2>3. faults' \in 0..MaxFaults
    BY <1>2 DEF TypeInv, TypeOK, RemoveNode, Fault
  <2>4. QED
    BY <1>2, <2>1, <2>2, <2>3 DEF TypeInv, TypeOK, RemoveNode
<1>3. CASE Heartbeat(n)
  <2>1. nodes[n] \in NodeSpecs
    BY <1>3 DEF TypeInv, TypeOK, Heartbeat
  <2>2. events' \in [Nodes -> Seq(Event)] /\ EventsOK'
    BY <1>3, <2>1, NotifyType DEF Heartbeat
  <2>3. QED
    BY <1>3, <2>2 DEF TypeInv, TypeOK, Heartbeat, apiVars
<1>4. QED
  BY <1>1, <1>2, <1>3

\* So does a step of the informer or of a handler.
LEMMA TypeHandlers ==
    ASSUME TypeInv, NEW n \in Nodes,
           DeliverConfig(n) \/ OnAddOrUpdate(n) \/ OnDelete(n) \/ OnDeleteTombstone(n)
    PROVE  TypeInv'
<1>1. CASE DeliverConfig(n)
  <2>1. Head(watch[n]) \in Config /\ Tail(watch[n]) \in Seq(Config)
    BY <1>1 DEF TypeInv, TypeOK, DeliverConfig
  <2>2. QED
    BY <1>1, <2>1 DEF TypeInv, TypeOK, EventsOK, DeliverConfig, apiVars
<1>2. CASE OnAddOrUpdate(n)
  <2>1. Take(n)
    BY <1>2 DEF OnAddOrUpdate
  <2>2. pc' = "sync" => cur' \in Event /\ cur'.node # None
    <3>1. CASE pc' = "sync"
      <4>1. cur' = Head(events[n])
        BY <1>2, <2>1, <3>1 DEF OnAddOrUpdate, Take
      <4>2. QED
        BY <1>2, <2>1, <4>1, TakeType DEF OnAddOrUpdate
    <3>2. QED
      BY <3>1
  <2>3. pc' \in {"idle", "sync", "crashed"}
    BY <1>2 DEF TypeInv, TypeOK, OnAddOrUpdate
  <2>4. QED
    BY <1>2, <2>1, <2>2, <2>3, TakeType DEF TypeInv, TypeOK, OnAddOrUpdate, apiVars
<1>3. CASE OnDelete(n)
  <2>1. Take(n)
    BY <1>3 DEF OnDelete
  <2>2. version' \in Nat /\ cfgs' \in [Nodes -> Config] /\ watch' \in [Nodes -> Seq(Config)]
    <3>1. CASE Write(n, None)
      BY <3>1, WriteType DEF TypeInv
    <3>2. QED
      BY <1>3, <3>1 DEF OnDelete, TypeInv, TypeOK
  <2>3. faults' \in 0..MaxFaults
    BY <1>3 DEF OnDelete, TypeInv, TypeOK, Fault
  <2>4. QED
    BY <1>3, <2>1, <2>2, <2>3, TakeType DEF TypeInv, TypeOK, OnDelete
<1>4. CASE OnDeleteTombstone(n)
  <2>1. Take(n)
    BY <1>4 DEF OnDeleteTombstone
  <2>2. QED
    BY <1>4, <2>1, TakeType DEF TypeInv, TypeOK, OnDeleteTombstone, apiVars
<1>5. QED
  BY <1>1, <1>2, <1>3, <1>4

\* So does the request a handler ends with.
LEMMA TypeSync == ASSUME TypeInv, syncVSwitchConfig PROVE TypeInv'
<1>1. cur.name \in Nodes /\ cur.node \in NodeSpecs
  BY DEF TypeInv, TypeOK, syncVSwitchConfig, Event
<1>2. version' \in Nat /\ cfgs' \in [Nodes -> Config] /\ watch' \in [Nodes -> Seq(Config)]
  <2>1. nodeToVSwitchConfig(cur.node) \in ConfigSpec
    BY <1>1, ConfigType DEF TypeInv, TypeOK
  <2>2. CASE Write(cur.name, nodeToVSwitchConfig(cur.node))
    BY <1>1, <2>1, <2>2, WriteType DEF TypeInv
  <2>3. QED
    BY <2>2 DEF syncVSwitchConfig, TypeInv, TypeOK
<1>3. faults' \in 0..MaxFaults
  BY DEF syncVSwitchConfig, TypeInv, TypeOK, Fault
<1>4. QED
  BY <1>2, <1>3 DEF TypeInv, TypeOK, EventsOK, syncVSwitchConfig

\* So does a restart, after which every node is notified as an addition.
LEMMA TypeRestart == ASSUME TypeInv, Restart PROVE TypeInv'
<1> DEFINE ev(n) == [type |-> "add", name |-> n, node |-> nodes[n]]
<1>1. ASSUME NEW n \in Nodes
      PROVE  events'[n] \in {<<>>, <<ev(n)>>} /\ (events'[n] # <<>> => nodes[n] # None)
  BY DEF Restart
<1>2. \A n \in Nodes : ev(n) \in Event
  BY DEF TypeInv, TypeOK, Event
<1>3. events' \in [Nodes -> Seq(Event)]
  BY <1>1, <1>2 DEF Restart
<1>4. EventsOK'
  <2> SUFFICES ASSUME NEW n \in Nodes, NEW i \in DOMAIN events'[n]
               PROVE  /\ events'[n][i].name = n
                      /\ events'[n][i].type \in {"add", "update"} => events'[n][i].node # None
    BY DEF EventsOK
  <2>1. events'[n] = <<ev(n)>> /\ nodes[n] # None
    BY <1>1
  <2>2. events'[n][i] = ev(n)
    BY <2>1
  <2>3. QED
    BY <2>1, <2>2
<1>5. watch' \in [Nodes -> Seq(Config)] /\ cache' \in [Nodes -> Config]
  <2>1. None \in Config /\ \A n \in Nodes : cfgs[n] \in Config
    BY DEF TypeInv, TypeOK, Config
  <2>2. \A n \in Nodes : watch'[n] \in Seq(Config)
    BY <2>1, ShortSeqs DEF Restart
  <2>3. QED
    BY <2>1, <2>2 DEF Restart
<1>6. faults' \in 0..MaxFaults /\ flags' \in Flags
  BY DEF Restart, TypeInv, TypeOK, Fault
<1>7. QED
  BY <1>3, <1>4, <1>5, <1>6 DEF Restart, TypeInv, TypeOK, apiVars

\* Every step keeps the types.
LEMMA TypeNext == TypeInv /\ [Next]_vars => TypeInv'
<1> SUFFICES ASSUME TypeInv, [Next]_vars PROVE TypeInv'
  OBVIOUS
<1>1. CASE UNCHANGED vars
  BY <1>1 DEF vars, apiVars, infVars, TypeInv, TypeOK, EventsOK
<1>2. QED
  BY <1>1, TypeCluster, TypeHandlers, TypeSync, TypeRestart DEF Next

\* The invariant of the types holds in every state of every behaviour.
LEMMA TypeHolds == Spec => []TypeInv
BY TypeInit, TypeNext, PTL DEF Spec

\* The controller's state keeps its types, and the handler has a node exactly while it
\* syncs one (vswitchcfg.go:74-209).
THEOREM TypeCorrect == Spec => []TypeOK
BY TypeHolds, PTL DEF TypeInv

-----------------------------------------------------------------------------
(* Deletion *)

\* An appended element is the last one and leaves the others where they are.
LEMMA AppendLast ==
    ASSUME NEW S, NEW seq \in Seq(S), NEW e \in S
    PROVE  /\ Append(seq, e) # <<>> /\ Append(seq, e)[Len(Append(seq, e))] = e
           /\ \A i \in DOMAIN Append(seq, e) :
                Append(seq, e)[i] = e \/ (i \in DOMAIN seq /\ Append(seq, e)[i] = seq[i])
OBVIOUS

\* The last element stays the last one until it is the only one, and is taken then.
LEMMA TailLast ==
    ASSUME NEW S, NEW seq \in Seq(S), seq # <<>>
    PROVE  /\ Tail(seq) # <<>> => Tail(seq)[Len(Tail(seq))] = seq[Len(seq)]
           /\ Tail(seq) = <<>> => Head(seq) = seq[Len(seq)]
           /\ \A i \in DOMAIN Tail(seq) : i + 1 \in DOMAIN seq /\ Tail(seq)[i] = seq[i + 1]
           /\ 1 \in DOMAIN seq /\ Head(seq) = seq[1]
<1>1. Len(seq) \in Nat /\ Len(seq) >= 1 /\ DOMAIN seq = 1..Len(seq) /\ Head(seq) = seq[1]
  OBVIOUS
<1>2. /\ Len(Tail(seq)) = Len(seq) - 1 /\ DOMAIN Tail(seq) = 1..(Len(seq) - 1)
      /\ \A i \in 1..(Len(seq) - 1) : Tail(seq)[i] = seq[i + 1]
  OBVIOUS
<1>3. Tail(seq) # <<>> => Len(seq) >= 2
  <2>1. Tail(seq) \in Seq(S)
    OBVIOUS
  <2>2. Tail(seq) # <<>> => Len(Tail(seq)) \in Nat \ {0}
    BY <2>1, EmptySeq
  <2>3. QED
    BY <1>1, <1>2, <2>2
<1>4. Tail(seq) = <<>> => Len(seq) = 1
  <2>1. Tail(seq) = <<>> => Len(Tail(seq)) = 0
    BY EmptySeq
  <2>2. QED
    BY <1>1, <1>2, <2>1
<1>5. QED
  BY <1>1, <1>2, <1>3, <1>4

\* A deletion is owed as before to a node that a step does not concern.
LEMMA Untouched ==
    ASSUME Owed, NEW m \in Nodes, nodes'[m] = nodes[m], events'[m] = events[m],
           cfgs'[m] \in {cfgs[m], None}, pc' = "sync" /\ cur'.name = m => pc = "sync" /\ cur.name = m
    PROVE  (nodes'[m] = None /\ (cfgs'[m] # None \/ (pc' = "sync" /\ cur'.name = m) \/ events'[m] # <<>>))
               => LastIsDelete(m)'
BY DEF Owed, LastIsDelete

\* What a queued event of the node n, not a tombstone, does to the invariant.
LEMMA NotifyOwed ==
    ASSUME TypeInv, Owed, NoTombstone, NEW n \in Nodes, NEW type \in {"add", "update", "delete"},
           NEW node \in NodeSpecs \cup {None}, Notify(n, type, node),
           \A m \in Nodes \ {n} : nodes'[m] = nodes[m],
           nodes'[n] # None \/ type = "delete", UNCHANGED <<cfgs, pc, cur>>
    PROVE  Owed' /\ NoTombstone'
<1> DEFINE ev == [type |-> type, name |-> n, node |-> node]
<1>1. ev \in Event /\ ev.type = type
  BY DEF Event
<1>2. events' = [events EXCEPT ![n] = Append(events[n], ev)]
  BY DEF Notify
<1>3. events \in [Nodes -> Seq(Event)]
  BY DEF TypeInv, TypeOK
<1> HIDE DEF ev
<1>4. events'[n] = Append(events[n], ev) /\ \A m \in Nodes \ {n} : events'[m] = events[m]
  BY <1>2, <1>3
<1>5. events'[n] # <<>> /\ events'[n][Len(events'[n])].type = type
  BY <1>1, <1>3, <1>4, AppendLast
<1>6. Owed'
  <2> SUFFICES ASSUME NEW m \in Nodes
               PROVE  (nodes'[m] = None /\ (cfgs'[m] # None \/ (pc' = "sync" /\ cur'.name = m)
                          \/ events'[m] # <<>>)) => LastIsDelete(m)'
    BY DEF Owed
  <2>1. CASE m = n
    BY <1>5, <2>1 DEF LastIsDelete
  <2>2. CASE m # n
    BY <1>4, <2>2, Untouched
  <2>3. QED
    BY <2>1, <2>2
<1>7. NoTombstone'
  <2> SUFFICES ASSUME NEW m \in Nodes, NEW i \in DOMAIN events'[m]
               PROVE  events'[m][i].type # "tombstone"
    BY DEF NoTombstone
  <2>1. CASE m = n
    <3> DEFINE longer == Append(events[n], ev)
    <3>1. \A j \in DOMAIN longer : longer[j] = ev \/ (j \in DOMAIN events[n] /\ longer[j] = events[n][j])
      BY <1>1, <1>3, AppendLast
    <3>2. QED
      BY <1>1, <1>4, <2>1, <3>1 DEF NoTombstone
  <2>2. CASE m # n
    BY <1>4, <2>2 DEF NoTombstone
  <2>3. QED
    BY <2>1, <2>2
<1>8. QED
  BY <1>6, <1>7

\* A change of the cluster: a deletion queues what is owed.
LEMMA DeletionCluster ==
    ASSUME TypeInv, Owed, NoTombstone, faults = 0, faults' = 0, NEW n \in Nodes,
           \/ \E node \in NodeSpecs : AddNode(n, node) \/ UpdateNode(n, node)
           \/ RemoveNode(n) \/ Heartbeat(n)
    PROVE  Owed' /\ NoTombstone'
<1>1. ASSUME NEW node \in NodeSpecs, AddNode(n, node) PROVE Owed' /\ NoTombstone'
  <2>1. nodes'[n] # None /\ \A m \in Nodes \ {n} : nodes'[m] = nodes[m]
    BY <1>1 DEF AddNode, TypeInv, TypeOK
  <2>2. QED
    BY <1>1, <2>1, NotifyOwed DEF AddNode
<1>2. ASSUME NEW node \in NodeSpecs, UpdateNode(n, node) PROVE Owed' /\ NoTombstone'
  <2>1. nodes' = [nodes EXCEPT ![n] = node] /\ Notify(n, "update", node)
        /\ UNCHANGED <<cfgs, pc, cur>>
    BY <1>2 DEF UpdateNode
  <2>2. nodes'[n] # None /\ \A m \in Nodes \ {n} : nodes'[m] = nodes[m]
    BY <2>1 DEF TypeInv, TypeOK
  <2>3. QED
    BY <2>1, <2>2, NotifyOwed
<1>3. CASE RemoveNode(n)
  <2>1. Notify(n, "delete", nodes[n])
    BY <1>3 DEF RemoveNode, Fault
  <2>2. nodes[n] \in NodeSpecs \cup {None} /\ \A m \in Nodes \ {n} : nodes'[m] = nodes[m]
    BY <1>3 DEF RemoveNode, TypeInv, TypeOK
  <2>3. QED
    BY <1>3, <2>1, <2>2, NotifyOwed DEF RemoveNode
<1>4. CASE Heartbeat(n)
  <2>1. nodes[n] \in NodeSpecs \cup {None} /\ nodes' = nodes /\ nodes[n] # None
    BY <1>4 DEF Heartbeat, TypeInv, TypeOK, apiVars
  <2>2. QED
    BY <1>4, <2>1, NotifyOwed DEF Heartbeat, apiVars
<1>5. QED
  BY <1>1, <1>2, <1>3, <1>4

\* Taking an event: a deletion owed is still owed, or was the event taken, the last one.
LEMMA TakeOwed ==
    ASSUME TypeInv, NoTombstone, NEW n \in Nodes, Take(n)
    PROVE  /\ \A m \in Nodes \ {n} : events'[m] = events[m]
           /\ events[n] # <<>>
           /\ LastIsDelete(n) => LastIsDelete(n)' \/ (events'[n] = <<>> /\ Head(events[n]).type = "delete")
           /\ \A m \in Nodes : \A i \in DOMAIN events'[m] : events'[m][i].type # "tombstone"
           /\ Head(events[n]).type # "tombstone"
<1>1. events[n] \in Seq(Event) /\ events[n] # <<>>
  BY DEF TypeInv, TypeOK, Take
<1>2. events'[n] = Tail(events[n]) /\ \A m \in Nodes \ {n} : events'[m] = events[m]
  BY DEF TypeInv, TypeOK, Take
<1>3. /\ Tail(events[n]) # <<>> =>
             Tail(events[n])[Len(Tail(events[n]))] = events[n][Len(events[n])]
      /\ Tail(events[n]) = <<>> => Head(events[n]) = events[n][Len(events[n])]
      /\ \A i \in DOMAIN Tail(events[n]) :
             i + 1 \in DOMAIN events[n] /\ Tail(events[n])[i] = events[n][i + 1]
      /\ 1 \in DOMAIN events[n] /\ Head(events[n]) = events[n][1]
  BY <1>1, TailLast
<1>4. LastIsDelete(n) => LastIsDelete(n)' \/ (events'[n] = <<>> /\ Head(events[n]).type = "delete")
  BY <1>2, <1>3 DEF LastIsDelete
<1>5. ASSUME NEW m \in Nodes, NEW i \in DOMAIN events'[m] PROVE events'[m][i].type # "tombstone"
  <2>1. CASE m = n
    <3>1. i \in DOMAIN Tail(events[n]) /\ events'[m][i] = Tail(events[n])[i]
      BY <1>2, <1>5, <2>1
    <3>2. i + 1 \in DOMAIN events[n] /\ events'[m][i] = events[n][i + 1]
      BY <1>3, <3>1
    <3>3. QED
      BY <3>2 DEF NoTombstone
  <2>2. CASE m # n
    BY <1>2, <1>5, <2>2 DEF NoTombstone
  <2>3. QED
    BY <2>1, <2>2
<1>6. QED
  BY <1>1, <1>2, <1>3, <1>4, <1>5 DEF NoTombstone

\* A handler: the last event of a deleted node is its deletion, which takes the config away.
LEMMA DeletionHandlers ==
    ASSUME TypeInv, Owed, NoTombstone, faults = 0, faults' = 0, NEW n \in Nodes,
           DeliverConfig(n) \/ OnAddOrUpdate(n) \/ OnDelete(n) \/ OnDeleteTombstone(n)
    PROVE  Owed' /\ NoTombstone'
<1>1. CASE DeliverConfig(n)
  BY <1>1 DEF DeliverConfig, apiVars, Owed, NoTombstone, LastIsDelete
<1>2. CASE OnAddOrUpdate(n)
  <2>1. Take(n) /\ Head(events[n]).type # "delete" /\ Head(events[n]).name = n
    BY <1>2, TakeType DEF OnAddOrUpdate
  <2>2. /\ UNCHANGED <<nodes, cfgs>> /\ pc = "idle"
        /\ pc' = "sync" => cur' = Head(events[n])
        /\ pc' # "crashed"
    <3>1. UNCHANGED <<nodes, cfgs>> /\ pc = "idle"
      BY <1>2 DEF OnAddOrUpdate, apiVars, Take
    <3>2. (pc' = "sync" /\ cur' = Head(events[n])) \/ UNCHANGED <<pc, cur>>
      BY <1>2 DEF OnAddOrUpdate
    <3>3. QED
      BY <3>1, <3>2
  <2>3. ASSUME NEW m \in Nodes
        PROVE  (nodes'[m] = None /\ (cfgs'[m] # None \/ (pc' = "sync" /\ cur'.name = m)
                   \/ events'[m] # <<>>)) => LastIsDelete(m)'
    <3>1. CASE m = n
      BY <2>1, <2>2, <3>1, TakeOwed DEF Owed
    <3>2. CASE m # n
      BY <2>1, <2>2, <3>2, TakeOwed, Untouched
    <3>3. QED
      BY <3>1, <3>2
  <2>4. NoTombstone'
    BY <2>1, <2>2, TakeOwed DEF NoTombstone
  <2>5. QED
    BY <2>3, <2>4 DEF Owed
<1>3. CASE OnDelete(n)
  <2>1. Take(n) /\ UNCHANGED <<nodes, pc, cur>> /\ pc = "idle"
    BY <1>3 DEF OnDelete, Take
  <2>2. cfgs'[n] = None /\ \A m \in Nodes \ {n} : cfgs'[m] = cfgs[m]
    BY <1>3 DEF OnDelete, Write, Fault, TypeInv, TypeOK
  <2>3. ASSUME NEW m \in Nodes
        PROVE  (nodes'[m] = None /\ (cfgs'[m] # None \/ (pc' = "sync" /\ cur'.name = m)
                   \/ events'[m] # <<>>)) => LastIsDelete(m)'
    <3>1. CASE m = n
      BY <2>1, <2>2, <3>1, TakeOwed DEF Owed
    <3>2. CASE m # n
      BY <2>1, <2>2, <3>2, TakeOwed, Untouched
    <3>3. QED
      BY <3>1, <3>2
  <2>4. NoTombstone'
    BY <2>1, TakeOwed DEF NoTombstone
  <2>5. QED
    BY <2>3, <2>4 DEF Owed
<1>4. CASE OnDeleteTombstone(n)
  BY <1>4, TakeOwed DEF OnDeleteTombstone
<1>5. QED
  BY <1>1, <1>2, <1>3, <1>4

\* The handler's request: a config it brings back is owed its deletion, as the handler was.
LEMMA DeletionSync ==
    ASSUME TypeInv, Owed, NoTombstone, faults = 0, faults' = 0, syncVSwitchConfig
    PROVE  Owed' /\ NoTombstone'
<1>1. pc = "sync" /\ pc' = "idle" /\ UNCHANGED <<nodes, events>>
  BY DEF syncVSwitchConfig
<1>2. \A m \in Nodes : m # cur.name => cfgs'[m] = cfgs[m]
  BY DEF syncVSwitchConfig, Write, TypeInv, TypeOK
<1>3. QED
  BY <1>1, <1>2 DEF Owed, NoTombstone, LastIsDelete

\* The invariant is inductive; a restart is a fault or follows one.
LEMMA DeletionNext == TypeInv /\ DeletionInv /\ [Next]_vars => DeletionInv'
<1> SUFFICES ASSUME TypeInv, DeletionInv, [Next]_vars, faults' = 0 PROVE Owed' /\ NoTombstone'
  BY DEF DeletionInv
<1>1. faults = 0
  <2>1. faults \in Nat /\ (faults' = faults \/ faults' = faults + 1)
    BY DEF Next, vars, AddNode, UpdateNode, RemoveNode, Heartbeat, DeliverConfig, OnAddOrUpdate,
       OnDelete, OnDeleteTombstone, syncVSwitchConfig, Restart, Fault, TypeInv, TypeOK
  <2>2. QED
    BY <2>1
<1>2. Owed /\ NoTombstone
  BY <1>1 DEF DeletionInv
<1>3. CASE Restart
  BY <1>1, <1>2, <1>3 DEF Restart, Fault, NoTombstone
<1>4. CASE UNCHANGED vars
  BY <1>2, <1>4 DEF vars, apiVars, infVars, Owed, NoTombstone, LastIsDelete
<1>5. QED
  BY <1>1, <1>2, <1>3, <1>4, DeletionCluster, DeletionHandlers, DeletionSync DEF Next

\* Without faults a VSwitchConfig outlives its node only until the deletion is handled,
\* however the cache lags and whatever handler was on its way (vswitchcfg.go:97-129, 161-193).
THEOREM DeletionCorrect == Spec => []DeletionApplied
<1>1. Init => DeletionInv
  BY DEF Init, DeletionInv, Owed, NoTombstone
<1>2. DeletionInv => DeletionApplied
  BY DEF DeletionInv, Owed, LastIsDelete, DeletionApplied
<1>3. QED
  BY <1>1, <1>2, TypeHolds, DeletionNext, PTL DEF Spec
=============================================================================
