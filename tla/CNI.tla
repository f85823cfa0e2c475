-------------------------------- MODULE CNI ---------------------------------
(***************************************************************************)
(* k-vswitch-cni: the ADD and DEL commands of the CNI plugin               *)
(* (cmd/k-vswitch-cni), run by the kubelet for the sandboxes of a node's   *)
(* pods.                                                                   *)
(*                                                                         *)
(* A command runs a sequence of steps, each of which may fail or be the    *)
(* last one because the process is killed; commands for different          *)
(* sandboxes run concurrently, those for one sandbox one after the other.  *)
(* The configuration is the one k-vswitchd installs, with host-local IPAM  *)
(* and neither IPMasq nor, as its key does not match the field's name,     *)
(* IsGW.  The kubelet, the kernel and the IPAM plugin are external.        *)
(***************************************************************************)
EXTENDS Naturals

CONSTANTS
    Sandboxes,   \* container IDs
    Addrs,       \* the addresses of the node's pod CIDR the IPAM plugin hands out
    None,        \* no address
    MaxFaults    \* bound: failed steps and killed processes together

ASSUME CNIAssumption == None \notin Addrs /\ "gone" \notin Addrs /\ MaxFaults \in Nat

VARIABLES
    phase,       \* per sandbox: the next step of its command, or how the last one ended
    netns,       \* sandboxes whose network namespace exists
    delNetns,    \* sandboxes whose running DEL was given a network namespace
    veth,        \* sandboxes with a veth pair
    iface,       \* per sandbox: the address of its interface
    ports,       \* sandboxes with a port, external-ids included, in the OVS database
    ipam,        \* per sandbox: the address the IPAM plugin holds for it
    added,       \* history: sandboxes whose ADD succeeded
    faults

vars == <<phase, netns, delNetns, veth, iface, ports, ipam, added, faults>>

AddSteps == {"setupVeth", "addPort", "ipamAdd", "configure", "finish"}
DelSteps == {"delPort", "ipamDel", "delLink"}
Results  == {"new", "added", "addFailed", "delFailed", "deleted"}

Init ==
    /\ phase = [s \in Sandboxes |-> "new"]
    /\ netns = Sandboxes
    /\ delNetns = {} /\ veth = {} /\ ports = {} /\ added = {}
    /\ iface = [s \in Sandboxes |-> None]
    /\ ipam = [s \in Sandboxes |-> None]
    /\ faults = 0

Goto(s, p) == phase' = [phase EXCEPT ![s] = p]

Fault == faults < MaxFaults /\ faults' = faults + 1

\* What a step leaves behind when it fails: all it did, or nothing.
DoneOrNot(var, value) == var' = value \/ UNCHANGED var

-----------------------------------------------------------------------------
(* cmdAdd *)

\* The kubelet calls ADD: the configuration, the bridge and the namespace are looked up.
AddBegin(s) ==
    /\ phase[s] = "new" /\ s \in netns
    /\ \/ Goto(s, "setupVeth") /\ UNCHANGED faults
       \/ Fault /\ Goto(s, "addFailed")
    /\ UNCHANGED <<netns, delNetns, veth, iface, ports, ipam, added>>

\* The veth pair and its MAC address; the pod's name.
SetupVeth(s) ==
    /\ phase[s] = "setupVeth"
    /\ \/ /\ s \in netns
          /\ veth' = veth \cup {s} /\ Goto(s, "addPort") /\ UNCHANGED faults
       \/ s \in netns /\ Fault /\ DoneOrNot(veth, veth \cup {s}) /\ Goto(s, "addFailed")
       \/ s \notin netns /\ Goto(s, "addFailed") /\ UNCHANGED <<veth, faults>>
    /\ UNCHANGED <<netns, delNetns, iface, ports, ipam, added>>

\* The OVS port, then the host's end of the pair is set up.
AddPort(s) ==
    /\ phase[s] = "addPort"
    /\ \/ ports' = ports \cup {s} /\ s \in veth /\ Goto(s, "ipamAdd") /\ UNCHANGED faults
       \/ ports' = ports \cup {s} /\ s \notin veth /\ Goto(s, "addFailed") /\ UNCHANGED faults
       \/ Fault /\ DoneOrNot(ports, ports \cup {s}) /\ Goto(s, "addFailed")
    /\ UNCHANGED <<netns, delNetns, veth, iface, ipam, added>>

\* An address of the pool, if one is free.  The release is deferred only when the IPAM plugin
\* has succeeded: one that fails with the address stored leaves it there.
IpamAdd(s) ==
    LET free == Addrs \ {ipam[t] : t \in Sandboxes}
    IN  /\ phase[s] = "ipamAdd"
        /\ \/ /\ \E a \in free : ipam' = [ipam EXCEPT ![s] = a]
              /\ Goto(s, "configure") /\ UNCHANGED faults
           \/ free = {} /\ Goto(s, "addFailed") /\ UNCHANGED <<ipam, faults>>
           \/ /\ Fault /\ Goto(s, "addFailed")
              /\ \E a \in free : DoneOrNot(ipam, [ipam EXCEPT ![s] = a])
        /\ UNCHANGED <<netns, delNetns, veth, iface, ports, added>>

\* The deferred release of the address; its own error is ignored.
Release(s) == DoneOrNot(ipam, [ipam EXCEPT ![s] = None])

\* Mutant: the address is added in the host's namespace if the container's is gone.
Configure_AnyNetns(s) ==
    /\ phase[s] = "configure"
    /\ iface' = [iface EXCEPT ![s] = ipam[s]]
    /\ Goto(s, "finish")
    /\ UNCHANGED <<netns, delNetns, veth, ports, ipam, added, faults>>

\* The address and the routes of the container's interface.
Configure(s) ==
    /\ phase[s] = "configure"
    /\ \/ /\ s \in netns
          /\ iface' = [iface EXCEPT ![s] = ipam[s]]
          /\ Goto(s, "finish") /\ UNCHANGED <<ipam, faults>>
       \/ /\ s \in netns /\ Fault
          /\ DoneOrNot(iface, [iface EXCEPT ![s] = ipam[s]])
          /\ Release(s) /\ Goto(s, "addFailed")
       \/ s \notin netns /\ Release(s) /\ Goto(s, "addFailed") /\ UNCHANGED <<iface, faults>>
    /\ UNCHANGED <<netns, delNetns, veth, ports, added>>

\* Mutant: success is never set, so the deferred release always runs.
Finish_NoSuccess(s) ==
    /\ phase[s] = "finish"
    /\ \/ Goto(s, "added") /\ added' = added \cup {s} /\ Release(s) /\ UNCHANGED faults
       \/ Fault /\ Release(s) /\ Goto(s, "addFailed") /\ UNCHANGED added
    /\ UNCHANGED <<netns, delNetns, veth, iface, ports>>

\* The bridge is looked up again and the result printed.  Success is set in between, so an
\* ADD that fails to print its result keeps the address.
Finish(s) ==
    /\ phase[s] = "finish"
    /\ \/ Goto(s, "added") /\ added' = added \cup {s} /\ UNCHANGED <<ipam, faults>>
       \/ Fault /\ Release(s) /\ Goto(s, "addFailed") /\ UNCHANGED added
       \/ Fault /\ Goto(s, "addFailed") /\ UNCHANGED <<ipam, added>>
    /\ UNCHANGED <<netns, delNetns, veth, iface, ports>>

-----------------------------------------------------------------------------
(* cmdDel *)

\* The port is found by the sandbox's network namespace and its pod's name.
findPort(s) == s \in ports

\* Mutant: the port is looked for also without a network namespace.
DelBegin_AlwaysFind(s) ==
    /\ phase[s] \in Results \ {"new"}
    /\ delNetns' = IF s \in netns THEN delNetns \cup {s} ELSE delNetns \ {s}
    /\ Goto(s, IF findPort(s) THEN "delPort" ELSE "delFailed")
    /\ UNCHANGED <<netns, veth, iface, ports, ipam, added, faults>>

\* Mutant: the port is not deleted.
DelBegin_KeepPort(s) ==
    /\ phase[s] \in Results \ {"new"}
    /\ delNetns' = IF s \in netns THEN delNetns \cup {s} ELSE delNetns \ {s}
    /\ Goto(s, "ipamDel")
    /\ UNCHANGED <<netns, veth, iface, ports, ipam, added, faults>>

\* The kubelet calls DEL, without a network namespace once that is gone, and may call it
\* again after any result.  With one, findPort returns an error if there is no port.
DelBegin(s) ==
    /\ phase[s] \in Results \ {"new"}
    /\ delNetns' = IF s \in netns THEN delNetns \cup {s} ELSE delNetns \ {s}
    /\ \/ s \notin netns /\ Goto(s, "ipamDel") /\ UNCHANGED faults
       \/ s \in netns /\ findPort(s) /\ Goto(s, "delPort") /\ UNCHANGED faults
       \/ s \in netns /\ ~findPort(s) /\ Goto(s, "delFailed") /\ UNCHANGED faults
       \/ Fault /\ Goto(s, "delFailed")
    /\ UNCHANGED <<netns, veth, iface, ports, ipam, added>>

DelPort(s) ==
    /\ phase[s] = "delPort"
    /\ \/ ports' = ports \ {s} /\ Goto(s, "ipamDel") /\ UNCHANGED faults
       \/ Fault /\ DoneOrNot(ports, ports \ {s}) /\ Goto(s, "delFailed")
    /\ UNCHANGED <<netns, delNetns, veth, iface, ipam, added>>

\* Mutant: a DEL that fails puts the port back.
IpamDel_Undo(s) ==
    /\ phase[s] = "ipamDel"
    /\ \/ /\ ipam' = [ipam EXCEPT ![s] = None]
          /\ Goto(s, IF s \in delNetns THEN "delLink" ELSE "deleted") /\ UNCHANGED <<ports, faults>>
       \/ Fault /\ ports' = ports \cup {s} /\ Goto(s, "delFailed") /\ UNCHANGED ipam
    /\ UNCHANGED <<netns, delNetns, veth, iface, added>>

\* Mutant: the error of the release is ignored, as ADD's deferred one ignores it.
IpamDel_Ignore(s) ==
    /\ phase[s] = "ipamDel"
    /\ Goto(s, IF s \in delNetns THEN "delLink" ELSE "deleted")
    /\ \/ ipam' = [ipam EXCEPT ![s] = None] /\ UNCHANGED faults
       \/ Fault /\ Release(s)
    /\ UNCHANGED <<netns, delNetns, veth, iface, ports, added>>

IpamDel(s) ==
    /\ phase[s] = "ipamDel"
    /\ \/ /\ ipam' = [ipam EXCEPT ![s] = None]
          /\ Goto(s, IF s \in delNetns THEN "delLink" ELSE "deleted") /\ UNCHANGED faults
       \/ Fault /\ DoneOrNot(ipam, [ipam EXCEPT ![s] = None]) /\ Goto(s, "delFailed")
    /\ UNCHANGED <<netns, delNetns, veth, iface, ports, added>>

\* The link is deleted, and its addresses with it.
Unlink(s) == veth' = veth \ {s} /\ iface' = [iface EXCEPT ![s] = None]

\* The veth pair, which may be gone already; the namespace may not.
DelLink(s) ==
    /\ phase[s] = "delLink"
    /\ \/ s \in netns /\ Unlink(s) /\ Goto(s, "deleted") /\ UNCHANGED faults
       \/ s \notin netns /\ Goto(s, "delFailed") /\ UNCHANGED <<veth, iface, faults>>
       \/ s \in netns /\ Fault /\ Goto(s, "delFailed") /\ (Unlink(s) \/ UNCHANGED <<veth, iface>>)
    /\ UNCHANGED <<netns, delNetns, ports, ipam, added>>

-----------------------------------------------------------------------------
(* The sandbox *)

\* The command's process is killed between two steps; no deferred function runs.
Kill(s) ==
    /\ Fault
    /\ \/ phase[s] \in AddSteps /\ Goto(s, "addFailed")
       \/ phase[s] \in DelSteps /\ Goto(s, "delFailed")
    /\ UNCHANGED <<netns, delNetns, veth, iface, ports, ipam, added>>

\* The sandbox ends; the kernel removes its network namespace and its veth pair, the OVS
\* database keeps its port.
NetnsGone(s) ==
    /\ s \in netns /\ phase[s] # "new"
    /\ netns' = netns \ {s} /\ Unlink(s)
    /\ UNCHANGED <<phase, delNetns, ports, ipam, added, faults>>

AddStep(s) == SetupVeth(s) \/ AddPort(s) \/ IpamAdd(s) \/ Configure(s) \/ Finish(s)
DelStep(s) == DelPort(s) \/ IpamDel(s) \/ DelLink(s)

Next == \E s \in Sandboxes :
            AddBegin(s) \/ AddStep(s) \/ DelBegin(s) \/ DelStep(s) \/ Kill(s) \/ NetnsGone(s)

Spec == Init /\ [][Next]_vars

\* A started command goes on, and the kubelet repeats DEL after a failed command.
Fairness ==
    \A s \in Sandboxes :
        /\ WF_vars(AddStep(s)) /\ WF_vars(DelStep(s))
        /\ WF_vars(phase[s] \in {"addFailed", "delFailed"} /\ DelBegin(s))

FairSpec == Spec /\ Fairness

\* The container runtime removes the namespace of a sandbox whose deletion was called for.
GoneSpec == FairSpec /\ \A s \in Sandboxes :
                WF_vars(phase[s] \in DelSteps \cup {"delFailed", "deleted"} /\ NetnsGone(s))

-----------------------------------------------------------------------------
(* Properties *)

\* Every variable has its type, and interfaces have addresses only in network namespaces
\* that exist.
TypeOK ==
    /\ phase \in [Sandboxes -> AddSteps \cup DelSteps \cup Results]
    /\ netns \subseteq Sandboxes /\ delNetns \subseteq Sandboxes /\ veth \subseteq Sandboxes
    /\ ports \subseteq Sandboxes /\ added \subseteq Sandboxes
    /\ iface \in [Sandboxes -> Addrs \cup {None}] /\ ipam \in [Sandboxes -> Addrs \cup {None}]
    /\ faults \in 0..MaxFaults
    /\ \A s \in Sandboxes : iface[s] # None => s \in netns

\* A sandbox whose ADD succeeded, up to its DEL, has its port and an address the IPAM
\* plugin holds for it, and while it lives its interface has that address
\* (plugin.go:347-534).
AddComplete ==
    \A s \in Sandboxes :
        phase[s] = "added" =>
            /\ s \in ports /\ ipam[s] # None
            /\ s \in netns => s \in veth /\ iface[s] = ipam[s]

\* Interfaces that have a way to the bridge.
Connected(s) == s \in ports /\ s \in veth /\ iface[s] # None

\* No two sandboxes whose ADDs succeeded are ever on the bridge with the same address, not
\* even while one is being deleted: DEL takes the port away before the address
\* (plugin.go:536-562).
NoSharedAddress ==
    \A s, t \in added : s # t /\ Connected(s) /\ Connected(t) => iface[s] # iface[t]

\* A DEL that succeeds has undone whatever the sandbox's ADD left, however far that got,
\* failed or was killed, and whatever earlier DELs did: no address is held, no veth pair is
\* left, and no port either if it was given a namespace to find it by (plugin.go:536-598).
DelComplete ==
    \A s \in Sandboxes :
        phase[s] = "deleted" => ipam[s] = None /\ s \notin veth /\ (s \in delNetns => s \notin ports)

\* Once the kubelet calls DEL for a sandbox, its address returns to the pool
\* (plugin.go:547-564).
DelReleases ==
    \A s \in Sandboxes : (phase[s] \in DelSteps \cup {"delFailed"}) ~> (ipam[s] = None)

Status == [s \in Sandboxes |->
    IF s \notin added THEN None ELSE IF Connected(s) THEN iface[s] ELSE "gone"]

Att == INSTANCE Attachment WITH status <- Status, Gone <- "gone"

\* The plugin implements the abstract attachment: only the end of a successful ADD attaches
\* a sandbox, with an address nobody attached has, and only DEL or the sandbox's end
\* detaches it, for good, although every step may fail half-way (plugin.go:347-598).
IsAttachment == Att!Spec
=============================================================================
