----------------------------- MODULE CNIProofs ------------------------------
(***************************************************************************)
(* Proofs about CNI, for any sandboxes, any pool of addresses and any      *)
(* number of faults.                                                       *)
(***************************************************************************)
EXTENDS CNI, TLAPS

USE CNIAssumption

\* No address is held for two sandboxes.
Distinct == \A s, t \in Sandboxes : s # t /\ ipam[s] = ipam[t] => ipam[s] = None

\* What the steps of ADD that are behind a sandbox have left it with.
AddProgress ==
    \A s \in Sandboxes :
        /\ phase[s] \in {"new", "setupVeth", "addPort", "ipamAdd"} => ipam[s] = None
        /\ phase[s] = "addPort" => (s \in netns => s \in veth)
        /\ phase[s] \in {"ipamAdd", "configure", "finish", "added"} =>
               s \in ports /\ (s \in netns => s \in veth)
        /\ phase[s] \in {"configure", "finish", "added"} => ipam[s] # None
        /\ phase[s] \in {"finish", "added"} => (s \in netns => iface[s] = ipam[s])

\* What the steps of DEL that are behind a sandbox have taken away: its way to the bridge
\* is closed before its address is released.
DelProgress ==
    \A s \in Sandboxes :
        /\ phase[s] = "ipamDel" => s \notin ports \/ s \notin netns
        /\ s \in added => phase[s] \in {"added", "delFailed", "deleted"} \cup DelSteps
        /\ s \in added /\ Connected(s) => iface[s] = ipam[s]

\* What DEL has undone, step by step: the port if it was given a namespace, the address, the
\* veth pair, which a namespace that is gone took with it.
Undone ==
    \A s \in Sandboxes :
        /\ s \in veth => s \in netns
        /\ phase[s] = "delPort" => s \in delNetns
        /\ phase[s] \in {"ipamDel", "delLink", "deleted"} =>
               IF s \in delNetns THEN s \notin ports ELSE s \notin netns
        /\ phase[s] \in {"delLink", "deleted"} => ipam[s] = None
        /\ phase[s] = "deleted" => s \notin veth

IInv == TypeOK /\ Distinct /\ AddProgress /\ DelProgress /\ Undone

-----------------------------------------------------------------------------
\* Before the first command nothing is attached and no address is held.
LEMMA IInvInit == Init => IInv
BY DEF Init, IInv, TypeOK, Distinct, AddProgress, DelProgress, Undone, Connected,
   AddSteps, DelSteps, Results

\* A fault stays within its bound.
LEMMA FaultOK == ASSUME TypeOK, Fault PROVE faults' \in 0..MaxFaults
BY DEF TypeOK, Fault

\* Every command step, failed or not, keeps every variable in its type.
LEMMA TypeNext == ASSUME TypeOK, NEW s \in Sandboxes,
        AddBegin(s) \/ AddStep(s) \/ DelBegin(s) \/ DelStep(s) \/ Kill(s) \/ NetnsGone(s)
    PROVE TypeOK'
<1> USE DEF TypeOK, Goto, AddSteps, DelSteps, Results
<1>1. faults' \in 0..MaxFaults
  BY FaultOK DEF AddBegin, AddStep, SetupVeth, AddPort, IpamAdd, Configure, Finish, DelBegin,
     DelStep, DelPort, IpamDel, DelLink, Kill, NetnsGone
<1>2. CASE AddBegin(s)
  BY <1>1, <1>2 DEF AddBegin
<1>3. CASE SetupVeth(s)
  BY <1>1, <1>3 DEF SetupVeth, DoneOrNot
<1>4. CASE AddPort(s)
  BY <1>1, <1>4 DEF AddPort, DoneOrNot
<1>5. CASE IpamAdd(s)
  BY <1>1, <1>5 DEF IpamAdd, DoneOrNot
<1>6. CASE Configure(s)
  BY <1>1, <1>6 DEF Configure, DoneOrNot, Release
<1>7. CASE Finish(s)
  BY <1>1, <1>7 DEF Finish, Release, DoneOrNot
<1>8. CASE DelBegin(s)
  BY <1>1, <1>8 DEF DelBegin
<1>9. CASE DelPort(s)
  BY <1>1, <1>9 DEF DelPort, DoneOrNot
<1>10. CASE IpamDel(s)
  BY <1>1, <1>10 DEF IpamDel, DoneOrNot
<1>11. CASE DelLink(s)
  BY <1>1, <1>11 DEF DelLink, Unlink
<1>12. CASE Kill(s)
  BY <1>1, <1>12 DEF Kill
<1>13. CASE NetnsGone(s)
  BY <1>1, <1>13 DEF NetnsGone, Unlink
<1>14. QED
  BY <1>2, <1>3, <1>4, <1>5, <1>6, <1>7, <1>8, <1>9, <1>10, <1>11, <1>12, <1>13
     DEF AddStep, DelStep

\* ADD: every step that succeeds adds to what the next one finds, and the address of a step
\* that fails is nobody else's, released or not.
LEMMA AddStepInv == ASSUME IInv, NEW s \in Sandboxes, AddBegin(s) \/ AddStep(s) PROVE IInv'
<1> USE DEF IInv, TypeOK, Goto, AddSteps, DelSteps, Results
<1>1. TypeOK'
  BY TypeNext
<1> USE DEF Distinct, AddProgress, DelProgress, Undone, Connected
<1>2. CASE AddBegin(s)
  BY <1>1, <1>2 DEF AddBegin
<1>3. CASE SetupVeth(s)
  BY <1>1, <1>3 DEF SetupVeth, DoneOrNot
<1>4. CASE AddPort(s)
  BY <1>1, <1>4 DEF AddPort, DoneOrNot
<1>5. CASE IpamAdd(s)
  BY <1>1, <1>5 DEF IpamAdd, DoneOrNot
<1>6. CASE Configure(s)
  BY <1>1, <1>6 DEF Configure, DoneOrNot, Release
<1>7. CASE Finish(s)
  BY <1>1, <1>7 DEF Finish, Release, DoneOrNot
<1>8. QED
  BY <1>2, <1>3, <1>4, <1>5, <1>6, <1>7 DEF AddStep

\* DEL, and what happens to a sandbox from outside.
LEMMA DelStepInv ==
    ASSUME IInv, NEW s \in Sandboxes, DelBegin(s) \/ DelStep(s) \/ Kill(s) \/ NetnsGone(s)
    PROVE  IInv'
<1> USE DEF IInv, TypeOK, Goto, AddSteps, DelSteps, Results
<1>1. TypeOK'
  BY TypeNext
<1> USE DEF Distinct, AddProgress, DelProgress, Undone, Connected
<1>2. CASE DelBegin(s)
  BY <1>1, <1>2 DEF DelBegin
<1>3. CASE DelPort(s)
  BY <1>1, <1>3 DEF DelPort, DoneOrNot
<1>4. CASE IpamDel(s)
  BY <1>1, <1>4 DEF IpamDel, DoneOrNot
<1>5. CASE DelLink(s)
  BY <1>1, <1>5 DEF DelLink, Unlink
<1>6. CASE Kill(s)
  BY <1>1, <1>6 DEF Kill
<1>7. CASE NetnsGone(s)
  BY <1>1, <1>7 DEF NetnsGone, Unlink
<1>8. QED
  BY <1>2, <1>3, <1>4, <1>5, <1>6, <1>7 DEF DelStep

\* The inductive step: every step keeps the invariant.
LEMMA IInvNext == IInv /\ [Next]_vars => IInv'
<1> SUFFICES ASSUME IInv, [Next]_vars PROVE IInv'
  OBVIOUS
<1>1. CASE UNCHANGED vars
  BY <1>1 DEF vars, IInv, TypeOK, Distinct, AddProgress, DelProgress, Undone, Connected
<1>2. QED
  BY <1>1, AddStepInv, DelStepInv DEF Next

\* The inductive invariant holds in every state of every behaviour.
LEMMA Invariant == Spec => []IInv
<1>1. IInv /\ [Next]_vars => IInv'
  BY IInvNext
<1>2. QED
  BY <1>1, IInvInit, PTL DEF Spec

\* Type correctness of the commands' state, with addresses only on interfaces of network
\* namespaces that exist (plugin.go:347-598).
THEOREM TypeCorrect == Spec => []TypeOK
BY Invariant, PTL DEF IInv

\* A successful ADD leaves the port, the address and the interface the kubelet was told of,
\* whatever happened to other sandboxes meanwhile (plugin.go:347-534).
THEOREM AddCorrect == Spec => []AddComplete
<1>1. IInv => AddComplete
  BY DEF IInv, AddProgress, AddComplete
<1>2. QED
  BY <1>1, Invariant, PTL

\* A DEL that succeeds leaves nothing of its sandbox behind that it could reach, wherever the
\* sandbox's ADD and earlier DELs ended (plugin.go:536-598).
THEOREM DelCorrect == Spec => []DelComplete
<1>1. IInv => DelComplete
  BY DEF IInv, Undone, DelComplete
<1>2. QED
  BY <1>1, Invariant, PTL

\* Two sandboxes on the bridge never have the same address, whatever DELs are under way
\* (plugin.go:536-562).
THEOREM AddressesDistinct == Spec => []NoSharedAddress
<1>1. IInv => NoSharedAddress
  BY DEF IInv, TypeOK, Distinct, DelProgress, NoSharedAddress, Connected
<1>2. QED
  BY <1>1, Invariant, PTL

-----------------------------------------------------------------------------
(* The refinement *)

\* A step of one sandbox's command leaves the other sandboxes' attachments alone.
LEMMA OthersKeep ==
    ASSUME TypeOK, NEW s \in Sandboxes,
           AddBegin(s) \/ AddStep(s) \/ DelBegin(s) \/ DelStep(s) \/ Kill(s) \/ NetnsGone(s)
    PROVE  \A t \in Sandboxes \ {s} : Status'[t] = Status[t]
<1> SUFFICES ASSUME NEW t \in Sandboxes \ {s}
             PROVE  /\ t \in added' <=> t \in added
                    /\ t \in ports' <=> t \in ports
                    /\ t \in veth' <=> t \in veth
                    /\ iface'[t] = iface[t]
  BY DEF Status, Connected
<1>1. CASE AddBegin(s) \/ AddStep(s)
  BY <1>1 DEF TypeOK, AddBegin, AddStep, SetupVeth, AddPort, IpamAdd, Configure, Finish, DoneOrNot
<1>2. CASE DelBegin(s) \/ DelStep(s)
  BY <1>2 DEF TypeOK, DelBegin, DelStep, DelPort, IpamDel, DelLink, Unlink, DoneOrNot
<1>3. CASE Kill(s) \/ NetnsGone(s)
  BY <1>3 DEF TypeOK, Kill, NetnsGone, Unlink
<1>4. QED
  BY <1>1, <1>2, <1>3

\* What a step can do to its own sandbox's attachment: end an ADD, or close the way to the
\* bridge of a sandbox whose ADD succeeded.  Nothing opens that way again.
LEMMA OwnFate ==
    ASSUME IInv, NEW s \in Sandboxes,
           AddBegin(s) \/ AddStep(s) \/ DelBegin(s) \/ DelStep(s) \/ Kill(s) \/ NetnsGone(s)
    PROVE  \/ s \notin added /\ s \notin added'
           \/ /\ s \notin added /\ s \in added' /\ phase[s] = "finish"
              /\ UNCHANGED <<netns, veth, iface, ports>>
           \/ /\ s \in added /\ s \in added'
              /\ Connected(s)' => Connected(s) /\ iface'[s] = iface[s]
<1> USE DEF IInv, DelProgress, Goto, AddSteps, DelSteps, Results
<1>1. CASE Finish(s)
  BY <1>1 DEF Finish
<1>2. CASE AddBegin(s) \/ SetupVeth(s) \/ AddPort(s) \/ IpamAdd(s) \/ Configure(s)
  BY <1>2 DEF AddBegin, SetupVeth, AddPort, IpamAdd, Configure
<1>3. CASE DelBegin(s) \/ IpamDel(s) \/ Kill(s)
  BY <1>3 DEF DelBegin, IpamDel, Kill, Connected
<1>4. CASE DelPort(s)
  BY <1>4 DEF DelPort, DoneOrNot, Connected
<1>5. CASE DelLink(s) \/ NetnsGone(s)
  BY <1>5 DEF TypeOK, DelLink, NetnsGone, Unlink, Connected
<1>6. QED
  BY <1>1, <1>2, <1>3, <1>4, <1>5 DEF AddStep, DelStep

\* Every step of a command attaches a sandbox, misses it, detaches it or stutters.
LEMMA AttachmentStep == IInv /\ [Next]_vars => [Att!Next]_Status
<1> SUFFICES ASSUME IInv, [Next]_vars PROVE [Att!Next]_Status
  OBVIOUS
<1>1. CASE UNCHANGED vars
  BY <1>1 DEF vars, Status, Connected
<1>2. CASE Next
  <2>1. PICK s \in Sandboxes :
          AddBegin(s) \/ AddStep(s) \/ DelBegin(s) \/ DelStep(s) \/ Kill(s) \/ NetnsGone(s)
    BY <1>2 DEF Next
  <2>2. \A t \in Sandboxes \ {s} : Status'[t] = Status[t]
    BY <2>1, OthersKeep DEF IInv
  <2>3. Status = [t \in Sandboxes |-> Status[t]] /\ Status' = [t \in Sandboxes |-> Status'[t]]
    BY DEF Status
  <2>4. Status' = [Status EXCEPT ![s] = Status'[s]]
    BY <2>2, <2>3
  <2>5. CASE s \notin added /\ s \notin added'
    <3>1. Status'[s] = Status[s]
      BY <2>5 DEF Status
    <3>2. QED
      BY <3>1, <2>2, <2>3
  <2>6. CASE /\ s \notin added /\ s \in added' /\ phase[s] = "finish"
             /\ UNCHANGED <<netns, veth, iface, ports>>
    <3>1. Status[s] = None
      BY <2>6 DEF Status
    <3>2. CASE Connected(s)
      <4>1. iface[s] = ipam[s] /\ ipam[s] \in Addrs
        BY <2>6, <3>2 DEF IInv, TypeOK, AddProgress, Connected
      <4>2. Status'[s] = ipam[s]
        BY <2>6, <3>2, <4>1 DEF Status, Connected
      <4>3. \A t \in Sandboxes : Status[t] # ipam[s]
        BY <2>6, <4>1 DEF IInv, TypeOK, Distinct, DelProgress, Status, Connected
      <4>4. QED
        BY <2>4, <3>1, <4>1, <4>2, <4>3 DEF Att!Next, Att!Attach
    <3>3. CASE ~Connected(s)
      <4>1. Status'[s] = "gone"
        BY <2>6, <3>3 DEF Status, Connected
      <4>2. QED
        BY <2>4, <3>1, <4>1 DEF Att!Next, Att!Miss
    <3>4. QED
      BY <3>2, <3>3
  <2>7. CASE /\ s \in added /\ s \in added'
             /\ Connected(s)' => Connected(s) /\ iface'[s] = iface[s]
    <3>1. CASE Connected(s) /\ ~Connected(s)'
      <4>1. Status[s] \in Addrs
        BY <2>7, <3>1 DEF IInv, TypeOK, Status, Connected
      <4>2. Status'[s] = "gone"
        BY <2>7, <3>1 DEF Status
      <4>3. QED
        BY <2>4, <4>1, <4>2 DEF Att!Next, Att!Detach
    <3>2. CASE ~(Connected(s) /\ ~Connected(s)')
      <4>1. Status'[s] = Status[s]
        BY <2>7, <3>2 DEF Status
      <4>2. QED
        BY <4>1, <2>2, <2>3
    <3>3. QED
      BY <3>1, <3>2
  <2>8. QED
    BY <2>1, <2>5, <2>6, <2>7, OwnFate
<1>3. QED
  BY <1>1, <1>2

\* The plugin's commands, with every interleaving, failure and kill, implement the abstract
\* attachment (plugin.go:347-598).
THEOREM ImplementsAttachment == Spec => Att!Spec
<1>1. Init => Att!Init
  BY DEF Init, Att!Init, Status
<1>2. IInv /\ [Next]_vars => [Att!Next]_Status
  BY AttachmentStep
<1>3. QED
  BY <1>1, <1>2, Invariant, PTL DEF Spec, Att!Spec
=============================================================================
