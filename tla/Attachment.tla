----------------------------- MODULE Attachment -----------------------------
(***************************************************************************)
(* What k-vswitch-cni promises the kubelet: a sandbox whose ADD succeeded  *)
(* is attached to the bridge with an address that no other attached        *)
(* sandbox has, keeps that address as long as it is attached, and once     *)
(* detached is never attached again.                                       *)
(***************************************************************************)
CONSTANTS Sandboxes, Addrs, None, Gone

VARIABLE status    \* per sandbox: None before its ADD, its address, or Gone

Init == status = [s \in Sandboxes |-> None]

Attach(s, a) ==
    /\ status[s] = None
    /\ \A t \in Sandboxes : status[t] # a
    /\ status' = [status EXCEPT ![s] = a]

\* The sandbox ended before its ADD did.
Miss(s) == status[s] = None /\ status' = [status EXCEPT ![s] = Gone]

Detach(s) == status[s] \in Addrs /\ status' = [status EXCEPT ![s] = Gone]

Next == \E s \in Sandboxes : Miss(s) \/ Detach(s) \/ \E a \in Addrs : Attach(s, a)

Spec == Init /\ [][Next]_status
=============================================================================
