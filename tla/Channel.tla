------------------------------ MODULE Channel -------------------------------
(***************************************************************************)
(* What the OpenFlow connection manager promises its users: a message      *)
(* given to it is handed to the switch's connection once, in order, and    *)
(* sooner or later.  Locks, waiting, failed writes and reconnections are   *)
(* not seen.                                                               *)
(***************************************************************************)
EXTENDS Sequences

CONSTANT Msgs

VARIABLES
    pending,       \* given to the channel, not yet taken from it
    delivered      \* history: taken from it

vars == <<pending, delivered>>

Init == pending \in Seq(Msgs) /\ delivered = <<>>

Put(m) == pending' = Append(pending, m) /\ UNCHANGED delivered

Take ==
    /\ pending # <<>>
    /\ pending' = Tail(pending)
    /\ delivered' = Append(delivered, Head(pending))

Next == Take \/ \E m \in Msgs : Put(m)

Spec == Init /\ [][Next]_vars

FairSpec == Spec /\ WF_vars(Take)
=============================================================================
