----------------------------- MODULE MCFlowSync -----------------------------
(* Small instances of FlowSync for TLC. *)
EXTENDS FlowSync, TLC

CONSTANTS p1, p2

\* p1 is isolated from all but p2, or both pods are isolated from everything.
MCPolicySpecs ==
    { [podSelector |-> {p1}, from |-> {p2}], [podSelector |-> {p1, p2}, from |-> {}] }

\* One pod, isolated from everything.
MCOnePodPolicySpecs == { [podSelector |-> {p1}, from |-> {}] }

MCSymmetry == Permutations(LocalIPs)
=============================================================================
