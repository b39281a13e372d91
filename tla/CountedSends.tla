----------------------------- MODULE CountedSends -----------------------------
(***************************************************************************)
(* What a delivery promises to its group: every message the group gets was *)
(* paid for by an attempt taken before, there are Limit attempts, only an  *)
(* attempt that sent nothing is given back, and a receipt is kept for good *)
(* and never issued for nothing.  Workers, claims, leases, duplicates and  *)
(* the channel switch are left out: whatever they do, the books of a       *)
(* delivery change in these ways only.                                     *)
(***************************************************************************)
EXTENDS Naturals

CONSTANTS Item, Limit

VARIABLES
    taken,   \* attempts taken and not given back
    got,     \* messages the group got
    receipt

vars == <<taken, got, receipt>>

Init ==
    /\ taken = [i \in Item |-> 0]
    /\ got = [i \in Item |-> 0]
    /\ receipt = [i \in Item |-> FALSE]

Take(i) ==
    /\ taken[i] < Limit
    /\ taken' = [taken EXCEPT ![i] = @ + 1]
    /\ UNCHANGED <<got, receipt>>

\* An attempt that has sent something cannot be given back.
GiveBack(i) ==
    /\ got[i] < taken[i]
    /\ taken' = [taken EXCEPT ![i] = @ - 1]
    /\ UNCHANGED <<got, receipt>>

Post(i) ==
    /\ got[i] < taken[i]
    /\ got' = [got EXCEPT ![i] = @ + 1]
    /\ UNCHANGED <<taken, receipt>>

Record(i) ==
    /\ got[i] > 0
    /\ receipt' = [receipt EXCEPT ![i] = TRUE]
    /\ UNCHANGED <<taken, got>>

Next == \E i \in Item : Take(i) \/ GiveBack(i) \/ Post(i) \/ Record(i)

Spec == Init /\ [][Next]_vars
=============================================================================
