-------------------------- MODULE PayoutAssignment --------------------------
(***************************************************************************)
(* What the bank side of a reconciliation promises: a payout is credited   *)
(* at most once and for good, and the payouts inside one bank credit are   *)
(* found together.                                                         *)
(***************************************************************************)
CONSTANTS Credit, Payout, None

VARIABLE creditOf   \* the credit each payout arrived in

Init == creditOf = [p \in Payout |-> None]

\* A credit that holds no payout yet is found to be the payouts in found.
Assign(c, found) ==
  /\ \A p \in Payout : creditOf[p] # c
  /\ \A p \in found : creditOf[p] = None
  /\ creditOf' = [p \in Payout |-> IF p \in found THEN c ELSE creditOf[p]]

Next == \E c \in Credit : \E found \in SUBSET Payout : Assign(c, found)

Spec == Init /\ [][Next]_creditOf
=============================================================================
