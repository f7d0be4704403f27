---------------------------- MODULE MCResolution ----------------------------
(***************************************************************************)
(* Instances of Resolution for TLC: books that vary the payouts, in which  *)
(* only the first credit may carry a UTR and every credit looks like a     *)
(* payout, books that vary the credits, and a model that knows the payouts *)
(* and a few other things.                                                 *)
(***************************************************************************)
EXTENDS Resolution

ManyPayouts ==
  [credit: [Credit -> {2, 4}], value_date: [Credit -> Day],
   utr: {u \in [Credit -> Payout \cup {None}] : \A c \in Credit \ {1} : u[c] = None},
   like: {Credit}, paid: [Payout -> {2, 4}], settled_at: [Payout -> Day]]

\* Near and rounded amounts, UTRs on both credits, credits of other kinds.
ManyCredits ==
  [credit: [Credit -> Amount], value_date: [Credit -> Day], utr: [Credit -> {None, 1, 2}],
   like: {{}, {2}, Credit}, paid: {[p \in Payout |-> IF p = 1 THEN 2 ELSE 4]},
   settled_at: {[p \in Payout |-> IF p = Payouts THEN 4 ELSE 0]}]

Cited(refs) == [kind: {"settlement_batch"}, ref: refs, amount: Amount]

\* A payout at a right or wrong amount, an id nobody has, a payout cited as a
\* line, charges below and above the ceiling, and a kind the ledger lacks.
AnyComponent ==
  Cited({1, 2}) \cup
  {[kind |-> "settlement_batch", ref |-> None, amount |-> 2],
   [kind |-> "settlement_line", ref |-> 1, amount |-> 2],
   [kind |-> "bank_charge", ref |-> None, amount |-> 2],
   [kind |-> "adjustment", ref |-> None, amount |-> -4],
   [kind |-> "refund", ref |-> 1, amount |-> 2]}

\* What an unmatched credit and a gap can be explained with.
FewComponents == Cited({1, 2}) \cup {[kind |-> "bank_charge", ref |-> None, amount |-> 2]}

MCInit == books \in ManyPayouts \cup ManyCredits /\ ResolutionInit

MCSpec == MCInit /\ [][ResolutionNext]_vars

MCFairSpec == MCSpec /\ WF_vars(ResolutionNext)
=============================================================================
