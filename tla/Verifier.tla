------------------------------ MODULE Verifier ------------------------------
(***************************************************************************)
(* The gate between a proposal and the ledger (agents/verifier.verify):    *)
(* what a list of components, proposed by a rule or by a model, is worth.  *)
(* Reasons, notes and the signed delta are left out: only their verdict    *)
(* decides anything.                                                       *)
(***************************************************************************)
EXTENDS Integers, Sequences

LOCAL INSTANCE Functions

CONSTANT ChargeCeiling   \* MAX_UNMODELLED_COMPONENT_PAISE

ASSUME VerifierAssumption == ChargeCeiling \in Nat

CitedKinds == {"settlement_batch", "settlement_line"}
ChargeKinds == {"bank_charge", "adjustment"}

RejectedVerdicts ==
  {"rejected_sum_mismatch", "rejected_unknown_component",
   "rejected_duplicate_component", "rejected_already_matched", "rejected_empty",
   "rejected_implausible_adjustment", "rejected_provenance_failed"}

Verdict == RejectedVerdicts \cup {"hypothesis", "resolved_verified"}

\* The read-back (resolvers.make_lookup): a payout is found by its id.  No line
\* has the id of a payout, so what cites one as a line cannot be read back.
ReadBack(c, known) == c.kind = "settlement_batch" /\ known[c.ref] = c.amount

\* Mutant: references seen earlier in the proposal are not remembered.
FaultForgetsSeen(p, n, known, matched) ==
  LET c == p[n]
  IN IF c.kind \in ChargeKinds
     THEN IF c.amount > ChargeCeiling \/ -c.amount > ChargeCeiling
          THEN "rejected_implausible_adjustment" ELSE "none"
     ELSE IF c.kind \notin CitedKinds \/ c.ref \notin DOMAIN known
          THEN "rejected_unknown_component"
     ELSE IF c.ref \in matched THEN "rejected_already_matched"
     ELSE IF c.amount # known[c.ref] THEN "rejected_sum_mismatch"
     ELSE IF ~ReadBack(c, known) THEN "rejected_provenance_failed"
     ELSE "none"

\* What the loop over the components says of the n-th one, given that it let
\* the earlier ones pass.
Fault(p, n, known, matched) ==
  LET c == p[n]
  IN IF c.kind \in ChargeKinds
     THEN IF c.amount > ChargeCeiling \/ -c.amount > ChargeCeiling
          THEN "rejected_implausible_adjustment" ELSE "none"
     ELSE IF c.kind \notin CitedKinds \/ c.ref \notin DOMAIN known
          THEN "rejected_unknown_component"
     ELSE IF \E m \in 1..(n - 1) : p[m].kind \in CitedKinds /\ p[m].ref = c.ref
          THEN "rejected_duplicate_component"
     ELSE IF c.ref \in matched THEN "rejected_already_matched"
     ELSE IF c.amount # known[c.ref] THEN "rejected_sum_mismatch"
     ELSE IF ~ReadBack(c, known) THEN "rejected_provenance_failed"
     ELSE "none"

Total(p) == SumFunction([n \in DOMAIN p |-> p[n].amount])

\* verify: the first fault counts, then the sum, then the evidence, then rivals.
Verify(p, target, known, matched, rivals) ==
  LET faulty == {n \in DOMAIN p : Fault(p, n, known, matched) # "none"}
      first  == CHOOSE n \in faulty : \A m \in faulty : n <= m
  IN IF p = << >> THEN "rejected_empty"
     ELSE IF faulty # {} THEN Fault(p, first, known, matched)
     ELSE IF Total(p) # target THEN "rejected_sum_mismatch"
     ELSE IF rivals > 0 \/ \E n \in DOMAIN p : p[n].kind \in ChargeKinds
          THEN "hypothesis"
     ELSE "resolved_verified"
=============================================================================
