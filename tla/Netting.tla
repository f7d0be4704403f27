------------------------------ MODULE Netting ------------------------------
(***************************************************************************)
(* The netting proof of a payout (engine/netting.py): one lumped credit    *)
(* taken apart into its lines, netted once from credit and debit and once  *)
(* from amount and fee, with the fee of every payment checked against the  *)
(* rate card.  It runs after tier 3 and triage, one batch per turn.        *)
(***************************************************************************)
EXTENDS LineMatching, Money, SequencesExt

CONSTANTS
  RateCard,      \* basis points by method, for the methods that have a rate
  Tolerance      \* FEE_TOLERANCE_PAISE and GST_TOLERANCE_PAISE

ASSUME NettingAssumption ==
  /\ RateCard \in [DOMAIN RateCard -> Nat] /\ DOMAIN RateCard \subseteq Method
  /\ Tolerance \in Nat

VARIABLES
  batches,       \* ctx.batches, each with the credit tier 1 linked to it
  breakdowns     \* NettingResult.breakdowns

\* bank is None where no credit was linked.
Batch == [reported: Money, bank: Money \cup {None}]

LinesOf(b) == {l \in Line : lines[l].settlement = b}

Sum(f(_), S) == MapThenSumSet(f, S)

OfType(b, type) == {l \in LinesOf(b) : lines[l].type = type}

Amounts(b, type) == Sum(LAMBDA l : lines[l].amount, OfType(b, type))
Fees(b, type) == Sum(LAMBDA l : lines[l].fee, OfType(b, type))
Taxes(b) == Sum(LAMBDA l : lines[l].tax, OfType(b, "payment"))

\* Mutant: the whole fee counts as MDR, so the tax in it is deducted twice.
BreakdownGstTwice(b) ==
  [gross        |-> Amounts(b, "payment"),
   gst          |-> Taxes(b),
   mdr          |-> Fees(b, "payment"),
   refunds      |-> Amounts(b, "refund"),
   disputes     |-> Amounts(b, "dispute"),
   dispute_fees |-> Fees(b, "dispute"),
   transfers    |-> Amounts(b, "transfer") + Fees(b, "transfer"),
   adjustments  |-> Amounts(b, "adjustment") + Fees(b, "adjustment"),
   computed     |-> Sum(Net, LinesOf(b)),
   dual         |-> Amounts(b, "payment") - Fees(b, "payment")
                    - Sum(LAMBDA l : lines[l].amount + lines[l].fee,
                          LinesOf(b) \ OfType(b, "payment"))]

\* The parts of a batch, and its net derived twice.  The fee of a refund is in
\* the second net and in no part.
Breakdown(b) ==
  [gross        |-> Amounts(b, "payment"),
   gst          |-> Taxes(b),
   mdr          |-> Fees(b, "payment") - Taxes(b),
   refunds      |-> Amounts(b, "refund"),
   disputes     |-> Amounts(b, "dispute"),
   dispute_fees |-> Fees(b, "dispute"),
   transfers    |-> Amounts(b, "transfer") + Fees(b, "transfer"),
   adjustments  |-> Amounts(b, "adjustment") + Fees(b, "adjustment"),
   computed     |-> Sum(Net, LinesOf(b)),
   dual         |-> Amounts(b, "payment") - Fees(b, "payment")
                    - Sum(LAMBDA l : lines[l].amount + lines[l].fee,
                          LinesOf(b) \ OfType(b, "payment"))]

\* Steps of the waterfall between the gross sales and the net payout.
Steps(d) ==
  <<-d.mdr, -d.gst, -d.refunds, -d.disputes, -d.dispute_fees, -d.adjustments, -d.transfers>>

\* What is left between the net payout and the bank, None where nothing is shown.
Unexplained(b, d) ==
  IF batches[b].bank \in {None, d.computed} THEN None ELSE batches[b].bank - d.computed

Within(x) == x \in -Tolerance..Tolerance

\* _check_fee: the fee against the rate card; the tax only where the fee is right.
FeeFaults(l) ==
  LET mdr   == lines[l].fee - lines[l].tax
      extra == mdr - ApplyBps(lines[l].amount, RateCard[lines[l].method])
      gst   == lines[l].tax - GstOn(mdr)
  IN IF lines[l].type # "payment" \/ lines[l].method \notin DOMAIN RateCard THEN << >>
     ELSE IF ~Within(extra)
          THEN <<[code |-> "FEE_MISMATCH", subject |-> l, residual |-> extra]>>
     ELSE IF ~Within(gst)
          THEN <<[code |-> "GST_MISMATCH", subject |-> l, residual |-> gst]>>
     ELSE << >>

\* Mutant: a payout larger than its lines is no fault.
BatchFaultsShortOnly(b) ==
  LET d   == Breakdown(b)
      gap == d.computed - batches[b].reported
  IN (IF d.computed = d.dual THEN << >>
      ELSE <<[code |-> "SCHEMA_UNPARSEABLE", subject |-> <<b>>,
              residual |-> d.computed - d.dual]>>)
     \o IF gap >= 0 THEN << >>
        ELSE <<[code |-> "SHORT_CREDIT", subject |-> <<b>>, residual |-> -gap]>>

\* _check_batch: the two nets against each other, and the net against the report.
BatchFaults(b) ==
  LET d   == Breakdown(b)
      gap == d.computed - batches[b].reported
  IN (IF d.computed = d.dual THEN << >>
      ELSE <<[code |-> "SCHEMA_UNPARSEABLE", subject |-> <<b>>,
              residual |-> d.computed - d.dual]>>)
     \o IF gap = 0 THEN << >>
        ELSE <<[code     |-> IF gap < 0 THEN "SHORT_CREDIT" ELSE "OVER_CREDIT",
                subject  |-> <<b>>,
                residual |-> IF gap < 0 THEN -gap ELSE gap]>>

\* One batch: the fees of its lines in order, then the batch.
NetBatch ==
  /\ pass = "netting" /\ at <= Len(batches)
  /\ exceptions' = exceptions
       \o FlattenSeq([l \in 1..Len(lines) |-> IF l \in LinesOf(at) THEN FeeFaults(l) ELSE << >>])
       \o BatchFaults(at)
  /\ breakdowns' = Append(breakdowns, Breakdown(at))
  /\ at' = at + 1
  /\ UNCHANGED <<orders, lines, batches, pass, byOrder, byPayment, matches, claimedLine,
                 claimedOrder>>

EndNetting ==
  /\ pass = "netting" /\ at > Len(batches)
  /\ pass' = "done"
  /\ UNCHANGED <<orders, lines, batches, breakdowns, at, byOrder, byPayment, matches,
                 claimedLine, claimedOrder, exceptions>>

-----------------------------------------------------------------------------
\* What a line contributes by its amount and fee.
Contribution(l) ==
  IF lines[l].type = "payment" THEN lines[l].amount - lines[l].fee
  ELSE -(lines[l].amount + lines[l].fee)

Total(steps) == FoldLeft(LAMBDA x, y : x + y, 0, steps)

\* "Two derivations that agree is a proof": where no exception says otherwise, the
\* waterfall leads from the gross sales to the reported payout, and what it leaves
\* unexplained is exactly the gap to the bank.  A refund must carry no fee, since
\* no step shows it.
WaterfallAddsUp ==
  \A b \in DOMAIN breakdowns :
    LET d == breakdowns[b] IN
      /\ About({"SCHEMA_UNPARSEABLE", "SHORT_CREDIT", "OVER_CREDIT"}, <<b>>) = {}
      /\ Fees(b, "refund") = 0
      => /\ d.gross + Total(Steps(d)) = batches[b].reported
         /\ batches[b].bank # None =>
              (Unexplained(b, d) = None <=> batches[b].bank = batches[b].reported)

\* How far the fee of a payment is from the rate card, in parts of a paisa.
Excess(l) ==
  BpsDivisor * (lines[l].fee - lines[l].tax) - lines[l].amount * RateCard[lines[l].method]

\* "One paisa of rounding is not a billing dispute": a fee within the tolerance of
\* the exact rate is not blamed, one that is a paisa further off is.  A gap to the
\* report is reported once with its side and size, and a batch whose every line
\* nets the same both ways is not called inconsistent.
FaultsAreReal ==
  \A b \in DOMAIN breakdowns :
    LET gap == Sum(Net, LinesOf(b)) - batches[b].reported IN
    /\ (\A l \in LinesOf(b) : Net(l) = Contribution(l)) => About({"SCHEMA_UNPARSEABLE"}, <<b>>) = {}
    /\ gap < 0 <=> Only(About({"SHORT_CREDIT"}, <<b>>))
    /\ gap > 0 <=> Only(About({"OVER_CREDIT"}, <<b>>))
    /\ \A i \in About({"SHORT_CREDIT", "OVER_CREDIT"}, <<b>>) :
         exceptions[i].residual \in {gap, -gap} \cap Nat
    /\ \A l \in {m \in OfType(b, "payment") : lines[m].method \in DOMAIN RateCard} :
         LET blamed == Only(About({"FEE_MISMATCH"}, l)) IN
         /\ Excess(l) \in -BpsDivisor * Tolerance..BpsDivisor * Tolerance => ~blamed
         /\ Excess(l) \notin -BpsDivisor * (Tolerance + 1)..BpsDivisor * (Tolerance + 1) => blamed
=============================================================================
