-------------------------- MODULE MCReconciliation --------------------------
(***************************************************************************)
(* Instances of Reconciliation for TLC: five families of inputs, each      *)
(* varying what one part of the run looks at.                              *)
(***************************************************************************)
EXTENDS Reconciliation

CONSTANTS o1, o2

McSources == <<"merchant_ledger", "settlement_recon", "settlements", "bank_statement">>

McRequired ==
  [s \in {McSources[n] : n \in 1..4} |-> IF s = "merchant_ledger" THEN {"date", "money"}
                                         ELSE {"money"}]

McRateCard == "card" :> 200 @@ "upi" :> 0

McChain == <<"gemini", "groq">>

McPrompt == {McSources[n] : n \in 1..4} \cup {"open1", "open2"}

McMoney == -20000..20000

Good(cells) == [cells |-> [c \in {"A", "B"} |-> cells[c]], heuristic |-> [date |-> "A", money |-> "B"]]

Plain(n) == Good([A |-> [i \in 1..n |-> "date"], B |-> [i \in 1..n |-> "money"]])

Sheets == [n \in 0..3 |-> [s \in {McSources[i] : i \in 1..4} |-> Plain(n)]]

Files(ledger, report, payouts) ==
  [sheet |-> Sheets[Len(ledger)], ledger |-> ledger,
   report |-> report, payouts |-> payouts, ai |-> FALSE, proposals |-> {}, open |-> << >>,
   recorded |-> {}]

OrderRow(id, pay, gross, day) ==
  [order_id |-> id, payment_id |-> pay, gross |-> gross, method |-> "upi", captured_at |-> day]

Entry(type, id, pay, amount, day) ==
  [type |-> type, on_hold |-> FALSE, settled |-> TRUE, order_id |-> id, payment_id |-> pay,
   method |-> "upi", created_at |-> day, settlement |-> 0, amount |-> amount, fee |-> 0,
   tax |-> 0, credit |-> IF type = "payment" THEN amount ELSE 0,
   debit |-> IF type = "payment" THEN 0 ELSE amount]

\* Three rows of up to two orders and two payments, which may share ids, stand
\* twice or have none; the amounts fit nothing.
Ids ==
  {Files(<<OrderRow(o1, p, 1, 0), OrderRow(i, q, 2, 0), OrderRow(j, r, 3, 0)>>,
         <<Entry("payment", k, s, 7, 0), [Entry("payment", l, t, 8, 0) EXCEPT !.on_hold = h]>>,
         << >>) :
     p \in {None, "p1"}, i, j \in {o1, o2}, q, r \in {None, "p1", "p2"},
     k \in {None, o1, o2}, l \in {None, o1}, s, t \in {None, "p1", "p2"}, h \in BOOLEAN}

\* One order, its payment, and two more lines of which one may be a payment too.
Reversals ==
  {Files(<<OrderRow(o1, "p1", 7, 0)>>,
         <<Entry("payment", i, p, 7, 0), Entry(t, j, q, 7, 0), Entry(u, k, r, 7, 0)>>, << >>) :
     i, j, k \in {None, o1}, p \in {None, "p1"}, q, r \in {None, "p1", "p2"},
     t \in {"payment", "refund", "dispute"}, u \in {"refund", "dispute"}}

\* Rows and lines without ids, told apart by amount and day only.
Amounts2 ==
  {Files(<<OrderRow(o1, None, g, c), OrderRow(i, None, h, d)>>,
         <<Entry("payment", None, None, a, e), Entry("payment", None, None, b, f)>>, << >>) :
     i \in {o1, o2}, g, h, a, b \in {1, 2}, c, d \in {0, 2, 6}, e, f \in {None, 0, 5}}

InPayout(type, method, amount, fee, tax, net) ==
  [Entry(type, None, None, amount, 0) EXCEPT
     !.method = method, !.settlement = 1, !.fee = fee, !.tax = tax,
     !.credit = IF net > 0 THEN net ELSE 0, !.debit = IF net < 0 THEN -net ELSE 0]

\* 2.00% of 125 is 2.5 paise.
Kinds ==
  {InPayout("payment", "card", 125, mdr + 1, 1, 124 - mdr) : mdr \in 1..5} \cup
  {InPayout("payment", "card", 10000, 250, 50, 9750),
   InPayout("payment", "cash", 125, 9, 1, 116),
   InPayout("payment", "card", 125, 4, 1, 125),
   InPayout("refund", "card", 50, 0, 0, -50),
   InPayout("refund", "card", 50, 2, 0, -52),
   InPayout("dispute", "card", 40, 5, 0, -45),
   InPayout("transfer", "card", 30, 1, 0, -31),
   InPayout("adjustment", "card", 20, 0, 0, 20)}

\* A payout of two lines, reported and credited rightly or not, and an empty one.
Payouts ==
  UNION {LET net == k.credit - k.debit + l.credit - l.debit IN
         {Files(<< >>, <<k, l>>,
                <<[reported |-> net + off, bank |-> credited],
                  [reported |-> 0, bank |-> None]>>) :
            off \in {-5, 0, 5}, credited \in {None, net, net - 7}} : k, l \in Kinds}

\* A ledger whose headers may not do, and a model that may be right or wrong.
Columns == {[A |-> <<"date", "date">>, B |-> <<"money", "money">>],
            [A |-> <<"date", "blank">>, B |-> <<"text", "text">>],
            [A |-> <<"text", "text">>, B |-> <<"money", "text">>],
            [A |-> <<"blank", "blank">>, B |-> <<"blank", "money">>]}

Proposals == {[date |-> "A", money |-> "B"], [date |-> "B", money |-> "A"],
              [date |-> "A", money |-> "Z"], [money |-> "Z"]}

Intake ==
  {[Files(<<OrderRow(o1, "p1", 1, 0), OrderRow(o2, None, 2, 0)>>,
          <<Entry("payment", o1, None, 1, 0)>>, << >>)
    EXCEPT !.ai = TRUE, !.proposals = Proposals, !.open = <<"open1", "open2">>,
           !.recorded = r,
           !.sheet[Ledger] = [cells |-> c, heuristic |-> h],
           !.sheet["bank_statement"] = IF b THEN @ ELSE [@ EXCEPT !.heuristic = << >>]] :
     c \in Columns, r \in {{}, {Ledger}, McPrompt}, b \in BOOLEAN,
     h \in {[date |-> "A", money |-> "B"], [money |-> "A"], << >>}}

McInput == Ids \cup Reversals \cup Amounts2 \cup Payouts \cup Intake
=============================================================================
