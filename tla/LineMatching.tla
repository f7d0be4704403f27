---------------------------- MODULE LineMatching ----------------------------
(***************************************************************************)
(* Tiers 2 and 3 of a reconciliation (engine/tier2.py, engine/tier3.py):   *)
(* which settlement line is which order, and which refund or dispute       *)
(* reverses which payment.                                                 *)
(*                                                                         *)
(* Rows of the ledger and lines of the report are numbered in file order.  *)
(* Several rows may carry one order id; the entity ids of lines are        *)
(* distinct, so a line is its number.  Dates are days.                     *)
(***************************************************************************)
EXTENDS Integers, Sequences, FiniteSets

CONSTANTS
  OrderId, PaymentId, None,
  Method,          \* payment methods
  Money, Day,      \* bounds: the paise and the days that occur in the files
  CaptureWindow,   \* CAPTURE_WINDOW_DAYS
  Unknown          \* the 99 that stands for an unknown gap

ASSUME LineAssumption ==
  /\ None \notin OrderId \cup PaymentId /\ OrderId \cap Nat = {}
  /\ Money \subseteq Int /\ Day \subseteq Nat
  /\ CaptureWindow \in Nat /\ Unknown \in Nat /\ Unknown > CaptureWindow

VARIABLES
  orders, lines,   \* ctx.orders and ctx.lines
  pass, at,        \* the loop under way and its place
  byOrder,         \* ctx.orders_by_order_id, as sets of rows
  byPayment,       \* ctx.orders_by_payment_id
  matches,         \* the matches of tiers 2 and 3
  claimedLine,     \* ctx.claimed["settlement_line"]
  claimedOrder,    \* ctx.claimed["merchant_order"]
  exceptions       \* the exceptions about orders, lines and batches

Row == DOMAIN orders
Line == DOMAIN lines

Order == [order_id: OrderId, payment_id: PaymentId \cup {None}, gross: Money,
          method: Method, captured_at: Day]

LineType == {"payment", "refund", "dispute", "transfer", "adjustment"}
Reversal == {"refund", "dispute"}

\* settlement is the batch, 0 for a line that is in none.
SettlementLine ==
  [type: LineType, on_hold: BOOLEAN, settled: BOOLEAN,
   order_id: OrderId \cup {None}, payment_id: PaymentId \cup {None},
   method: Method, created_at: Day \cup {None}, settlement: Nat,
   amount: Money, fee: Money, tax: Money, credit: Money, debit: Money]

Net(l) == lines[l].credit - lines[l].debit

RowsOf(id) == {r \in Row : orders[r].order_id = id}
RowsPaidBy(p) == {r \in Row : orders[r].payment_id = p}
PaymentsOf(p) == {l \in Line : lines[l].type = "payment" /\ lines[l].payment_id = p}
FirstOf(S) == CHOOSE x \in S : \A y \in S : x <= y
Only(S) == \E x \in S : S = {x}

\* Payment lines that are in a payout; what is on hold belongs to no settlement.
PaidOut(l) == lines[l].type = "payment" /\ ~lines[l].on_hold /\ lines[l].settled

-----------------------------------------------------------------------------
Turns == [duplicates |-> Len(orders), payment_ids |-> Len(lines),
          order_ids |-> Len(lines), amounts |-> Len(lines), orphans |-> Len(lines),
          unsettled |-> Len(orders), reversals |-> Len(lines), splits |-> Len(lines),
          chargebacks |-> Len(lines)]

\* tier2.run, then tier3.run.
Following ==
  [duplicates |-> "payment_ids", payment_ids |-> "order_ids", order_ids |-> "amounts",
   amounts |-> "orphans", orphans |-> "unsettled", unsettled |-> "reversals",
   reversals |-> "splits", splits |-> "chargebacks", chargebacks |-> "triage"]

\* One turn of the loop of a pass.
Turn(name) ==
  /\ pass = name
  /\ at <= Turns[name]
  /\ at' = at + 1
  /\ UNCHANGED <<orders, lines, pass>>

EndPass ==
  /\ pass \in DOMAIN Turns
  /\ at > Turns[pass]
  /\ pass' = Following[pass]
  /\ at' = 1
  /\ UNCHANGED <<orders, lines, byOrder, byPayment, matches, claimedLine, claimedOrder,
                 exceptions>>

Report(code, subject, residual) ==
  exceptions' = Append(exceptions, [code |-> code, subject |-> subject, residual |-> residual])

\* record_match for a line and what it is matched to, whose claim is claimed.
RecordMatch(rule, l, with) ==
  /\ matches' = Append(matches, [rule |-> rule, line |-> l, with |-> with])
  /\ claimedLine' = IF with \in Line THEN claimedLine \cup {l, with} ELSE claimedLine \cup {l}
  /\ claimedOrder' = IF with \in OrderId THEN claimedOrder \cup {with} ELSE claimedOrder

LinkNothing == UNCHANGED <<matches, claimedLine, claimedOrder>>

-----------------------------------------------------------------------------
\* Mutant: the index by payment id is not collapsed with the index by order id.
FlagDuplicateOrderIndexOnly ==
  LET id   == orders[at].order_id
      rows == byOrder[id]
      more == at = FirstOf(rows) /\ rows # {at}
  IN /\ Turn("duplicates")
     /\ \/ /\ more
           /\ Report("DUPLICATE", id, orders[at].gross * (Cardinality(rows) - 1))
           /\ byOrder' = [byOrder EXCEPT ![id] = {at}]
        \/ /\ ~more
           /\ UNCHANGED <<exceptions, byOrder>>
     /\ UNCHANGED byPayment
     /\ LinkNothing

\* The first row of an order that appears several times stays alone in the index
\* by order id, and in the index by its payment id unless one row is left there.
FlagDuplicate ==
  LET id   == orders[at].order_id
      paid == orders[at].payment_id
      rows == byOrder[id]
      more == at = FirstOf(rows) /\ rows # {at}
  IN /\ Turn("duplicates")
     /\ \/ /\ more
           /\ Report("DUPLICATE", id, orders[at].gross * (Cardinality(rows) - 1))
           /\ byOrder' = [byOrder EXCEPT ![id] = {at}]
           /\ byPayment' = [p \in PaymentId |-> IF p = paid /\ ~Only(byPayment[p])
                                                   THEN {at} ELSE byPayment[p]]
        \/ /\ ~more
           /\ UNCHANGED <<exceptions, byOrder, byPayment>>
     /\ LinkNothing

\* Mutant: an order that is already claimed is not passed over.
LinkOrderClaimedToo(rule, l, fitting) ==
  /\ \/ \E r \in fitting : /\ PaidOut(l) /\ l \notin claimedLine /\ fitting = {r}
                           /\ RecordMatch(rule, l, orders[r].order_id)
     \/ /\ ~PaidOut(l) \/ l \in claimedLine \/ \A r \in fitting : fitting # {r}
        /\ LinkNothing
  /\ UNCHANGED <<byOrder, byPayment, exceptions>>

\* Every rule of tier 2: a free line that was paid out, exactly one row that
\* fits and whose order is free.
LinkOrder(rule, l, fitting) ==
  LET candidates == {r \in fitting : orders[r].order_id \notin claimedOrder}
      free       == PaidOut(l) /\ l \notin claimedLine
  IN /\ \/ \E r \in candidates : /\ free /\ candidates = {r}
                                 /\ RecordMatch(rule, l, orders[r].order_id)
        \/ /\ ~free \/ \A r \in candidates : candidates # {r}
           /\ LinkNothing
     /\ UNCHANGED <<byOrder, byPayment, exceptions>>

MatchByPaymentId ==
  /\ Turn("payment_ids")
  /\ LinkOrder("T2.PAYMENT_ID_EXACT", at,
               IF lines[at].payment_id = None THEN {} ELSE byPayment[lines[at].payment_id])

MatchByOrderId ==
  /\ Turn("order_ids")
  /\ LinkOrder("T2.ORDER_ID_EXACT", at,
               IF lines[at].order_id = None THEN {} ELSE byOrder[lines[at].order_id])

\* days_between of a row and a line, where nothing and no gap are both unknown.
Gap(r, l) ==
  LET c == lines[l].created_at
      d == IF orders[r].captured_at < c THEN c - orders[r].captured_at
           ELSE orders[r].captured_at - c
  IN IF c = None THEN Unknown ELSE IF d = 0 THEN Unknown ELSE d

\* Over the rows themselves, not the indexes: surplus copies are candidates.
MatchByAmountAndTime ==
  /\ Turn("amounts")
  /\ LinkOrder("T2.AMOUNT_METHOD_TIME", at,
               {r \in Row : /\ orders[r].gross = lines[at].amount
                            /\ orders[r].method = lines[at].method
                            /\ Gap(r, at) <= CaptureWindow})

FlagOrphan ==
  /\ Turn("orphans")
  /\ \/ /\ PaidOut(at) /\ at \notin claimedLine
        /\ Report("ORPHAN_SETTLEMENT_LINE", at, Net(at))
     \/ /\ ~PaidOut(at) \/ at \in claimedLine
        /\ UNCHANGED exceptions
  /\ UNCHANGED <<byOrder, byPayment>>
  /\ LinkNothing

\* A line on hold for the order or for its payment.  Where neither side has a
\* payment id they count as the same.
Held(r) ==
  \E l \in Line : /\ lines[l].on_hold
                  /\ \/ lines[l].order_id = orders[r].order_id
                     \/ lines[l].payment_id = orders[r].payment_id

\* Mutant: an order that appears twice is already accounted for.
FlagUnsettledUnlessDuplicate ==
  LET missing == /\ orders[at].order_id \notin claimedOrder
                 /\ RowsOf(orders[at].order_id) = {at}
  IN /\ Turn("unsettled")
     /\ \/ /\ missing
           /\ Report(IF Held(at) THEN "ON_HOLD" ELSE "UNSETTLED_ORDER",
                     orders[at].order_id, orders[at].gross)
        \/ /\ ~missing
           /\ UNCHANGED exceptions
     /\ UNCHANGED <<byOrder, byPayment>>
     /\ LinkNothing

\* One exception per order, made at its first row.
FlagUnsettled ==
  LET missing == /\ orders[at].order_id \notin claimedOrder
                 /\ at = FirstOf(RowsOf(orders[at].order_id))
  IN /\ Turn("unsettled")
     /\ \/ /\ missing
           /\ Report(IF Held(at) THEN "ON_HOLD" ELSE "UNSETTLED_ORDER",
                     orders[at].order_id, orders[at].gross)
        \/ /\ ~missing
           /\ UNCHANGED exceptions
     /\ UNCHANGED <<byOrder, byPayment>>
     /\ LinkNothing

-----------------------------------------------------------------------------
\* The payment a reversal names: the only one of its payment id, else the only
\* one of its order id.
NamedPayment(l) ==
  IF lines[l].payment_id = None THEN {} ELSE PaymentsOf(lines[l].payment_id)

NamedOrder(l) ==
  IF lines[l].order_id = None THEN {}
  ELSE {p \in Line : lines[p].type = "payment" /\ lines[p].order_id = lines[l].order_id}

\* Mutant: two payments of one order are as good as one.
OriginalsAnyOfOrder(l) ==
  IF Only(NamedPayment(l)) THEN NamedPayment(l)
  ELSE {p \in NamedOrder(l) : \A q \in NamedOrder(l) : p <= q}

Originals(l) ==
  IF Only(NamedPayment(l)) THEN NamedPayment(l)
  ELSE IF Only(NamedOrder(l)) THEN NamedOrder(l) ELSE {}

\* A reversal claims the payment it reverses, matched or not.
MatchReversal ==
  /\ Turn("reversals")
  /\ \/ \E p \in Originals(at) :
          /\ lines[at].type \in Reversal
          /\ RecordMatch(IF Only(NamedPayment(at)) THEN "T3.PAYMENT_ID_EXACT"
                         ELSE "T3.ORDER_ID_EXACT", at, p)
          /\ UNCHANGED exceptions
     \/ /\ lines[at].type \in Reversal /\ Originals(at) = {}
        /\ Report("REFUND_WITHOUT_ORIGINAL", at, lines[at].amount)
        /\ LinkNothing
     \/ /\ lines[at].type \notin Reversal
        /\ UNCHANGED exceptions
        /\ LinkNothing
  /\ UNCHANGED <<byOrder, byPayment>>

RefundsOf(p) == {l \in Line : lines[l].type = "refund" /\ lines[l].payment_id = p}

\* Reported on the first of the refunds of one payment.
FlagSplitRefund ==
  LET refunds == RefundsOf(lines[at].payment_id)
      split   == /\ lines[at].payment_id # None
                 /\ refunds \notin {{}, {at}} /\ at = FirstOf(refunds)
  IN /\ Turn("splits")
     /\ \/ /\ split
           /\ Report("PARTIAL_REFUND_SPLIT", at, 0)
        \/ /\ ~split
           /\ UNCHANGED exceptions
     /\ UNCHANGED <<byOrder, byPayment>>
     /\ LinkNothing

FlagChargeback ==
  /\ Turn("chargebacks")
  /\ \/ /\ lines[at].type = "dispute"
        /\ Report("CHARGEBACK_DEDUCTION", at, lines[at].amount + lines[at].fee)
     \/ /\ lines[at].type # "dispute"
        /\ UNCHANGED exceptions
  /\ UNCHANGED <<byOrder, byPayment>>
  /\ LinkNothing

LineNext ==
  \/ FlagDuplicate
  \/ MatchByPaymentId \/ MatchByOrderId \/ MatchByAmountAndTime
  \/ FlagOrphan \/ FlagUnsettled
  \/ MatchReversal \/ FlagSplitRefund \/ FlagChargeback
  \/ EndPass

-----------------------------------------------------------------------------
Match ==
  [rule: {"T2.PAYMENT_ID_EXACT", "T2.ORDER_ID_EXACT", "T2.AMOUNT_METHOD_TIME"},
   line: Nat, with: OrderId] \cup
  [rule: {"T3.PAYMENT_ID_EXACT", "T3.ORDER_ID_EXACT"}, line: Nat, with: Nat]

ToOrder == {n \in DOMAIN matches : matches[n].with \in OrderId}

\* "Nothing is matched twice" and "the money is simply attributed once": no line
\* is matched to two orders, no order to two lines, however often its rows
\* appear, and no reversal reverses twice.
NothingClaimedTwice ==
  /\ \A m, n \in ToOrder : m # n =>
       matches[m].line # matches[n].line /\ matches[m].with # matches[n].with
  /\ \A m, n \in DOMAIN matches \ ToOrder : m # n => matches[m].line # matches[n].line

Past(name) ==
  \/ pass \notin DOMAIN Turns
  \/ name = "payment_ids" /\ pass \notin {"duplicates", "payment_ids"}
  \/ name = "unsettled" /\ pass \in {"reversals", "splits", "chargebacks"}

\* "Two rows sharing one order id make every downstream lookup ambiguous ... both
\* copies go unmatched": where a payment id stands on the rows of one order only,
\* and these rows carry no other, the payment is matched to that order by it.
NamedPaymentWins ==
  Past("payment_ids") /\ pass # "intake" =>
    \A l \in Line, id \in OrderId :
      /\ PaidOut(l) /\ lines[l].payment_id # None
      /\ RowsOf(id) # {} /\ RowsOf(id) = RowsPaidBy(lines[l].payment_id)
      => \E n \in DOMAIN matches : /\ matches[n].rule = "T2.PAYMENT_ID_EXACT"
                                   /\ matches[n].with = id
                                   /\ lines[matches[n].line].payment_id = lines[l].payment_id

About(codes, subject) ==
  {i \in DOMAIN exceptions : exceptions[i].code \in codes /\ exceptions[i].subject = subject}

\* "One exception per order, not per row": after tier 2 an order of the ledger is
\* matched or is reported once, held or unsettled; a payment that was paid out is
\* matched or is reported once as an orphan; nothing is both.
OrdersAccountedFor ==
  Past("unsettled") /\ pass # "intake" =>
    /\ \A id \in OrderId : RowsOf(id) # {} =>
         IF \E n \in ToOrder : matches[n].with = id
         THEN About({"ON_HOLD", "UNSETTLED_ORDER"}, id) = {}
         ELSE Only(About({"ON_HOLD", "UNSETTLED_ORDER"}, id))
    /\ \A l \in Line : PaidOut(l) =>
         IF \E n \in ToOrder : matches[n].line = l
         THEN About({"ORPHAN_SETTLEMENT_LINE"}, l) = {}
         ELSE Only(About({"ORPHAN_SETTLEMENT_LINE"}, l))

\* A "linked pair" instead of "two unexplained holes": after tier 3 every reversal
\* is linked to one payment that no other payment could be mistaken for, or is
\* reported without an original, and a dispute is reported besides.
ReversalsAccountedFor ==
  pass \notin DOMAIN Turns /\ pass # "intake" =>
    \A l \in Line : lines[l].type \in Reversal =>
      LET links == {n \in DOMAIN matches \ ToOrder : matches[n].line = l}
      IN /\ \/ Only(links) /\ About({"REFUND_WITHOUT_ORIGINAL"}, l) = {}
            \/ links = {} /\ Only(About({"REFUND_WITHOUT_ORIGINAL"}, l))
         /\ \A n \in links : LET p == lines[matches[n].with] IN
              /\ p.type = "payment"
              /\ \/ /\ p.payment_id = lines[l].payment_id
                    /\ Only(PaymentsOf(p.payment_id))
                 \/ /\ p.order_id = lines[l].order_id
                    /\ Only(NamedOrder(l))
         /\ lines[l].type = "dispute" <=> Only(About({"CHARGEBACK_DEDUCTION"}, l))

\* "One duplicated row would otherwise cost two matches and drag a real settlement
\* line into the orphan pile with it": a payment whose amount, method and time fit
\* the rows of one order only, all free, is not an orphan.
DuplicateCostsNothing ==
  \A i \in DOMAIN exceptions : exceptions[i].code = "ORPHAN_SETTLEMENT_LINE" =>
    LET l   == exceptions[i].subject
        fit == {r \in Row : /\ orders[r].gross = lines[l].amount
                            /\ orders[r].method = lines[l].method
                            /\ Gap(r, l) <= CaptureWindow
                            /\ orders[r].order_id \notin claimedOrder}
    IN ~Only({orders[r].order_id : r \in fit})
=============================================================================
