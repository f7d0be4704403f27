------------------------------- MODULE Tier1 -------------------------------
(***************************************************************************)
(* Tier 1 of a reconciliation (engine/tier1.py): which bank credit is      *)
(* which payout.  Five passes over one set of books, strictest rule first, *)
(* claim credits and payouts through ReconContext.record_match and report  *)
(* the rest through record_exception.                                      *)
(*                                                                         *)
(* Credits and payouts are numbered in the order of their lists.  The      *)
(* parsed narration of a credit is reduced to the payout whose UTR it      *)
(* carries, if any, and to whether it looks like a payout.  UTRs and ids   *)
(* of payouts are distinct, every record has a date, and dates are days.   *)
(***************************************************************************)
EXTENDS Integers, Sequences

CONSTANTS
  Credits,            \* number of bank credits
  Payouts,            \* number of settlement batches
  Amount, Day,        \* bounds: the amounts and days that occur in the books
  CreditWindow,       \* CREDIT_WINDOW_DAYS
  InFlightWindow,     \* IN_FLIGHT_WINDOW_DAYS
  NearTolerance,      \* FUZZY_AMOUNT_TOLERANCE_PAISE
  RoundingTolerance   \* ROUNDING_TOLERANCE_PAISE

ASSUME Tier1Assumption ==
  /\ Credits \in Nat /\ Payouts \in Nat
  /\ Amount \subseteq Nat \ {0}
  /\ Day \subseteq Nat
  /\ CreditWindow \in Nat /\ InFlightWindow \in Nat
  /\ NearTolerance \in Nat /\ RoundingTolerance \in Nat

VARIABLES
  books,          \* the parsed statement and settlement report, never changed
  pass, at,       \* the pass under way and the place of its loop
  matches,        \* ctx.matches, as far as they link a credit to a payout
  claimedCredit,  \* ctx.claimed["bank_txn"]
  claimedPayout,  \* ctx.claimed["settlement_batch"]
  exceptions      \* ctx.exceptions, as far as they are about credits and payouts

tier1Vars == <<books, pass, at, matches, claimedCredit, claimedPayout, exceptions>>

Credit == 1..Credits
Payout == 1..Payouts
None == 0

Books == [credit: [Credit -> Amount], value_date: [Credit -> Day],
          utr: [Credit -> Payout \cup {None}], like: SUBSET Credit,
          paid: [Payout -> Amount], settled_at: [Payout -> Day]]

ResidualCodes == {"SHORT_CREDIT", "OVER_CREDIT", "ROUNDING"}
AbsenceCodes == {"MISSING_BANK_CREDIT", "TIMING_DIFFERENCE"}

Rules == {"T1.UTR_EXACT", "T1.AMOUNT_DATE_EXACT", "T1.AMOUNT_NEAR",
          "T1.CONSOLIDATED_SUBSET_SUM"}

Match == [rule: Rules, credit: Credit, payout: Payout]

\* subject is a payout, except that an unmatched credit is about the credit.  by
\* is what the exception was closed with.
Exception ==
  [code: ResidualCodes \cup AbsenceCodes \cup {"UNMATCHED_BANK_CREDIT"},
   subject: Credit \cup Payout, residual: Nat,
   status: {"open", "rolled_forward", "auto_resolved", "ai_resolved",
            "ai_hypothesis", "ai_rejected"},
   by: SUBSET Payout]

Distance(x, y) == IF x < y THEN y - x ELSE x - y

\* days_between of a credit and a payout.
Gap(c, p) == Distance(books.value_date[c], books.settled_at[p])

Init ==
  /\ books \in Books
  /\ pass = "utr" /\ at = 1
  /\ matches = << >>
  /\ claimedCredit = {} /\ claimedPayout = {}
  /\ exceptions = << >>

-----------------------------------------------------------------------------
Turns == [utr |-> Credits, exact |-> Credits, near |-> Credits,
          residuals |-> Len(matches), credits |-> Credits, payouts |-> Payouts]

\* tier1.run: the order of the passes.
Following ==
  [utr |-> "exact", exact |-> "near", near |-> "residuals", residuals |-> "credits",
   credits |-> "payouts", payouts |-> "search"]

\* One turn of the loop of a pass.
Turn(name) ==
  /\ pass = name
  /\ at <= Turns[name]
  /\ at' = at + 1
  /\ UNCHANGED <<books, pass>>

EndPass ==
  /\ pass \in DOMAIN Turns
  /\ at > Turns[pass]
  /\ pass' = Following[pass]
  /\ at' = 1
  /\ UNCHANGED <<books, matches, claimedCredit, claimedPayout, exceptions>>

\* Mutant: only the left side of a match is claimed.
RecordMatchesLeftOnly(rule, c, found) ==
  /\ matches' = matches \o [n \in 1..Len(found) |->
                              [rule |-> rule, credit |-> c, payout |-> found[n]]]
  /\ claimedCredit' = claimedCredit \cup {c}
  /\ UNCHANGED claimedPayout

\* record_match for a credit and each of a list of payouts.
RecordMatches(rule, c, found) ==
  /\ matches' = matches \o [n \in 1..Len(found) |->
                              [rule |-> rule, credit |-> c, payout |-> found[n]]]
  /\ claimedCredit' = claimedCredit \cup {c}
  /\ claimedPayout' = claimedPayout \cup {found[n] : n \in 1..Len(found)}

\* Mutant: a credit linked by an earlier rule is not passed over.
LinkLinkedToo(rule, c, fitting) ==
  LET candidates == fitting \ claimedPayout
      unique     == \E p \in candidates : candidates = {p}
  IN /\ \/ /\ unique
           /\ \E p \in candidates : RecordMatches(rule, c, <<p>>)
        \/ /\ ~unique
           /\ UNCHANGED <<matches, claimedCredit, claimedPayout>>
     /\ UNCHANGED exceptions

\* Every linking rule: a free credit, and exactly one free payout that fits.
Link(rule, c, fitting) ==
  LET candidates == fitting \ claimedPayout
      unique     == c \notin claimedCredit /\ \E p \in candidates : candidates = {p}
  IN /\ \/ /\ unique
           /\ \E p \in candidates : RecordMatches(rule, c, <<p>>)
        \/ /\ ~unique
           /\ UNCHANGED <<matches, claimedCredit, claimedPayout>>
     /\ UNCHANGED exceptions

\* Mutant: a UTR counts only together with the amount.
MatchByUtrAndAmount ==
  /\ Turn("utr")
  /\ Link("T1.UTR_EXACT", at,
          {p \in Payout : books.utr[at] = p /\ books.credit[at] = books.paid[p]})

MatchByUtr ==
  /\ Turn("utr")
  /\ Link("T1.UTR_EXACT", at, {p \in Payout : books.utr[at] = p})

MatchByExactAmount ==
  /\ Turn("exact")
  /\ Link("T1.AMOUNT_DATE_EXACT", at,
          {p \in Payout : books.credit[at] = books.paid[p] /\ Gap(at, p) <= CreditWindow})

MatchByNearAmount ==
  /\ Turn("near")
  /\ Link("T1.AMOUNT_NEAR", at,
          {p \in Payout : /\ Distance(books.credit[at], books.paid[p]) <= NearTolerance
                          /\ Gap(at, p) <= CreditWindow})

Report(code, subject, residual, status) ==
  exceptions' = Append(exceptions, [code |-> code, subject |-> subject,
                                    residual |-> residual, status |-> status, by |-> {}])

ResidualCode(delta) ==
  IF delta \in -RoundingTolerance..RoundingTolerance THEN "ROUNDING"
  ELSE IF delta < 0 THEN "SHORT_CREDIT" ELSE "OVER_CREDIT"

\* Mutant: only the fuzzy rule's matches are checked for a gap.
CheckResidualFuzzyOnly ==
  LET m == matches[at]
      delta == books.credit[m.credit] - books.paid[m.payout]
  IN /\ Turn("residuals")
     /\ \/ /\ delta # 0 /\ m.rule = "T1.AMOUNT_NEAR"
           /\ Report(ResidualCode(delta), m.payout, Distance(delta, 0), "open")
        \/ /\ delta = 0 \/ m.rule # "T1.AMOUNT_NEAR"
           /\ UNCHANGED exceptions
     /\ UNCHANGED <<matches, claimedCredit, claimedPayout>>

\* A match whose amounts differ is reported, whatever rule made it.
CheckResidual ==
  LET m == matches[at]
      delta == books.credit[m.credit] - books.paid[m.payout]
  IN /\ Turn("residuals")
     /\ \/ /\ delta # 0
           /\ Report(ResidualCode(delta), m.payout, Distance(delta, 0), "open")
        \/ /\ delta = 0
           /\ UNCHANGED exceptions
     /\ UNCHANGED <<matches, claimedCredit, claimedPayout>>

\* A free credit that looks like a payout is reported; any other is the
\* merchant's own business.
FlagCredit ==
  /\ Turn("credits")
  /\ \/ /\ at \notin claimedCredit /\ at \in books.like
        /\ Report("UNMATCHED_BANK_CREDIT", at, books.credit[at], "open")
     \/ /\ at \in claimedCredit \/ at \notin books.like
        /\ UNCHANGED exceptions
  /\ UNCHANGED <<matches, claimedCredit, claimedPayout>>

\* Close to the latest credit of the statement, on either side of it.
InFlight(p) ==
  \E c \in Credit : /\ \A d \in Credit : books.value_date[d] <= books.value_date[c]
                    /\ Gap(c, p) <= InFlightWindow

\* Mutant: a payout in flight is nobody's business yet and is not reported.
FlagPayoutUnlessInFlight ==
  /\ Turn("payouts")
  /\ \/ /\ at \notin claimedPayout /\ ~InFlight(at)
        /\ Report("MISSING_BANK_CREDIT", at, books.paid[at], "open")
     \/ /\ at \in claimedPayout \/ InFlight(at)
        /\ UNCHANGED exceptions
  /\ UNCHANGED <<matches, claimedCredit, claimedPayout>>

FlagPayout ==
  /\ Turn("payouts")
  /\ \/ /\ at \notin claimedPayout /\ InFlight(at)
        /\ Report("TIMING_DIFFERENCE", at, books.paid[at], "rolled_forward")
     \/ /\ at \notin claimedPayout /\ ~InFlight(at)
        /\ Report("MISSING_BANK_CREDIT", at, books.paid[at], "open")
     \/ /\ at \in claimedPayout
        /\ UNCHANGED exceptions
  /\ UNCHANGED <<matches, claimedCredit, claimedPayout>>

Tier1Next ==
  \/ MatchByUtr \/ MatchByExactAmount \/ MatchByNearAmount
  \/ CheckResidual \/ FlagCredit \/ FlagPayout
  \/ EndPass

-----------------------------------------------------------------------------
\* "Ids already consumed by a match, so nothing is matched twice" (ReconContext):
\* no payout is in two matches, and a credit only when it is the sum of several.
NothingMatchedTwice ==
  \A m, n \in DOMAIN matches : m # n =>
    /\ matches[m].payout # matches[n].payout
    /\ matches[m].credit = matches[n].credit =>
         /\ matches[m].rule = "T1.CONSOLIDATED_SUBSET_SUM"
         /\ matches[n].rule = "T1.CONSOLIDATED_SUBSET_SUM"

\* "The rules run strictest-first": a payout whose UTR is in some credit's
\* narration is never lost to a weaker rule.
UtrWins ==
  pass \notin {"utr", "exact"} =>
    \A c \in Credit : books.utr[c] # None =>
      \E n \in DOMAIN matches : /\ matches[n].payout = books.utr[c]
                                /\ books.utr[matches[n].credit] = books.utr[c]

\* "Every tier-1 match, checked for a money gap": when the residuals have been
\* checked, a match that does not add up has one exception with exactly its gap,
\* and no other match has any.
NoGapSwallowed ==
  pass \in {"credits", "payouts"} =>
    \A n \in DOMAIN matches :
      LET delta == books.credit[matches[n].credit] - books.paid[matches[n].payout]
          gaps  == {i \in DOMAIN exceptions : /\ exceptions[i].code \in ResidualCodes
                                              /\ exceptions[i].subject = matches[n].payout}
      IN IF delta = 0 THEN gaps = {}
         ELSE \E i \in gaps : /\ gaps = {i}
                              /\ exceptions[i].residual = Distance(delta, 0)
                              /\ exceptions[i].code = "SHORT_CREDIT" => delta < 0
                              /\ exceptions[i].code = "OVER_CREDIT" => delta > 0

Reported(codes, subject) ==
  \E i \in DOMAIN exceptions : exceptions[i].code \in codes /\ exceptions[i].subject = subject

\* "Everything tier 1 could not link, on both sides": at its end a payout is
\* matched or reported absent, a credit that looks like a payout is matched or
\* reported unmatched, and neither is both.
EverythingAccountedFor ==
  pass = "search" /\ at = 1 =>
    /\ \A p \in Payout : p \in claimedPayout <=> ~Reported(AbsenceCodes, p)
    /\ \A c \in books.like : c \in claimedCredit <=> ~Reported({"UNMATCHED_BANK_CREDIT"}, c)

\* The credit a payout has been matched to.
CreditOf(p) ==
  IF \E n \in DOMAIN matches : matches[n].payout = p
  THEN matches[CHOOSE n \in DOMAIN matches : matches[n].payout = p].credit
  ELSE None

Assignment == INSTANCE PayoutAssignment WITH creditOf <- [p \in Payout |-> CreditOf(p)]

\* Matching assigns payouts to credits, each once and for good.
ImplementsAssignment == Assignment!Spec
=============================================================================
