-------------------------- MODULE ResolutionProofs --------------------------
(***************************************************************************)
(* What holds of tier 1, the search and the model for every set of books,  *)
(* every window, tolerance and limit, and every model.                     *)
(***************************************************************************)
EXTENDS Resolution, FiniteSetTheorems, TLAPS

USE DEF None

\* A verdict of a single component is never that of a whole proposal.
LEMMA FaultType ==
  ASSUME NEW p, NEW n, NEW known, NEW matched
  PROVE  Fault(p, n, known, matched) \in RejectedVerdicts \cup {"none"}
BY DEF Fault, RejectedVerdicts

\* What verify accepts is evidence: every component is a payout on record, unused,
\* cited once and at its amount, they sum to the target, and there is no rival.
THEOREM AcceptedIsEvidence ==
  ASSUME NEW S, NEW p \in Seq(S), NEW target, NEW known, NEW matched, NEW rivals,
         Verify(p, target, known, matched, rivals) = "resolved_verified"
  PROVE  /\ p # << >>
         /\ \A n \in DOMAIN p : /\ p[n].kind = "settlement_batch"
                                /\ p[n].ref \in DOMAIN known
                                /\ p[n].ref \notin matched
                                /\ p[n].amount = known[p[n].ref]
         /\ \A m, n \in DOMAIN p : m # n => p[m].ref # p[n].ref
         /\ Total(p) = target
         /\ ~(rivals > 0)
<1> DEFINE faulty == {n \in DOMAIN p : Fault(p, n, known, matched) # "none"}
           first  == CHOOSE n \in faulty : \A m \in faulty : n <= m
<1>1. /\ p # << >>
      /\ faulty = {}
      /\ Total(p) = target
      /\ ~(rivals > 0)
      /\ \A n \in DOMAIN p : p[n].kind \notin ChargeKinds
  <2>1. Fault(p, first, known, matched) # "resolved_verified"
    BY FaultType DEF RejectedVerdicts
  <2>2. QED
    BY <2>1 DEF Verify
<1>2. \A n \in DOMAIN p : Fault(p, n, known, matched) = "none"
  BY <1>1
<1>3. \A n \in DOMAIN p : /\ p[n].kind \in CitedKinds
                          /\ p[n].ref \in DOMAIN known
                          /\ ~\E m \in 1..(n - 1) : p[m].kind \in CitedKinds /\ p[m].ref = p[n].ref
                          /\ p[n].ref \notin matched
                          /\ p[n].amount = known[p[n].ref]
                          /\ ReadBack(p[n], known)
  BY <1>1, <1>2 DEF Fault
<1>4. ASSUME NEW m \in DOMAIN p, NEW n \in DOMAIN p, m # n
      PROVE  p[m].ref # p[n].ref
  <2>1. m \in 1..(n - 1) \/ n \in 1..(m - 1)
    BY <1>4
  <2>2. QED
    BY <2>1, <1>3
<1>5. QED
  BY <1>1, <1>3, <1>4 DEF ReadBack

-----------------------------------------------------------------------------
\* SetToSeq lists each element of a finite set once, and nothing else.
LEMMA ListingOnce ==
  ASSUME NEW S, IsFiniteSet(S)
  PROVE  /\ SetToSeq(S) \in Seq(S)
         /\ \A m, n \in DOMAIN SetToSeq(S) : m # n => SetToSeq(S)[m] # SetToSeq(S)[n]
<1>1. Cardinality(S) \in Nat /\ ExistsBijection(1..Cardinality(S), S)
  BY FS_CardinalityType
<1>2. \E f \in [1..Cardinality(S) -> S] : IsInjective(f)
  BY <1>1 DEF ExistsBijection, Bijection, Injection, IsInjective
<1>3. SetToSeq(S) \in [1..Cardinality(S) -> S] /\ IsInjective(SetToSeq(S))
  BY <1>2 DEF SetToSeq
<1>4. QED
  BY <1>1, <1>3 DEF IsInjective

\* The explanations of a credit are sets of free payouts.
LEMMA ExplanationsType ==
  ASSUME NEW c, NEW combo \in Explanations(c)
  PROVE  combo \subseteq Payout \ claimedPayout /\ IsFiniteSet(combo)
<1>1. combo \subseteq Payout \ claimedPayout
  BY DEF Explanations, Combinations, Candidates
<1>2. IsFiniteSet(Payout)
  BY Tier1Assumption, FS_Interval DEF Payout
<1>3. QED
  BY <1>1, <1>2, FS_Subset

-----------------------------------------------------------------------------
(***************************************************************************)
(* Types.  An exception's subject alone does not say whether it is a       *)
(* credit; its code does.                                                  *)
(***************************************************************************)
CreditExceptions ==
  \A i \in DOMAIN exceptions :
    exceptions[i].code = "UNMATCHED_BANK_CREDIT" => exceptions[i].subject \in Credit

TypeInv == TypeOK /\ CreditExceptions

\* Record_match for a list of payouts extends the matches by as many.
LEMMA RecordingType ==
  ASSUME matches \in Seq(Match), claimedCredit \subseteq Credit, claimedPayout \subseteq Payout,
         NEW rule \in Rules, NEW c \in Credit, NEW found \in Seq(Payout),
         RecordMatches(rule, c, found)
  PROVE  /\ matches' \in Seq(Match)
         /\ claimedCredit' \subseteq Credit /\ claimedPayout' \subseteq Payout
<1>1. [n \in 1..Len(found) |-> [rule |-> rule, credit |-> c, payout |-> found[n]]] \in Seq(Match)
  <2>1. \A n \in 1..Len(found) : [rule |-> rule, credit |-> c, payout |-> found[n]] \in Match
    BY DEF Match
  <2>2. QED
    BY <2>1
<1>2. QED
  BY <1>1 DEF RecordMatches

\* A rule of tier 1 keeps the types.
LEMMA LinkType ==
  ASSUME TypeInv, NEW rule \in Rules, NEW c \in Credit, NEW fitting \in SUBSET Payout,
         Link(rule, c, fitting)
  PROVE  /\ matches' \in Seq(Match)
         /\ claimedCredit' \subseteq Credit /\ claimedPayout' \subseteq Payout
         /\ exceptions' = exceptions
<1>1. CASE UNCHANGED <<matches, claimedCredit, claimedPayout>>
  BY <1>1 DEF TypeInv, TypeOK, Link
<1>2. CASE \E p \in fitting \ claimedPayout : RecordMatches(rule, c, <<p>>)
  <2>1. PICK p \in Payout : RecordMatches(rule, c, <<p>>)
    BY <1>2
  <2>2. <<p>> \in Seq(Payout)
    OBVIOUS
  <2>3. QED
    BY <2>1, <2>2, RecordingType DEF TypeInv, TypeOK, Link
<1>3. QED
  BY <1>1, <1>2 DEF Link

\* An exception that is reported keeps the types.
LEMMA ReportType ==
  ASSUME TypeInv, NEW code, NEW subject, NEW residual \in Nat, NEW status,
         code \in ResidualCodes \cup AbsenceCodes \cup {"UNMATCHED_BANK_CREDIT"},
         subject \in Credit \cup Payout,
         code = "UNMATCHED_BANK_CREDIT" => subject \in Credit,
         status \in {"open", "rolled_forward"},
         Report(code, subject, residual, status)
  PROVE  /\ exceptions' \in Seq(Exception)
         /\ CreditExceptions'
         /\ DOMAIN exceptions \subseteq DOMAIN exceptions'
<1> DEFINE e == [code |-> code, subject |-> subject, residual |-> residual,
                 status |-> status, by |-> {}]
<1>1. e \in Exception
  BY DEF Exception
<1>2. exceptions \in Seq(Exception) /\ exceptions' = Append(exceptions, e)
  BY DEF TypeInv, TypeOK, Report
<1>3. exceptions' \in Seq(Exception) /\ Len(exceptions') = Len(exceptions) + 1
  BY <1>1, <1>2
<1>4. ASSUME NEW i \in DOMAIN exceptions'
      PROVE  \/ i \in DOMAIN exceptions /\ exceptions'[i] = exceptions[i]
             \/ exceptions'[i] = e
  BY <1>1, <1>2, <1>3
<1>5. CreditExceptions'
  BY <1>4 DEF CreditExceptions, TypeInv
<1>6. QED
  BY <1>2, <1>3, <1>5

\* Tier 1 keeps the types.
LEMMA Tier1Types ==
  ASSUME TypeInv, Tier1Step
  PROVE  TypeInv'
<1> USE DEF TypeInv
<1>1. ASSUME NEW rule \in Rules, NEW fitting \in SUBSET Payout, NEW name \in {"utr", "exact", "near"},
             Turn(name), Link(rule, at, fitting), UNCHANGED <<queue, attempt>>
      PROVE  TypeInv'
  <2>1. at \in Credit
    BY <1>1 DEF Turn, Turns, Credit, TypeOK
  <2>2. /\ matches' \in Seq(Match)
        /\ claimedCredit' \subseteq Credit /\ claimedPayout' \subseteq Payout
        /\ exceptions' = exceptions
    BY <1>1, <2>1, LinkType
  <2>3. QED
    BY <1>1, <2>2 DEF TypeOK, Turn, Turns, CreditExceptions
<1>2. ASSUME NEW name, Turn(name), exceptions' \in Seq(Exception), CreditExceptions',
             DOMAIN exceptions \subseteq DOMAIN exceptions',
             UNCHANGED <<matches, claimedCredit, claimedPayout, queue, attempt>>
      PROVE  TypeInv'
  BY <1>2 DEF TypeOK, Turn, Turns
<1>3. ASSUME NEW name, Turn(name),
             UNCHANGED <<matches, claimedCredit, claimedPayout, exceptions, queue, attempt>>
      PROVE  TypeInv'
  BY <1>3 DEF TypeOK, Turn, Turns, CreditExceptions
<1>4. CASE MatchByUtr
  BY <1>1, <1>4 DEF MatchByUtr, Rules, Tier1Step
<1>5. CASE MatchByExactAmount
  BY <1>1, <1>5 DEF MatchByExactAmount, Rules, Tier1Step
<1>6. CASE MatchByNearAmount
  BY <1>1, <1>6 DEF MatchByNearAmount, Rules, Tier1Step
<1>7. CASE CheckResidual
  <2> DEFINE m == matches[at]
             delta == books.credit[m.credit] - books.paid[m.payout]
  <2>1. m \in Match
    <3>1. matches \in Seq(Match) /\ at \in Nat \ {0}
      BY DEF TypeOK
    <3>2. at <= Len(matches)
      <4>1. Turn("residuals")
        BY <1>7 DEF CheckResidual
      <4>2. Turns["residuals"] = Len(matches)
        BY Zenon DEF Turns
      <4>3. QED
        BY <4>1, <4>2 DEF Turn
    <3>3. at \in DOMAIN matches
      BY <3>1, <3>2
    <3>4. QED
      BY <3>1, <3>3
  <2>2. delta \in Int
    <3>1. \A c \in Credit, p \in Payout : books.credit[c] \in Nat /\ books.paid[p] \in Nat
      BY Tier1Assumption DEF TypeOK, Books
    <3>2. m.credit \in Credit /\ m.payout \in Payout
      BY <2>1 DEF Match
    <3>3. books.credit[m.credit] \in Nat /\ books.paid[m.payout] \in Nat
      BY <3>1, <3>2
    <3>4. QED
      BY <3>3
  <2>3. Distance(delta, 0) \in Nat
    BY <2>2 DEF Distance
  <2>4. m.payout \in Credit \cup Payout
    BY <2>1 DEF Match
  <2>5. CASE Report(ResidualCode(delta), m.payout, Distance(delta, 0), "open")
    <3>1. ResidualCode(delta) \in ResidualCodes
      BY DEF ResidualCode, ResidualCodes
    <3>2. "UNMATCHED_BANK_CREDIT" \notin ResidualCodes
      BY DEF ResidualCodes
    <3>3. /\ exceptions' \in Seq(Exception) /\ CreditExceptions'
          /\ DOMAIN exceptions \subseteq DOMAIN exceptions'
      BY <2>3, <2>4, <2>5, <3>1, <3>2, ReportType
    <3>4. QED
      BY <1>2, <1>7, <3>3 DEF CheckResidual, Tier1Step
  <2>6. QED
    BY <1>3, <1>7, <2>5 DEF CheckResidual, Tier1Step
<1>8. CASE FlagCredit
  <2>1. at \in Credit
    BY <1>8 DEF FlagCredit, Turn, Turns, Credit, TypeOK
  <2>2. books.credit[at] \in Nat
    BY <2>1, Tier1Assumption DEF TypeOK, Books
  <2>3. CASE Report("UNMATCHED_BANK_CREDIT", at, books.credit[at], "open")
    <3>1. /\ exceptions' \in Seq(Exception) /\ CreditExceptions'
          /\ DOMAIN exceptions \subseteq DOMAIN exceptions'
      BY <2>1, <2>2, <2>3, ReportType
    <3>2. QED
      BY <1>2, <1>8, <3>1 DEF FlagCredit, Tier1Step
  <2>4. QED
    BY <1>3, <1>8, <2>3 DEF FlagCredit, Tier1Step
<1>9. CASE FlagPayout
  <2>1. at \in Payout
    BY <1>9 DEF FlagPayout, Turn, Turns, Payout, TypeOK
  <2>2. books.paid[at] \in Nat
    BY <2>1, Tier1Assumption DEF TypeOK, Books
  <2>3. ASSUME NEW code \in AbsenceCodes, NEW status \in {"open", "rolled_forward"},
               Report(code, at, books.paid[at], status)
        PROVE  TypeInv'
    <3>1. code # "UNMATCHED_BANK_CREDIT"
      BY DEF AbsenceCodes
    <3>2. /\ exceptions' \in Seq(Exception) /\ CreditExceptions'
          /\ DOMAIN exceptions \subseteq DOMAIN exceptions'
      BY <2>1, <2>2, <2>3, <3>1, ReportType
    <3>3. QED
      BY <1>2, <1>9, <3>2 DEF FlagPayout, Tier1Step
  <2>4. QED
    BY <1>3, <1>9, <2>3 DEF FlagPayout, Tier1Step, AbsenceCodes
<1>10. CASE EndPass
  BY <1>10 DEF EndPass, Tier1Step, TypeOK, CreditExceptions, Turns, Following
<1>11. QED
  BY <1>4, <1>5, <1>6, <1>7, <1>8, <1>9, <1>10 DEF Tier1Step, Tier1Next

\* What triage makes of an exception is an exception.
LEMMA SettlingType ==
  ASSUME TypeInv, NEW i \in DOMAIN exceptions, NEW proposal \in SeqOf(Component, MaxComponents)
  PROVE  LET verdict == Finding(i, proposal)
             by == IF verdict = "resolved_verified"
                   THEN {proposal[n].ref : n \in DOMAIN proposal} ELSE {}
         IN Closed(exceptions[i], Standing(verdict), by) \in Exception
<1> DEFINE verdict == Finding(i, proposal)
           by == IF verdict = "resolved_verified"
                 THEN {proposal[n].ref : n \in DOMAIN proposal} ELSE {}
<1>1. Standing(verdict) \in {"ai_resolved", "ai_hypothesis", "ai_rejected"}
  BY DEF Standing
<1>2. by \subseteq Payout
  <2>1. proposal \in Seq(Component)
    BY ResolutionAssumption DEF SeqOf
  <2>2. DOMAIN books.paid = Payout
    BY DEF TypeInv, TypeOK, Books
  <2>3. CASE verdict = "resolved_verified"
    BY <2>1, <2>2, <2>3, AcceptedIsEvidence DEF Finding
  <2>4. QED
    BY <2>3
<1>3. exceptions[i] \in Exception
  BY DEF TypeInv, TypeOK
<1>4. QED
  BY <1>1, <1>2, <1>3 DEF Closed, Exception

\* The search and triage keep the types.
LEMMA ResolutionTypes ==
  ASSUME TypeInv, [ResolutionNext]_vars
  PROVE  TypeInv'
<1> USE DEF TypeInv
<1> USE ResolutionAssumption
<1>1. CASE Tier1Step
  BY <1>1, Tier1Types
<1>2. CASE Search
  <2>1. CASE Consolidate(at)
    <3> DEFINE c == exceptions[at].subject
    <3>1. at \in DOMAIN exceptions
      BY <1>2 DEF Search, TypeOK
    <3>2. c \in Credit
      BY <2>1, <3>1 DEF Consolidate, Explicable, CreditExceptions
    <3>3. PICK combo \in Explanations(c) :
            /\ RecordMatches("T1.CONSOLIDATED_SUBSET_SUM", c, SetToSeq(combo))
            /\ CloseExplained(at, combo)
      BY <2>1 DEF Consolidate
    <3>4. combo \subseteq Payout /\ SetToSeq(combo) \in Seq(Payout)
      BY <3>3, ExplanationsType, ListingOnce
    <3>5. /\ matches' \in Seq(Match)
          /\ claimedCredit' \subseteq Credit /\ claimedPayout' \subseteq Payout
      BY <3>2, <3>3, <3>4, RecordingType DEF TypeOK, Rules
    <3>6. /\ DOMAIN exceptions' = DOMAIN exceptions
          /\ \A j \in DOMAIN exceptions :
               \/ exceptions'[j] = exceptions[j]
               \/ \E by \in {combo, {}} :
                    exceptions'[j] = Closed(exceptions[j], "auto_resolved", by)
      BY <3>3 DEF CloseExplained
    <3>7. \A j \in DOMAIN exceptions :
            /\ exceptions'[j] \in Exception
            /\ exceptions'[j].code = exceptions[j].code
            /\ exceptions'[j].subject = exceptions[j].subject
      <4>1. \A j \in DOMAIN exceptions : exceptions[j] \in Exception
        BY DEF TypeOK
      <4>2. \A e \in Exception, by \in SUBSET Payout :
              /\ Closed(e, "auto_resolved", by) \in Exception
              /\ Closed(e, "auto_resolved", by).code = e.code
              /\ Closed(e, "auto_resolved", by).subject = e.subject
        BY DEF Closed, Exception
      <4>3. QED
        BY <3>4, <3>6, <4>1, <4>2
    <3>8. exceptions' \in Seq(Exception)
      <4>1. exceptions' = [j \in 1..Len(exceptions) |-> exceptions'[j]]
        BY <3>3 DEF CloseExplained, TypeOK
      <4>2. QED
        BY <3>7, <4>1 DEF TypeOK
    <3>9. CreditExceptions'
      BY <3>6, <3>7 DEF CreditExceptions
    <3>10. QED
      BY <1>2, <3>5, <3>6, <3>8, <3>9 DEF Search, TypeOK, Turns
  <2>2. CASE LeaveOpen(at)
    BY <1>2, <2>2 DEF Search, LeaveOpen, TypeOK, Turns, CreditExceptions
  <2>3. QED
    BY <1>2, <2>1, <2>2 DEF Search
<1>3. CASE BeginTriage
  BY <1>3 DEF BeginTriage, TypeOK, Turns, CreditExceptions
<1>4. CASE SkipTriage
  BY <1>4 DEF SkipTriage, TypeOK, Turns, CreditExceptions
<1>5. ASSUME NEW i \in queue, NoAnswer(i)
      PROVE  TypeInv'
  BY <1>5 DEF NoAnswer, NextException, AskingChangesNothingElse, TypeOK, Turns, CreditExceptions
<1>6. ASSUME NEW i \in queue, ReviseProposal(i)
      PROVE  TypeInv'
  BY <1>6 DEF ReviseProposal, Retries, AskingChangesNothingElse, TypeOK, Turns, CreditExceptions
<1>7. ASSUME NEW i \in queue, TakeProposal(i)
      PROVE  TypeInv'
  <2>1. i \in DOMAIN exceptions
    BY DEF TypeOK
  <2>2. PICK proposal \in SeqOf(Component, MaxComponents) :
          LET verdict == Finding(i, proposal)
              by == IF verdict = "resolved_verified"
                    THEN {proposal[n].ref : n \in DOMAIN proposal} ELSE {}
          IN exceptions' = [exceptions EXCEPT ![i] = Closed(@, Standing(verdict), by)]
    BY <1>7 DEF TakeProposal
  <2>3. PICK e \in Exception : /\ exceptions' = [exceptions EXCEPT ![i] = e]
                               /\ e.code = exceptions[i].code
                               /\ e.subject = exceptions[i].subject
    <3> DEFINE verdict == Finding(i, proposal)
               by == IF verdict = "resolved_verified"
                     THEN {proposal[n].ref : n \in DOMAIN proposal} ELSE {}
               e == Closed(exceptions[i], Standing(verdict), by)
    <3>1. e \in Exception
      BY <2>1, SettlingType
    <3>2. e.code = exceptions[i].code /\ e.subject = exceptions[i].subject
      BY <2>1 DEF Closed, Exception, TypeOK
    <3>3. exceptions' = [exceptions EXCEPT ![i] = e]
      BY <2>2
    <3>4. QED
      BY <3>1, <3>2, <3>3
  <2>4. exceptions' \in Seq(Exception) /\ DOMAIN exceptions' = DOMAIN exceptions
    BY <2>1, <2>3 DEF TypeOK
  <2>5. CreditExceptions'
    BY <2>1, <2>3, <2>4 DEF CreditExceptions
  <2>6. QED
    BY <1>7, <2>4, <2>5
    DEF TakeProposal, NextException, AskingChangesNothingElse, TypeOK, Turns
<1>8. CASE EndTriage
  BY <1>8 DEF EndTriage, TypeOK, Turns, CreditExceptions
<1>9. CASE UNCHANGED vars
  BY <1>9 DEF vars, tier1Vars, TypeOK, Turns, CreditExceptions
<1>10. QED
  BY <1>1, <1>2, <1>3, <1>4, <1>5, <1>6, <1>7, <1>8, <1>9 DEF ResolutionNext

\* The type invariant, and with it that a credit's exception names a credit.
THEOREM WellFormed == Spec => []TypeInv
<1>1. ResolutionInit => TypeInv
  BY ResolutionAssumption
  DEF ResolutionInit, Init, TypeInv, TypeOK, Turns, CreditExceptions
<1>2. TypeInv /\ [ResolutionNext]_vars => TypeInv'
  BY ResolutionTypes
<1>3. QED
  BY <1>1, <1>2, PTL DEF Spec

\* The type invariant of a reconciliation, whatever its books and its model.
THEOREM TypeCorrect == Spec => []TypeOK
<1>1. TypeInv => TypeOK
  BY DEF TypeInv
<1>2. QED
  BY <1>1, WellFormed, PTL

-----------------------------------------------------------------------------
(***************************************************************************)
(* Nothing is matched twice.  What is matched is claimed, and no rule      *)
(* looks at what is claimed.                                               *)
(***************************************************************************)
MatchedIsClaimed ==
  \A n \in DOMAIN matches : /\ matches[n].credit \in claimedCredit
                            /\ matches[n].payout \in claimedPayout

MatchInv == NothingMatchedTwice /\ MatchedIsClaimed

\* What recording a list of payouts leaves: the old matches, and one for each.
LEMMA RecordedMatches ==
  ASSUME matches \in Seq(Match), NEW rule \in Rules, NEW c \in Credit,
         NEW found \in Seq(Payout), RecordMatches(rule, c, found)
  PROVE  /\ DOMAIN matches' \subseteq Nat
         /\ \A n \in DOMAIN matches : n \in DOMAIN matches' /\ matches'[n] = matches[n]
         /\ \A n \in DOMAIN matches' :
              \/ n \in DOMAIN matches /\ matches'[n] = matches[n]
              \/ /\ n \notin DOMAIN matches
                 /\ n - Len(matches) \in 1..Len(found)
                 /\ matches'[n].rule = rule
                 /\ matches'[n].credit = c
                 /\ matches'[n].payout = found[n - Len(matches)]
         /\ \A j \in 1..Len(found) :
              \E n \in DOMAIN matches' : matches'[n].payout = found[j] /\ matches'[n].credit = c
<1> DEFINE new == [n \in 1..Len(found) |-> [rule |-> rule, credit |-> c, payout |-> found[n]]]
           k == Len(matches)
<1>1. new \in Seq(Match) /\ Len(new) = Len(found)
  <2>1. \A n \in 1..Len(found) : [rule |-> rule, credit |-> c, payout |-> found[n]] \in Match
    BY DEF Match
  <2>2. QED
    BY <2>1
<1>2. matches' = matches \o new
  BY DEF RecordMatches
<1>3. /\ k \in Nat /\ Len(found) \in Nat
      /\ DOMAIN matches = 1..k
      /\ DOMAIN matches' = 1..(k + Len(found))
      /\ \A n \in 1..k : matches'[n] = matches[n]
      /\ \A n \in (k + 1)..(k + Len(found)) : matches'[n] = new[n - k]
  BY <1>1, <1>2
<1>4. ASSUME NEW n \in (k + 1)..(k + Len(found))
      PROVE  /\ n \notin 1..k
             /\ n - k \in 1..Len(found)
             /\ matches'[n].rule = rule
             /\ matches'[n].credit = c
             /\ matches'[n].payout = found[n - k]
  <2>1. n \notin 1..k /\ n - k \in 1..Len(found)
    BY <1>3
  <2>2. matches'[n] = [rule |-> rule, credit |-> c, payout |-> found[n - k]]
    BY <1>3, <2>1
  <2>3. QED
    BY <2>1, <2>2
<1>5. ASSUME NEW j \in 1..Len(found)
      PROVE  \E n \in DOMAIN matches' : matches'[n].payout = found[j] /\ matches'[n].credit = c
  <2>1. k + j \in (k + 1)..(k + Len(found)) /\ (k + j) - k = j /\ k + j \in DOMAIN matches'
    BY <1>3
  <2>2. matches'[k + j].payout = found[j] /\ matches'[k + j].credit = c
    BY <1>4, <2>1
  <2>3. QED
    BY <2>1, <2>2
<1>6. \A n \in DOMAIN matches' : n \in 1..k \/ n \in (k + 1)..(k + Len(found))
  BY <1>3
<1>7. DOMAIN matches' \subseteq Nat
  BY <1>3
<1>8. \A n \in DOMAIN matches : n \in DOMAIN matches' /\ matches'[n] = matches[n]
  BY <1>3
<1>9. ASSUME NEW n \in DOMAIN matches'
      PROVE  \/ n \in DOMAIN matches /\ matches'[n] = matches[n]
             \/ /\ n \notin DOMAIN matches
                /\ n - Len(matches) \in 1..Len(found)
                /\ matches'[n].rule = rule
                /\ matches'[n].credit = c
                /\ matches'[n].payout = found[n - Len(matches)]
  <2>1. CASE n \in 1..k
    BY <1>3, <2>1
  <2>2. CASE n \in (k + 1)..(k + Len(found))
    BY <1>3, <1>4, <2>2
  <2>3. QED
    BY <1>6, <2>1, <2>2
<1> HIDE DEF new, k
<1>10. QED
  BY <1>5, <1>7, <1>8, <1>9

\* A free credit and free payouts, each listed once, can be recorded: several
\* payouts only under the rule that is about several.
LEMMA RecordingKeepsUnique ==
  ASSUME matches \in Seq(Match), MatchInv,
         NEW rule \in Rules, NEW c \in Credit \ claimedCredit,
         NEW found \in Seq(Payout \ claimedPayout),
         \A m, n \in DOMAIN found : m # n => found[m] # found[n],
         Len(found) <= 1 \/ rule = "T1.CONSOLIDATED_SUBSET_SUM",
         RecordMatches(rule, c, found)
  PROVE  MatchInv'
<1> DEFINE k == Len(matches)
<1>1. k \in Nat /\ DOMAIN matches = 1..k /\ found \in Seq(Payout)
  OBVIOUS
<1>2. /\ claimedCredit' = claimedCredit \cup {c}
      /\ claimedPayout' = claimedPayout \cup {found[n] : n \in 1..Len(found)}
  BY DEF RecordMatches
<1>3. /\ DOMAIN matches' \subseteq Nat
      /\ \A n \in DOMAIN matches : n \in DOMAIN matches' /\ matches'[n] = matches[n]
  BY <1>1, RecordedMatches
<1>4. ASSUME NEW n \in DOMAIN matches'
      PROVE  \/ n \in 1..k /\ matches'[n] = matches[n]
             \/ /\ n \notin 1..k
                /\ n - k \in 1..Len(found)
                /\ matches'[n].rule = rule
                /\ matches'[n].credit = c
                /\ matches'[n].payout = found[n - k]
  BY <1>1, RecordedMatches
<1>5. MatchedIsClaimed'
  <2>1. ASSUME NEW n \in DOMAIN matches'
        PROVE  matches'[n].credit \in claimedCredit' /\ matches'[n].payout \in claimedPayout'
    <3>1. CASE n \in 1..k /\ matches'[n] = matches[n]
      BY <1>2, <1>3, <3>1 DEF MatchInv, MatchedIsClaimed
    <3>2. CASE /\ n - k \in 1..Len(found)
               /\ matches'[n].credit = c
               /\ matches'[n].payout = found[n - k]
      BY <1>2, <3>2
    <3>3. QED
      BY <1>4, <3>1, <3>2
  <2>2. QED
    BY <2>1 DEF MatchedIsClaimed
<1>6. ASSUME NEW m \in DOMAIN matches', NEW n \in DOMAIN matches', m # n
      PROVE  /\ matches'[m].payout # matches'[n].payout
             /\ matches'[m].credit = matches'[n].credit =>
                  /\ matches'[m].rule = "T1.CONSOLIDATED_SUBSET_SUM"
                  /\ matches'[n].rule = "T1.CONSOLIDATED_SUBSET_SUM"
  <2>1. CASE m \in 1..k /\ n \in 1..k
    BY <1>3, <1>6, <2>1 DEF MatchInv, NothingMatchedTwice
  <2>2. CASE m \in 1..k /\ n \notin 1..k
    BY <1>3, <1>4, <2>2 DEF MatchInv, MatchedIsClaimed
  <2>3. CASE m \notin 1..k /\ n \in 1..k
    BY <1>3, <1>4, <2>3 DEF MatchInv, MatchedIsClaimed
  <2>4. CASE m \notin 1..k /\ n \notin 1..k
    <3>1. m - k \in 1..Len(found) /\ n - k \in 1..Len(found) /\ m - k # n - k
      BY <1>1, <1>3, <1>4, <1>6, <2>4
    <3>2. found[m - k] # found[n - k] /\ Len(found) > 1
      BY <3>1
    <3>3. QED
      BY <1>4, <2>4, <3>1, <3>2
  <2>5. QED
    BY <2>1, <2>2, <2>3, <2>4
<1>7. QED
  BY <1>5, <1>6 DEF MatchInv, NothingMatchedTwice

\* A rule of tier 1 links a free credit to a free payout or does nothing.
LEMMA LinkKeepsUnique ==
  ASSUME TypeInv, MatchInv, NEW rule \in Rules, NEW fitting \in SUBSET Payout,
         NEW name \in {"utr", "exact", "near"}, Turn(name), Link(rule, at, fitting)
  PROVE  MatchInv'
<1>1. at \in Credit
  BY DEF TypeInv, TypeOK, Turn, Turns, Credit
<1>2. CASE UNCHANGED <<matches, claimedCredit, claimedPayout>>
  BY <1>2 DEF MatchInv, NothingMatchedTwice, MatchedIsClaimed
<1>3. CASE ~UNCHANGED <<matches, claimedCredit, claimedPayout>>
  <2>1. PICK p \in fitting \ claimedPayout : RecordMatches(rule, at, <<p>>)
    BY <1>3 DEF Link
  <2>2. at \in Credit \ claimedCredit
    <3>1. at \notin claimedCredit
      BY <1>3 DEF Link
    <3>2. QED
      BY <1>1, <3>1
  <2> DEFINE found == <<p>>
  <2>3. /\ found \in Seq(Payout \ claimedPayout)
        /\ Len(found) <= 1
        /\ \A m, n \in DOMAIN found : m # n => found[m] # found[n]
        /\ RecordMatches(rule, at, found)
    BY <2>1
  <2>4. matches \in Seq(Match)
    BY DEF TypeInv, TypeOK
  <2> HIDE DEF found
  <2>5. QED
    BY <2>2, <2>3, <2>4, RecordingKeepsUnique
<1>4. QED
  BY <1>2, <1>3

\* Every step keeps it: only the three linking rules and the search match.
LEMMA MatchInvStep ==
  ASSUME TypeInv, MatchInv, [ResolutionNext]_vars
  PROVE  MatchInv'
<1>1. CASE UNCHANGED <<matches, claimedCredit, claimedPayout>>
  BY <1>1 DEF MatchInv, NothingMatchedTwice, MatchedIsClaimed
<1>2. CASE MatchByUtr
  BY <1>2, LinkKeepsUnique DEF MatchByUtr, Rules
<1>3. CASE MatchByExactAmount
  BY <1>3, LinkKeepsUnique DEF MatchByExactAmount, Rules
<1>4. CASE MatchByNearAmount
  BY <1>4, LinkKeepsUnique DEF MatchByNearAmount, Rules
<1>5. CASE Search
  <2>1. CASE Consolidate(at)
    <3> DEFINE c == exceptions[at].subject
    <3>1. PICK combo \in Explanations(c) :
            RecordMatches("T1.CONSOLIDATED_SUBSET_SUM", c, SetToSeq(combo))
      BY <2>1 DEF Consolidate
    <3>2. at \in DOMAIN exceptions
      BY <1>5 DEF Search, TypeInv, TypeOK
    <3>3. c \in Credit \ claimedCredit
      BY <2>1, <3>2 DEF Consolidate, Explicable, TypeInv, CreditExceptions
    <3>4. SetToSeq(combo) \in Seq(Payout \ claimedPayout)
      BY ExplanationsType, ListingOnce
    <3>5. \A m, n \in DOMAIN SetToSeq(combo) :
            m # n => SetToSeq(combo)[m] # SetToSeq(combo)[n]
      BY ExplanationsType, ListingOnce
    <3>6. matches \in Seq(Match) /\ "T1.CONSOLIDATED_SUBSET_SUM" \in Rules
      BY DEF TypeInv, TypeOK, Rules
    <3>7. QED
      BY <3>1, <3>3, <3>4, <3>5, <3>6, RecordingKeepsUnique
  <2>2. CASE LeaveOpen(at)
    BY <1>1, <2>2 DEF LeaveOpen
  <2>3. QED
    BY <1>5, <2>1, <2>2 DEF Search
<1>6. CASE Tier1Step
  BY <1>1, <1>2, <1>3, <1>4, <1>6
  DEF Tier1Step, Tier1Next, CheckResidual, FlagCredit, FlagPayout, EndPass
<1>7. CASE BeginTriage \/ SkipTriage \/ EndTriage \/ UNCHANGED vars
  BY <1>1, <1>7 DEF BeginTriage, SkipTriage, EndTriage, vars, tier1Vars
<1>8. ASSUME NEW i \in queue, NoAnswer(i) \/ ReviseProposal(i) \/ TakeProposal(i)
      PROVE  MatchInv'
  BY <1>1, <1>8
  DEF NoAnswer, ReviseProposal, TakeProposal, AskingChangesNothingElse
<1>9. QED
  BY <1>5, <1>6, <1>7, <1>8 DEF ResolutionNext

\* No payout is in two matches, and no credit except as the sum of several.
THEOREM MatchedOnce == Spec => []NothingMatchedTwice
<1>1. ResolutionInit => MatchInv
  BY DEF ResolutionInit, Init, MatchInv, NothingMatchedTwice, MatchedIsClaimed
<1>2. TypeInv /\ MatchInv /\ [ResolutionNext]_vars => MatchInv'
  BY MatchInvStep
<1>3. MatchInv => NothingMatchedTwice
  BY DEF MatchInv
<1>4. QED
  BY <1>1, <1>2, <1>3, WellFormed, PTL DEF Spec

-----------------------------------------------------------------------------
(***************************************************************************)
(* Nothing is decided twice.  The queue holds open exceptions, and only    *)
(* the one the model was asked about changes.                              *)
(***************************************************************************)
QueueOpen ==
  /\ queue # {} => pass = "triage"
  /\ \A i \in queue : exceptions[i].status = "open"

\* The queue keeps to open exceptions.
LEMMA QueueOpenStep ==
  ASSUME TypeInv, QueueOpen, [ResolutionNext]_vars
  PROVE  QueueOpen'
<1>1. CASE Tier1Step
  BY <1>1 DEF Tier1Step, Tier1Next, MatchByUtr, MatchByExactAmount, MatchByNearAmount,
              CheckResidual, FlagCredit, FlagPayout, EndPass, Turn, Turns, QueueOpen
<1>2. CASE Search
  BY <1>2 DEF Search, QueueOpen
<1>3. CASE BeginTriage
  BY <1>3 DEF BeginTriage, Triageable, QueueOpen
<1>4. CASE SkipTriage
  BY <1>4 DEF SkipTriage, QueueOpen
<1>5. ASSUME NEW i \in queue, NoAnswer(i)
      PROVE  QueueOpen'
  BY <1>5 DEF NoAnswer, NextException, AskingChangesNothingElse, Asking, QueueOpen
<1>6. ASSUME NEW i \in queue, ReviseProposal(i)
      PROVE  QueueOpen'
  BY <1>6 DEF ReviseProposal, AskingChangesNothingElse, Asking, QueueOpen
<1>7. ASSUME NEW i \in queue, TakeProposal(i)
      PROVE  QueueOpen'
  <2>1. PICK e : exceptions' = [exceptions EXCEPT ![i] = e]
    BY <1>7 DEF TakeProposal
  <2>2. \A j \in queue \ {i} : exceptions'[j] = exceptions[j]
    BY <2>1 DEF TypeInv, TypeOK
  <2>3. QED
    BY <1>7, <2>2 DEF TakeProposal, NextException, AskingChangesNothingElse, Asking, QueueOpen
<1>8. CASE EndTriage
  BY <1>8 DEF EndTriage, QueueOpen
<1>9. CASE UNCHANGED vars
  BY <1>9 DEF vars, tier1Vars, QueueOpen
<1>10. QED
  BY <1>1, <1>2, <1>3, <1>4, <1>5, <1>6, <1>7, <1>8, <1>9 DEF ResolutionNext

\* Every step changes only what is open, or closes an absence carried forward.
LEMMA DecidedStaysStep ==
  ASSUME TypeInv, QueueOpen, ResolutionNext
  PROVE  DecidedStays
<1>1. CASE UNCHANGED exceptions
  BY <1>1 DEF DecidedStays
<1>2. ASSUME NEW code, NEW subject, NEW residual, NEW status,
             Report(code, subject, residual, status)
      PROVE  DecidedStays
  BY <1>2 DEF Report, DecidedStays, TypeInv, TypeOK
<1>3. CASE Tier1Step
  BY <1>1, <1>2, <1>3
  DEF Tier1Step, Tier1Next, MatchByUtr, MatchByExactAmount, MatchByNearAmount, Link,
      CheckResidual, FlagCredit, FlagPayout, EndPass
<1>4. CASE Search
  <2>1. CASE Consolidate(at)
    <3>1. PICK combo : CloseExplained(at, combo)
      BY <2>1 DEF Consolidate
    <3>2. exceptions[at].status = "open"
      BY <2>1 DEF Consolidate, Explicable
    <3>3. ASSUME NEW j \in DOMAIN exceptions
          PROVE  \/ exceptions'[j] = exceptions[j]
                 \/ j = at
                 \/ /\ exceptions[j].status \in {"open", "rolled_forward"}
                    /\ exceptions'[j] = Closed(exceptions[j], "auto_resolved", {})
      BY <3>1 DEF CloseExplained
    <3>4. \A e \in Exception : Closed(e, "auto_resolved", {}).status = "auto_resolved"
      BY DEF Closed, Exception
    <3>5. \A j \in DOMAIN exceptions : exceptions[j] \in Exception
      BY DEF TypeInv, TypeOK
    <3>6. QED
      BY <3>2, <3>3, <3>4, <3>5 DEF DecidedStays, Status
  <2>2. QED
    BY <1>1, <1>4, <2>1 DEF Search, LeaveOpen
<1>5. ASSUME NEW i \in queue, TakeProposal(i)
      PROVE  DecidedStays
  <2>1. PICK e : exceptions' = [exceptions EXCEPT ![i] = e]
    BY <1>5 DEF TakeProposal
  <2>2. exceptions[i].status = "open"
    BY DEF QueueOpen
  <2>3. QED
    BY <2>1, <2>2 DEF DecidedStays, Status
<1>6. QED
  BY <1>1, <1>3, <1>4, <1>5
  DEF ResolutionNext, BeginTriage, SkipTriage, NoAnswer, ReviseProposal, EndTriage

\* What has been decided stays, whatever the model answers.
THEOREM DecisionsStand == Spec => DecidedOnce
<1>1. ResolutionInit => QueueOpen
  BY DEF ResolutionInit, QueueOpen
<1>2. TypeInv /\ QueueOpen /\ [ResolutionNext]_vars => QueueOpen'
  BY QueueOpenStep
<1>3. TypeInv /\ QueueOpen /\ [ResolutionNext]_vars => [DecidedStays]_vars
  BY DecidedStaysStep
<1>4. QED
  BY <1>1, <1>2, <1>3, WellFormed, PTL DEF Spec, DecidedOnce

-----------------------------------------------------------------------------
(***************************************************************************)
(* A reconciliation implements PayoutAssignment.                           *)
(***************************************************************************)
Matched(p) == \E n \in DOMAIN matches : matches[n].payout = p

\* Where no payout is listed twice, looking one up finds its own credit.
LEMMA LookedUp ==
  ASSUME NEW ms, \A m, n \in DOMAIN ms : m # n => ms[m].payout # ms[n].payout,
         NEW n \in DOMAIN ms
  PROVE  ms[CHOOSE m \in DOMAIN ms : ms[m].payout = ms[n].payout].credit = ms[n].credit
<1>1. PICK m \in DOMAIN ms : /\ m = (CHOOSE i \in DOMAIN ms : ms[i].payout = ms[n].payout)
                             /\ ms[m].payout = ms[n].payout
  OBVIOUS
<1>2. m = n
  BY <1>1
<1>3. QED
  BY <1>1, <1>2

\* The credit of a matched payout is that of its match; any other has none.
LEMMA CreditOfMatch ==
  ASSUME MatchInv
  PROVE  /\ \A n \in DOMAIN matches : CreditOf(matches[n].payout) = matches[n].credit
         /\ \A p : ~Matched(p) => CreditOf(p) = None
<1>1. \A m, n \in DOMAIN matches : m # n => matches[m].payout # matches[n].payout
  BY DEF MatchInv, NothingMatchedTwice
<1>2. QED
  BY <1>1, LookedUp DEF CreditOf, Matched

\* The same in the next state.
LEMMA CreditOfMatchNext ==
  ASSUME MatchInv'
  PROVE  /\ \A p : \A n \in DOMAIN matches' :
              matches'[n].payout = p => CreditOf(p)' = matches'[n].credit
         /\ \A p : ~Matched(p)' => CreditOf(p)' = None
<1>1. \A m, n \in DOMAIN matches' : m # n => matches'[m].payout # matches'[n].payout
  BY DEF MatchInv, NothingMatchedTwice
<1>2. ASSUME NEW p, NEW n \in DOMAIN matches', matches'[n].payout = p
      PROVE  CreditOf(p)' = matches'[n].credit
  <2>1. matches'[CHOOSE m \in DOMAIN matches' : matches'[m].payout = matches'[n].payout].credit
          = matches'[n].credit
    BY <1>1, LookedUp
  <2>2. QED
    BY <1>2, <2>1 DEF CreditOf
<1>3. ASSUME NEW p, ~Matched(p)'
      PROVE  CreditOf(p)' = None
  BY <1>3 DEF CreditOf, Matched
<1>4. QED
  BY <1>2, <1>3

\* Recording a free credit and free payouts is an assignment.
LEMMA RecordingAssigns ==
  ASSUME matches \in Seq(Match), MatchInv, MatchInv',
         NEW rule \in Rules, NEW c \in Credit \ claimedCredit,
         NEW found \in Seq(Payout \ claimedPayout),
         RecordMatches(rule, c, found)
  PROVE  \E payouts \in SUBSET Payout : Assignment!Assign(c, payouts)
<1> DEFINE payouts == {found[n] : n \in 1..Len(found)}
<1>1. payouts \in SUBSET (Payout \ claimedPayout)
  OBVIOUS
<1>2. \A p \in Payout : CreditOf(p) # c
  <2>1. ASSUME NEW p \in Payout, Matched(p)
        PROVE  CreditOf(p) \in claimedCredit
    BY <2>1, CreditOfMatch DEF Matched, MatchInv, MatchedIsClaimed
  <2>2. ASSUME NEW p \in Payout, ~Matched(p)
        PROVE  CreditOf(p) # c
    BY <2>2, CreditOfMatch DEF Credit
  <2>3. QED
    BY <2>1, <2>2
<1>3. \A p \in payouts : CreditOf(p) = None
  BY <1>1, CreditOfMatch DEF Matched, MatchInv, MatchedIsClaimed
<1>4. \A p \in Payout : CreditOf(p)' = IF p \in payouts THEN c ELSE CreditOf(p)
  <2>1. /\ \A n \in DOMAIN matches : n \in DOMAIN matches' /\ matches'[n] = matches[n]
        /\ \A n \in DOMAIN matches' :
             \/ n \in DOMAIN matches /\ matches'[n] = matches[n]
             \/ matches'[n].payout \in payouts
        /\ \A j \in 1..Len(found) :
             \E n \in DOMAIN matches' : matches'[n].payout = found[j] /\ matches'[n].credit = c
    BY RecordedMatches
  <2>2. ASSUME NEW p \in payouts
        PROVE  CreditOf(p)' = c
    <3>1. PICK n \in DOMAIN matches' : matches'[n].payout = p /\ matches'[n].credit = c
      BY <2>1
    <3>2. QED
      BY <3>1, CreditOfMatchNext
  <2>3. ASSUME NEW p \in Payout \ payouts, Matched(p)
        PROVE  CreditOf(p)' = CreditOf(p)
    <3>1. PICK n \in DOMAIN matches : matches[n].payout = p
      BY <2>3 DEF Matched
    <3>2. CreditOf(p) = matches[n].credit
      BY <3>1, CreditOfMatch
    <3>3. n \in DOMAIN matches' /\ matches'[n] = matches[n]
      BY <2>1
    <3>4. CreditOf(p)' = matches'[n].credit
      BY <3>1, <3>3, CreditOfMatchNext
    <3>5. QED
      BY <3>2, <3>3, <3>4
  <2>4. ASSUME NEW p \in Payout \ payouts, ~Matched(p)
        PROVE  CreditOf(p)' = CreditOf(p)
    <3>1. ~Matched(p)'
      BY <2>1, <2>4 DEF Matched
    <3>2. QED
      BY <2>4, <3>1, CreditOfMatch, CreditOfMatchNext
  <2>5. QED
    BY <2>2, <2>3, <2>4
<1>5. Assignment!Assign(c, payouts)
  BY <1>1, <1>2, <1>3, <1>4 DEF Assignment!Assign
<1>6. QED
  BY <1>1, <1>5

creditOf == [p \in Payout |-> CreditOf(p)]

\* A rule of tier 1 assigns one payout to a credit or none.
LEMMA LinkAssigns ==
  ASSUME TypeInv, MatchInv, MatchInv',
         NEW rule \in Rules, NEW fitting \in SUBSET Payout,
         NEW name \in {"utr", "exact", "near"}, Turn(name), Link(rule, at, fitting)
  PROVE  Assignment!Next \/ UNCHANGED matches
<1>1. CASE ~UNCHANGED matches
  <2>1. PICK p \in fitting \ claimedPayout : RecordMatches(rule, at, <<p>>)
    BY <1>1 DEF Link
  <2>2. at \in Credit \ claimedCredit
    <3>1. at \in Credit
      BY DEF TypeInv, TypeOK, Turn, Turns, Credit
    <3>2. at \notin claimedCredit
      BY <1>1 DEF Link
    <3>3. QED
      BY <3>1, <3>2
  <2> DEFINE found == <<p>>
  <2>3. found \in Seq(Payout \ claimedPayout) /\ RecordMatches(rule, at, found)
    BY <2>1
  <2>4. matches \in Seq(Match)
    BY DEF TypeInv, TypeOK
  <2> HIDE DEF found
  <2>5. \E payouts \in SUBSET Payout : Assignment!Assign(at, payouts)
    BY <2>2, <2>3, <2>4, RecordingAssigns
  <2>6. QED
    BY <2>2, <2>5 DEF Assignment!Next
<1>2. QED
  BY <1>1

\* Every step of a reconciliation assigns payouts to a credit or changes none.
LEMMA AssignmentStep ==
  ASSUME TypeInv, MatchInv, MatchInv', [ResolutionNext]_vars
  PROVE  [Assignment!Next]_creditOf
<1>1. UNCHANGED matches => UNCHANGED creditOf
  BY DEF creditOf, CreditOf
<1>2. CASE MatchByUtr
  BY <1>1, <1>2, LinkAssigns DEF MatchByUtr, Rules
<1>3. CASE MatchByExactAmount
  BY <1>1, <1>3, LinkAssigns DEF MatchByExactAmount, Rules
<1>4. CASE MatchByNearAmount
  BY <1>1, <1>4, LinkAssigns DEF MatchByNearAmount, Rules
<1>5. CASE Search
  <2>1. CASE Consolidate(at)
    <3> DEFINE c == exceptions[at].subject
    <3>1. PICK combo \in Explanations(c) :
            RecordMatches("T1.CONSOLIDATED_SUBSET_SUM", c, SetToSeq(combo))
      BY <2>1 DEF Consolidate
    <3>2. at \in DOMAIN exceptions
      BY <1>5 DEF Search, TypeInv, TypeOK
    <3>3. c \in Credit \ claimedCredit
      BY <2>1, <3>2 DEF Consolidate, Explicable, TypeInv, CreditExceptions
    <3>4. SetToSeq(combo) \in Seq(Payout \ claimedPayout)
      BY ExplanationsType, ListingOnce
    <3>5. matches \in Seq(Match) /\ "T1.CONSOLIDATED_SUBSET_SUM" \in Rules
      BY DEF TypeInv, TypeOK, Rules
    <3>6. \E payouts \in SUBSET Payout : Assignment!Assign(c, payouts)
      BY <3>1, <3>3, <3>4, <3>5, RecordingAssigns
    <3>7. QED
      BY <3>3, <3>6 DEF Assignment!Next
  <2>2. QED
    BY <1>1, <1>5, <2>1 DEF Search, LeaveOpen
<1>6. CASE Tier1Step
  BY <1>1, <1>2, <1>3, <1>4, <1>6
  DEF Tier1Step, Tier1Next, CheckResidual, FlagCredit, FlagPayout, EndPass
<1>7. CASE BeginTriage \/ SkipTriage \/ EndTriage \/ UNCHANGED vars
  BY <1>1, <1>7 DEF BeginTriage, SkipTriage, EndTriage, vars, tier1Vars
<1>8. ASSUME NEW i \in queue, NoAnswer(i) \/ ReviseProposal(i) \/ TakeProposal(i)
      PROVE  UNCHANGED matches
  BY <1>8 DEF NoAnswer, ReviseProposal, TakeProposal, AskingChangesNothingElse
<1>9. QED
  BY <1>1, <1>5, <1>6, <1>7, <1>8 DEF ResolutionNext

\* A payout is credited at most once and for good, and the payouts inside one
\* credit are found together: tier 1 and the search implement PayoutAssignment.
THEOREM Implements == Spec => ImplementsAssignment
<1>1. ResolutionInit => Assignment!Init
  BY DEF ResolutionInit, Init, CreditOf, Assignment!Init
<1>2. ResolutionInit => MatchInv
  BY DEF ResolutionInit, Init, MatchInv, NothingMatchedTwice, MatchedIsClaimed
<1>3. TypeInv /\ MatchInv /\ [ResolutionNext]_vars => MatchInv'
  BY MatchInvStep
<1>4. TypeInv /\ MatchInv /\ MatchInv' /\ [ResolutionNext]_vars => [Assignment!Next]_creditOf
  BY AssignmentStep
<1>5. QED
  BY <1>1, <1>2, <1>3, <1>4, WellFormed, PTL
  DEF Spec, ImplementsAssignment, Assignment!Spec, creditOf
=============================================================================
