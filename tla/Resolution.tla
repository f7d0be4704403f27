----------------------------- MODULE Resolution -----------------------------
(***************************************************************************)
(* What a reconciliation does with the exceptions tier 1 leaves open       *)
(* (agents/resolvers.py, then agents/triage.py): an exact search explains  *)
(* unmatched credits as sums of payouts, and a model is asked about what   *)
(* is left.  Both go through the verifier.  Tiers 2 and 3 run in between,  *)
(* touch neither bank credits nor payouts and report nothing that the      *)
(* search or the model may close; netting reports its findings later.      *)
(*                                                                         *)
(* The model is external: any list of components, at any attempt.          *)
(***************************************************************************)
EXTENDS Tier1, Verifier, FiniteSetsExt, SequencesExt

CONSTANTS
  SearchWindow,     \* CONSOLIDATION_WINDOW_DAYS
  MaxCandidates,    \* MAX_CANDIDATES
  MaxCombination,   \* MAX_COMBINATION_SIZE
  TriageLimit,      \* limit of TriageAgent.run
  MaxAttempts,      \* MAX_ATTEMPTS
  Component,        \* bound: the components a model comes up with
  MaxComponents     \* bound: how many of them a proposal has

ASSUME ResolutionAssumption ==
  /\ SearchWindow \in Nat /\ MaxCandidates \in Nat /\ MaxCombination \in Nat
  /\ TriageLimit \in Nat /\ MaxAttempts \in Nat \ {0} /\ MaxComponents \in Nat
  /\ Component \subseteq [kind: STRING, ref: Int, amount: Int]

VARIABLES
  queue,     \* the exceptions the model is still to be asked about
  attempt    \* which attempt at the first of them is next

vars == <<tier1Vars, queue, attempt>>

ResolutionInit == Init /\ queue = {} /\ attempt = 1

Tier1Step == Tier1Next /\ UNCHANGED <<queue, attempt>>

-----------------------------------------------------------------------------
\* subset_sum_resolve

\* Free payouts near a credit, the nearest ones when there are too many.
Candidates(c) ==
  LET near == {p \in Payout \ claimedPayout : Gap(c, p) <= SearchWindow}
      Nearer(p, q) == Gap(c, p) < Gap(c, q) \/ (Gap(c, p) = Gap(c, q) /\ p < q)
  IN {p \in near : Cardinality({q \in near : Nearer(q, p)}) < MaxCandidates}

Paid(payouts) == MapThenSumSet(LAMBDA p : books.paid[p], payouts)

\* The combinations that sum exactly to a credit.
Combinations(c) ==
  {combo \in SUBSET Candidates(c) : /\ Cardinality(combo) \in 1..MaxCombination
                                    /\ Paid(combo) = books.credit[c]}

\* The proposal for a combination; the order of its parts decides nothing.
Parts(combo) ==
  SetToSeq({[kind |-> "settlement_batch", ref |-> p, amount |-> books.paid[p]] : p \in combo})

\* Mutant: other combinations are not counted.
RivalsNotCounted(c, combo) == 0

\* _count_rivals: only whether there are any decides.
Rivals(c, combo) == Cardinality(Combinations(c) \ {combo})

\* What the verifier accepts as the explanation of a credit.  The search proposes
\* the first combination it finds; where there are several, each has rivals.
Explanations(c) ==
  {combo \in Combinations(c) :
     Verify(Parts(combo), books.credit[c], books.paid, claimedPayout, Rivals(c, combo))
       = "resolved_verified"}

Closed(e, status, by) == [e EXCEPT !.status = status, !.by = by]

\* Mutant: the payouts found are still reported absent.
CloseExplainedCreditOnly(i, combo) ==
  exceptions' = [exceptions EXCEPT ![i] = Closed(@, "auto_resolved", combo)]

\* The credit is explained, and the payouts in it are no longer missing.
CloseExplained(i, combo) ==
  exceptions' =
    [j \in DOMAIN exceptions |->
       LET e == exceptions[j]
       IN IF j = i THEN Closed(e, "auto_resolved", combo)
          ELSE IF /\ e.code \in AbsenceCodes /\ e.subject \in combo
                  /\ e.status \in {"open", "rolled_forward"}
               THEN Closed(e, "auto_resolved", {}) ELSE e]

Explicable(e) ==
  /\ e.code = "UNMATCHED_BANK_CREDIT" /\ e.status = "open"
  /\ e.subject \notin claimedCredit
  /\ Explanations(e.subject) # {}

Consolidate(i) ==
  LET c == exceptions[i].subject
  IN /\ Explicable(exceptions[i])
     /\ \E combo \in Explanations(c) :
          /\ RecordMatches("T1.CONSOLIDATED_SUBSET_SUM", c, SetToSeq(combo))
          /\ CloseExplained(i, combo)

LeaveOpen(i) ==
  /\ ~Explicable(exceptions[i])
  /\ UNCHANGED <<matches, claimedCredit, claimedPayout, exceptions>>

\* One turn of the search over the exceptions.
Search ==
  /\ pass = "search" /\ at <= Len(exceptions)
  /\ Consolidate(at) \/ LeaveOpen(at)
  /\ at' = at + 1
  /\ UNCHANGED <<books, pass, queue, attempt>>

-----------------------------------------------------------------------------
\* TriageAgent

TriageCodes ==
  {"SHORT_CREDIT", "OVER_CREDIT", "UNMATCHED_BANK_CREDIT", "MISSING_BANK_CREDIT"}

RetryVerdicts ==
  {"rejected_sum_mismatch", "rejected_unknown_component", "rejected_duplicate_component"}

\* Mutant: exceptions closed before are asked about as well.
TriageableWhateverStatus(e) == e.code \in TriageCodes

Triageable(e) == e.code \in TriageCodes /\ e.status = "open"

\* The model is asked about the first exceptions that qualify.
BeginTriage ==
  /\ pass = "search" /\ at > Len(exceptions)
  /\ LET due == {i \in DOMAIN exceptions : Triageable(exceptions[i])}
     IN queue' = {i \in due : Cardinality({j \in due : j < i}) < TriageLimit}
  /\ pass' = "triage" /\ at' = 1
  /\ UNCHANGED <<books, matches, claimedCredit, claimedPayout, exceptions, attempt>>

\* A run without an agent.
SkipTriage ==
  /\ pass = "search" /\ at > Len(exceptions)
  /\ pass' = "done" /\ at' = 1
  /\ UNCHANGED <<books, matches, claimedCredit, claimedPayout, exceptions, queue, attempt>>

\* The model is being asked about the exception at i.
Asking(i) == pass = "triage" /\ i \in queue /\ \A j \in queue : i <= j

NextException(i) == queue' = queue \ {i} /\ attempt' = 1

AskingChangesNothingElse ==
  UNCHANGED <<books, pass, at, matches, claimedCredit, claimedPayout>>

\* Mutant: an attempt that fails starts the exception over.
NoAnswerStartsOver(i) ==
  /\ Asking(i)
  /\ attempt' = 1
  /\ AskingChangesNothingElse /\ UNCHANGED <<exceptions, queue>>

\* No model is available, or it abstains: the exception stays as it is, even
\* when an earlier attempt at it was rejected.
NoAnswer(i) ==
  /\ Asking(i)
  /\ NextException(i)
  /\ AskingChangesNothingElse /\ UNCHANGED exceptions

\* Mutant: one attempt too many.
RetriesOnceMore(verdict) == verdict \in RetryVerdicts /\ attempt <= MaxAttempts

Retries(verdict) == verdict \in RetryVerdicts /\ attempt < MaxAttempts

Standing(verdict) ==
  CASE verdict = "resolved_verified" -> "ai_resolved"
    [] verdict = "hypothesis" -> "ai_hypothesis"
    [] OTHER -> "ai_rejected"

Finding(i, proposal) ==
  Verify(proposal, exceptions[i].residual, books.paid, claimedPayout, 0)

\* An answer that is rejected for a reason the model can act on, and not the last.
ReviseProposal(i) ==
  /\ Asking(i)
  /\ \E proposal \in SeqOf(Component, MaxComponents) : Retries(Finding(i, proposal))
  /\ attempt' = attempt + 1
  /\ AskingChangesNothingElse /\ UNCHANGED <<exceptions, queue>>

\* Any other answer settles where the exception stands.
TakeProposal(i) ==
  /\ Asking(i)
  /\ \E proposal \in SeqOf(Component, MaxComponents) :
       LET verdict == Finding(i, proposal)
           by == IF verdict = "resolved_verified"
                 THEN {proposal[n].ref : n \in DOMAIN proposal} ELSE {}
       IN /\ ~Retries(verdict)
          /\ exceptions' = [exceptions EXCEPT ![i] = Closed(@, Standing(verdict), by)]
  /\ NextException(i)
  /\ AskingChangesNothingElse

EndTriage ==
  /\ pass = "triage" /\ queue = {}
  /\ pass' = "done"
  /\ UNCHANGED <<books, at, matches, claimedCredit, claimedPayout, exceptions, queue, attempt>>

ResolutionNext ==
  \/ Tier1Step
  \/ Search \/ BeginTriage \/ SkipTriage
  \/ \E i \in queue : NoAnswer(i) \/ ReviseProposal(i) \/ TakeProposal(i)
  \/ EndTriage

Spec == ResolutionInit /\ [][ResolutionNext]_vars

\* A reconciliation is one thread: while it can go on it does.
FairSpec == Spec /\ WF_vars(ResolutionNext)

-----------------------------------------------------------------------------
\* Type invariant: the tables of tier 1, and the queue holds places of exceptions.
TypeOK ==
  /\ books \in Books
  /\ pass \in DOMAIN Turns \cup {"search", "triage", "done"}
  /\ at \in Nat \ {0}
  /\ matches \in Seq(Match)
  /\ claimedCredit \subseteq Credit /\ claimedPayout \subseteq Payout
  /\ exceptions \in Seq(Exception)
  /\ queue \subseteq DOMAIN exceptions
  /\ attempt \in 1..MaxAttempts

\* "Two candidates means no match" (docs/DECISIONS.md): the search never links a
\* credit while two sets of free payouts near it, none too large, both sum to it.
NeverGuesses ==
  [][\A c \in claimedCredit' \ claimedCredit : pass = "search" =>
       \A one, other \in SUBSET {p \in Payout \ claimedPayout : Gap(c, p) <= SearchWindow} :
         /\ one # other
         /\ Cardinality(one) <= MaxCombination /\ Cardinality(other) <= MaxCombination
         => Paid(one) # books.credit[c] \/ Paid(other) # books.credit[c]]_vars

Status(i) == exceptions[i].status

\* "The payouts inside it are no longer missing" (subset_sum_resolve): from the
\* end of tier 1 until the model is asked, the absence of a payout is on the list
\* unless a credit was found to hold it, and then it is closed.
AbsenceMatchesClaims ==
  pass = "search" =>
    \A p \in Payout :
      /\ p \notin claimedPayout =>
           \E i \in DOMAIN exceptions : /\ exceptions[i].code \in AbsenceCodes
                                        /\ exceptions[i].subject = p
                                        /\ Status(i) \in {"open", "rolled_forward"}
      /\ p \in claimedPayout =>
           \A i \in DOMAIN exceptions :
             exceptions[i].code \in AbsenceCodes /\ exceptions[i].subject = p
             => Status(i) = "auto_resolved"

\* "Every component traced back to a ledger row" (AI_RESOLVED): what the model
\* closed is explained to the paisa by payouts that no bank credit holds.
ModelClosesOnEvidence ==
  \A i \in DOMAIN exceptions : Status(i) = "ai_resolved" =>
    /\ exceptions[i].by # {}
    /\ exceptions[i].by \subseteq Payout \ claimedPayout
    /\ Paid(exceptions[i].by) = exceptions[i].residual

DecidedStays ==
  \A i \in DOMAIN exceptions :
    \/ exceptions'[i] = exceptions[i]
    \/ Status(i) = "open"
    \/ Status(i) = "rolled_forward" /\ exceptions'[i].status = "auto_resolved"

\* What arithmetic closed, what a run carries forward and what the model has had
\* its last word on is not decided again.
DecidedOnce == [][DecidedStays]_vars

\* A reconciliation ends, whatever the model answers.
EveryRunEnds == <>(pass = "done")

\* "An ambiguous credit must not be auto-closed" (tests/test_ambiguity.py): a
\* credit that two sets of free payouts explain is not closed, by anyone.
AmbiguousStaysOpen ==
  \A i \in DOMAIN exceptions :
    /\ exceptions[i].code = "UNMATCHED_BANK_CREDIT"
    /\ Status(i) = "ai_resolved"
    => ~\E one, other \in Combinations(exceptions[i].subject) : one # other
=============================================================================
