------------------------------ MODULE CaseLoop ------------------------------
(***************************************************************************)
(* The loop that unnet closes across runs: a reconciliation loads the      *)
(* cases it already knows, builds this run's cases from its exceptions and *)
(* writes them back (cli._run, casefile.load_previous, build_cases,        *)
(* persist), while a person settles cases from the command line or the     *)
(* dashboard (cli.cmd_resolve, api.resolve_case, casefile.resolve).        *)
(*                                                                         *)
(* What they share is a SQLite file.  A SELECT takes no lock and is not    *)
(* repeated; a session's first flushed INSERT or UPDATE takes the database *)
(* write lock and keeps it until commit or rollback; an UPDATE names only  *)
(* the columns whose value differs from the one the session has read.      *)
(*                                                                         *)
(* A table is a function from case key to the rows of that key, in row-id  *)
(* order: case_key is indexed but not unique.  Left out, because nothing   *)
(* here depends on them: amount, wording and priority, with the history    *)
(* line that says a priority moved with age.                               *)
(***************************************************************************)
EXTENDS Naturals, Sequences

CONSTANTS
  Key,         \* what problems are about: case_key(code, subject kind, id)
  External,    \* the keys whose route names a bank, Razorpay support or risk
  Repeatable,  \* the keys two detectors of one run can both report
  Run,         \* reconciliations; each id is used once
  Desk,        \* one use each of the resolve command or endpoint
  NoOne,       \* no lock holder, and the empty resolved_run
  MaxCases     \* bound: cases one run builds

ASSUME CaseLoopAssumption ==
  /\ External \subseteq Key
  /\ Repeatable \subseteq Key
  /\ Run \cap Desk = {}
  /\ NoOne \notin Run \cup Desk
  /\ MaxCases \in Nat

VARIABLES
  caseFile,    \* committed rows of case_file, by key
  caseEvent,   \* committed rows of case_event, by key
  lock,        \* who holds the database write lock
  draftFile,   \* case_file as the lock holder's open transaction sees it
  draftEvent,  \* case_event, likewise
  pc,          \* where each run and each resolve stands
  previous,    \* what each run's load_previous returned
  reported,    \* the keys each run has met among its exceptions
  cases,       \* cases built by a run and not yet written
  selected     \* the row each resolve has read: its key, place and status

vars == <<caseFile, caseEvent, lock, draftFile, draftEvent, pc, previous,
          reported, cases, selected>>

Actor == Run \cup Desk

Status == {"detected", "investigating", "routed", "awaiting_action", "resolved"}

Row == [status: Status, hypothesis: BOOLEAN, first_seen_run: Run,
        last_seen_run: Actor, resolved_run: Desk \cup {NoOne}]

Case == [key: Key, row: Row]

Event == [kind: {"detected", "proposed", "status_changed", "resolved"},
          actor: {"RULE", "MODEL", "HUMAN"}, run: Actor,
          from: Status \cup {"none"}, to: Status \cup {"none"}]

Selection == [key: Key, status: Status]

NoRows == [k \in Key |-> << >>]

Last(s) == s[Len(s)]

-----------------------------------------------------------------------------
\* Mutant: a case that arrives with the model's explanation is born settled.
InitialStatusTrustsModel(k, hypothesis) ==
  IF hypothesis THEN "resolved"
  ELSE IF k \in External THEN "awaiting_action" ELSE "routed"

\* engine.lifecycle.initial_status
InitialStatus(k, hypothesis) ==
  IF hypothesis THEN "investigating"
  ELSE IF k \in External THEN "awaiting_action" ELSE "routed"

Init ==
  /\ caseFile = NoRows
  /\ caseEvent = NoRows
  /\ lock = NoOne
  /\ draftFile = NoRows
  /\ draftEvent = NoRows
  /\ pc = [a \in Actor |-> "idle"]
  /\ previous = [r \in Run |-> << >>]
  /\ reported = [r \in Run |-> {}]
  /\ cases = [r \in Run |-> << >>]
  /\ selected = [d \in Desk |-> << >>]

\* The run opens its session and reads every case.  The comprehension keeps
\* one row per key, the last one when there are several.
LoadPrevious(r) ==
  /\ pc[r] = "idle"
  /\ previous' = [previous EXCEPT
       ![r] = [k \in {x \in Key : caseFile[x] # << >>} |-> Last(caseFile[k])]]
  /\ pc' = [pc EXCEPT ![r] = "building"]
  /\ UNCHANGED <<caseFile, caseEvent, lock, draftFile, draftEvent, reported,
                 cases, selected>>

\* The loop over the run's exceptions meets one about k.
Meet(r, k) ==
  /\ pc[r] = "building"
  /\ k \in reported[r] => k \in Repeatable
  /\ reported' = [reported EXCEPT ![r] = @ \cup {k}]
  /\ UNCHANGED <<caseFile, caseEvent, lock, draftFile, draftEvent, pc,
                 previous, selected>>

\* An exception the run itself closed or rolled forward opens no case.
SkipClosed(r, k) ==
  /\ Meet(r, k)
  /\ UNCHANGED cases

\* prior.get(key) finds a case.
Knows(r, k) == k \in DOMAIN previous[r]

\* The case built for it joins the run's list.  The trailing sort needs no step:
\* exceptions arrive in every order.
Build(r, k, row) ==
  /\ Meet(r, k)
  /\ Len(cases[r]) < MaxCases
  /\ cases' = [cases EXCEPT ![r] = Append(@, [key |-> k, row |-> row])]

\* A case that was settled when the run started is carried along as it is.
CarrySettled(r, k) ==
  /\ Knows(r, k)
  /\ previous[r][k].status = "resolved"
  /\ Build(r, k, [previous[r][k] EXCEPT !.last_seen_run = r])

\* Mutant: resolved_run is stamped like the other run columns.
FreshStampsResolved(r, status, hypothesis) ==
  [status |-> status, hypothesis |-> hypothesis, first_seen_run |-> r,
   last_seen_run |-> r, resolved_run |-> r]

Fresh(r, status, hypothesis) ==
  [status |-> status, hypothesis |-> hypothesis, first_seen_run |-> r,
   last_seen_run |-> r, resolved_run |-> NoOne]

\* Mutant: the check for a settled case is dropped, every run starts afresh.
RaiseAfresh(r, k, hypothesis) ==
  Build(r, k, Fresh(r, InitialStatus(k, hypothesis), hypothesis))

\* Mutant: the check for a settled case is dropped, the known status is kept.
RaiseSettled(r, k, hypothesis) ==
  Build(r, k, IF Knows(r, k)
              THEN [previous[r][k] EXCEPT !.last_seen_run = r, !.resolved_run = NoOne]
              ELSE Fresh(r, InitialStatus(k, hypothesis), hypothesis))

\* Any other exception raises its case; a known one keeps its first run and,
\* unless it is still "detected", its status.
Raise(r, k, hypothesis) ==
  LET status == IF Knows(r, k) /\ previous[r][k].status # "detected"
                THEN previous[r][k].status ELSE InitialStatus(k, hypothesis)
      first  == IF Knows(r, k) THEN previous[r][k].first_seen_run ELSE r
  IN /\ Knows(r, k) => previous[r][k].status # "resolved"
     /\ Build(r, k, [Fresh(r, status, hypothesis) EXCEPT !.first_seen_run = first])

\* The run's rows are flushed by the first query of persist, which then reads
\* case_file again under the write lock.
Flush(r) ==
  /\ pc[r] = "building"
  /\ lock = NoOne
  /\ lock' = r
  /\ draftFile' = caseFile
  /\ draftEvent' = caseEvent
  /\ pc' = [pc EXCEPT ![r] = "persisting"]
  /\ UNCHANGED <<caseFile, caseEvent, previous, reported, cases, selected>>

Line(kind, actor, run, from, to) ==
  [kind |-> kind, actor |-> actor, run |-> run, from |-> from, to |-> to]

Proposal(r, c) ==
  IF c.row.hypothesis THEN <<Line("proposed", "MODEL", r, "none", "none")>> ELSE << >>

\* Mutant: the proposal is written before the detection it belongs to.
NewsProposalFirst(r, c) ==
  IF Knows(r, c.key) THEN << >>
  ELSE Proposal(r, c) \o <<Line("detected", "RULE", r, "none", c.row.status)>>

\* Mutant: the detection is recorded without the status the case starts with.
NewsWithoutStatus(r, c) ==
  IF Knows(r, c.key) THEN << >>
  ELSE <<Line("detected", "RULE", r, "none", "detected")>> \o Proposal(r, c)

\* The history persist appends for one case.
News(r, c) ==
  IF ~Knows(r, c.key)
  THEN <<Line("detected", "RULE", r, "none", c.row.status)>> \o Proposal(r, c)
  ELSE LET was == previous[r][c.key].status
       IN IF was = c.row.status THEN << >>
          ELSE <<Line("status_changed", "RULE", r, was, c.row.status)>>

\* Mutant: whether a row exists is judged by what load_previous returned.
HasRowAsLoaded(r, k) == Knows(r, k)

\* "existing" is read once before the loop, under the lock: what was committed.
HasRow(r, k) == caseFile[k] # << >>

\* One turn of persist's loop: the last row of a key that was in the table is
\* overwritten, any other case is inserted.
PersistCase(r) ==
  LET c == Head(cases[r])
      k == c.key
  IN /\ pc[r] = "persisting"
     /\ cases[r] # << >>
     /\ draftFile' = [draftFile EXCEPT ![k] =
          IF HasRow(r, k) THEN [@ EXCEPT ![Len(caseFile[k])] = c.row]
                          ELSE Append(@, c.row)]
     /\ draftEvent' = [draftEvent EXCEPT ![k] = @ \o News(r, c)]
     /\ cases' = [cases EXCEPT ![r] = Tail(@)]
     /\ UNCHANGED <<caseFile, caseEvent, lock, pc, previous, reported, selected>>

\* Mutant: the session is neither committed nor closed, the lock stays taken.
EndTransactionLeavesLock ==
  UNCHANGED lock /\ draftFile' = NoRows /\ draftEvent' = NoRows

\* The transaction ends, and with it the lock and its view of the tables.
EndTransaction ==
  /\ lock' = NoOne
  /\ draftFile' = NoRows
  /\ draftEvent' = NoRows

\* The run is over and what it held in memory is gone.
EndRun(r, outcome) ==
  /\ pc' = [pc EXCEPT ![r] = outcome]
  /\ previous' = [previous EXCEPT ![r] = << >>]
  /\ reported' = [reported EXCEPT ![r] = {}]
  /\ cases' = [cases EXCEPT ![r] = << >>]
  /\ UNCHANGED selected

Commit(r) ==
  /\ pc[r] = "persisting"
  /\ cases[r] = << >>
  /\ caseFile' = draftFile
  /\ caseEvent' = draftEvent
  /\ EndTransaction
  /\ EndRun(r, "done")

\* Mutant: session_scope commits in its finally block.
FailRunCommits(r) ==
  /\ pc[r] = "persisting"
  /\ caseFile' = draftFile
  /\ caseEvent' = draftEvent
  /\ EndTransaction
  /\ EndRun(r, "failed")

\* An exception, a crash, or a wait for the lock that times out: session_scope
\* rolls back, or SQLite does when the file is next opened.
FailRun(r) ==
  /\ \/ /\ pc[r] = "persisting"
        /\ EndTransaction
     \/ /\ pc[r] = "building"
        /\ UNCHANGED <<lock, draftFile, draftEvent>>
  /\ EndRun(r, "failed")
  /\ UNCHANGED <<caseFile, caseEvent>>

-----------------------------------------------------------------------------
\* A person names a case: resolve reads the first row of its key.
SelectCase(d, k) ==
  /\ pc[d] = "idle"
  /\ caseFile[k] # << >>
  /\ selected' = [selected EXCEPT
       ![d] = [key |-> k, status |-> caseFile[k][1].status]]
  /\ pc' = [pc EXCEPT ![d] = "settling"]
  /\ UNCHANGED <<caseFile, caseEvent, lock, draftFile, draftEvent, previous,
                 reported, cases>>

\* No case of that key: 404, or the command's exit status 1.
NoSuchCase(d, k) ==
  /\ pc[d] = "idle"
  /\ caseFile[k] = << >>
  /\ pc' = [pc EXCEPT ![d] = "failed"]
  /\ UNCHANGED <<caseFile, caseEvent, lock, draftFile, draftEvent, previous,
                 reported, cases, selected>>

\* Of the row's columns only those that differ from what was read are written:
\* a row read as resolved keeps whatever status it has by now.
Settled(row, was, d) ==
  [row EXCEPT !.status = IF was = "resolved" THEN row.status ELSE "resolved",
              !.resolved_run = d, !.last_seen_run = d]

\* The row is written by primary key.  Flush and commit are one step: nobody
\* else can write between them.
Settle(d) ==
  LET k   == selected[d].key
      was == selected[d].status
  IN /\ pc[d] = "settling"
     /\ lock = NoOne
     /\ caseFile' = [caseFile EXCEPT ![k] =
          [@ EXCEPT ![1] = Settled(caseFile[k][1], was, d)]]
     /\ caseEvent' = [caseEvent EXCEPT ![k] = Append(@,
          Line("resolved", "HUMAN", d, was, "resolved"))]
     /\ pc' = [pc EXCEPT ![d] = "done"]
     /\ UNCHANGED <<lock, draftFile, draftEvent, previous, reported, cases,
                    selected>>

\* The session is closed without a commit.
FailSettle(d) ==
  /\ pc[d] = "settling"
  /\ pc' = [pc EXCEPT ![d] = "failed"]
  /\ UNCHANGED <<caseFile, caseEvent, lock, draftFile, draftEvent, previous,
                 reported, cases, selected>>

-----------------------------------------------------------------------------
BuildCase(r) ==
  \E k \in Key :
    \/ SkipClosed(r, k)
    \/ CarrySettled(r, k)
    \/ \E hypothesis \in BOOLEAN : Raise(r, k, hypothesis)

RunStep(r) ==
  \/ LoadPrevious(r)
  \/ BuildCase(r)
  \/ Flush(r)
  \/ PersistCase(r)
  \/ Commit(r)
  \/ FailRun(r)

DeskStep(d) ==
  \/ \E k \in Key : SelectCase(d, k) \/ NoSuchCase(d, k)
  \/ Settle(d)
  \/ FailSettle(d)

Next ==
  \/ \E r \in Run : RunStep(r)
  \/ \E d \in Desk : DeskStep(d)

\* Runs and resolves overlap freely: nothing in the code excludes it.
Spec == Init /\ [][Next]_vars

\* A step that is under way is carried on; failures need not happen, and
\* nothing has to be started.
Fairness ==
  /\ \A r \in Run : WF_vars(Flush(r)) /\ WF_vars(PersistCase(r)) /\ WF_vars(Commit(r))
  /\ \A d \in Desk : WF_vars(Settle(d))

FairSpec == Spec /\ Fairness

\* The way the Makefile and the tests use it: one command at a time.
Busy(a) == pc[a] \in {"building", "persisting", "settling"}
OneAtATime == \A a, b \in Actor : Busy(a) /\ Busy(b) => a = b

SerialSpec == Init /\ [][Next /\ OneAtATime']_vars

-----------------------------------------------------------------------------
\* Type invariant.  The lock outlives a step only in a run's hands.
TypeOK ==
  /\ caseFile \in [Key -> Seq(Row)]
  /\ caseEvent \in [Key -> Seq(Event)]
  /\ lock \in Run \cup {NoOne}
  /\ draftFile \in [Key -> Seq(Row)]
  /\ draftEvent \in [Key -> Seq(Event)]
  /\ pc \in [Actor -> {"idle", "building", "persisting", "settling", "done", "failed"}]
  /\ DOMAIN previous = Run
  /\ \A r \in Run : /\ DOMAIN previous[r] \subseteq Key
                    /\ \A k \in DOMAIN previous[r] : previous[r][k] \in Row
  /\ reported \in [Run -> SUBSET Key]
  /\ cases \in [Run -> Seq(Case)]
  /\ selected \in [Desk -> Selection \cup {<< >>}]

\* Some line of the history says that a person settled the row by d.
SettledBy(d, history) ==
  \E n \in DOMAIN history : /\ history[n].kind = "resolved"
                            /\ history[n].actor = "HUMAN"
                            /\ history[n].run = d

\* Only people settle cases: whatever rules, model and stale runs do, a row
\* that reads resolved names the very resolve that a person made, and the
\* history of the case holds that person's line.
OnlyPeopleSettle ==
  \A k \in Key : \A i \in DOMAIN caseFile[k] :
    caseFile[k][i].status = "resolved" =>
      SettledBy(caseFile[k][i].resolved_run, caseEvent[k])

\* A case and its history come and go together, and the history opens with the
\* detection: a run that takes a case for known writes no such line, so this
\* says that what it takes for known is in the table.
HistoryOpensWithDetection ==
  \A k \in Key :
    /\ caseFile[k] = << >> <=> caseEvent[k] = << >>
    /\ caseEvent[k] # << >> => caseEvent[k][1].kind = "detected"

\* session_scope commits everything or nothing: no row and no history line
\* names a run or a resolve that has not ended well.
NothingOfUnfinishedWork ==
  \A k \in Key :
    /\ \A i \in DOMAIN caseFile[k] :
         /\ pc[caseFile[k][i].first_seen_run] = "done"
         /\ pc[caseFile[k][i].last_seen_run] = "done"
         /\ caseFile[k][i].resolved_run # NoOne =>
              pc[caseFile[k][i].resolved_run] = "done"
    /\ \A n \in DOMAIN caseEvent[k] : pc[caseEvent[k][n].run] = "done"

\* "case_file holds exactly one row per case" (load_previous), however many
\* runs write at once.
OneRowPerCase == \A k \in Key : Len(caseFile[k]) <= 1

\* "Resolved is terminal: a settled case does not reopen" (can_transition).
SettledStaysSettled ==
  [][\A k \in Key : \A i \in DOMAIN caseFile[k] :
       caseFile[k][i].status = "resolved" => caseFile'[k][i].status = "resolved"]_vars

\* "Anything still open keeps its original first-seen run so ageing is real"
\* (build_cases).
FirstSeenKept ==
  [][\A k \in Key : \A i \in DOMAIN caseFile[k] :
       caseFile'[k][i].first_seen_run = caseFile[k][i].first_seen_run]_vars

\* "A case a human already settled does not come back" (build_cases): once a
\* resolve has reported success, the row the next run will load is settled.
ResolutionInForce ==
  \A d \in Desk :
    pc[d] = "done" => Last(caseFile[selected[d].key]).status = "resolved"

\* "case_event is where history belongs" (resolve): the last line that names a
\* status names the one the row has.
HistoryExplainsStatus ==
  \A k \in Key : \A i \in DOMAIN caseFile[k] :
    \E n \in DOMAIN caseEvent[k] :
      /\ caseEvent[k][n].to = caseFile[k][i].status
      /\ \A m \in DOMAIN caseEvent[k] : m > n => caseEvent[k][m].to = "none"

\* status and resolved_run are two columns for one fact and never disagree.
ResolvedRunMatchesStatus ==
  \A k \in Key : \A i \in DOMAIN caseFile[k] :
    caseFile[k][i].status = "resolved" <=> caseFile[k][i].resolved_run # NoOne

\* Every run that reached its exceptions and every resolve that read its row
\* ends, whoever else holds the lock: waiting for a lock never becomes waiting
\* for ever.
EveryOperationEnds ==
  \A a \in Actor : Busy(a) ~> pc[a] \in {"done", "failed"}

-----------------------------------------------------------------------------
\* What the loop promises when commands do not overlap, see CaseLedger.
Standing(k) ==
  IF caseFile[k] = << >> THEN "absent"
  ELSE IF Last(caseFile[k]).status = "resolved" THEN "settled" ELSE "open"

Ledger == INSTANCE CaseLedger WITH ledger <- [k \in Key |-> Standing(k)]

\* Run by run and resolve by resolve the tables implement the case ledger.
ImplementsLedger == Ledger!Spec
=============================================================================
