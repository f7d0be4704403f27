--------------------------- MODULE Reconciliation ---------------------------
(***************************************************************************)
(* One reconciliation from files to netting (engine/pipeline.py): each     *)
(* source is mapped by its headers or, failing that, by the model behind a *)
(* gate (ingest/mapping.py, agents/mapper.py); the ledger is loaded        *)
(* (ingest/loaders.py); tiers 2 and 3 match; the model is asked about what *)
(* is open; the payouts are netted.                                        *)
(*                                                                         *)
(* A sheet has columns of cells, each a date, money, text or nothing, and  *)
(* a mapping says which column is the date and which the money.  The other *)
(* fields of a row are taken as mapped.  What the calls of triage find out *)
(* is the subject of Resolution; here they only use the client.            *)
(***************************************************************************)
EXTENDS Netting, ModelClient

CONSTANTS
  Sources,      \* the sources, in the order they are read
  Required,     \* REQUIRED_FIELDS and EITHER_FIELDS, by source
  SampleSize,   \* rows validate_spec looks at
  Worker,       \* the client of the run
  Input         \* the files and settings a run may be started with

VARIABLES
  input,        \* the files and the settings, never changed
  specs         \* per source: the mapping in use and who made it

vars == <<input, specs, orders, lines, batches, breakdowns, pass, at, byOrder, byPayment,
          matches, claimedLine, claimedOrder, exceptions, cassettes, client, call>>

tables == <<orders, lines, batches, breakdowns, byOrder, byPayment, matches, claimedLine,
            claimedOrder, exceptions>>

Ledger == "merchant_ledger"

ASSUME ReconciliationAssumption ==
  /\ SampleSize \in Nat
  /\ Worker \in Caller
  /\ Sources \in Seq(Prompt)   \* the prompt about a source is named for it
  /\ 0 \in Money
  /\ \A i \in Input :
       /\ i.ledger \in Seq(Order) /\ i.report \in Seq(SettlementLine)
       /\ i.payouts \in Seq(Batch)
       /\ i.recorded \subseteq Prompt /\ i.open \in Seq(Prompt)

Init ==
  /\ input \in Input
  /\ specs = << >>
  /\ orders = << >> /\ lines = << >> /\ batches = << >> /\ breakdowns = << >>
  /\ pass = "intake" /\ at = 1
  /\ byOrder = [id \in OrderId |-> {}] /\ byPayment = [p \in PaymentId |-> {}]
  /\ matches = << >> /\ exceptions = << >>
  /\ claimedLine = {} /\ claimedOrder = {}
  /\ ClientInit(input.recorded)

-----------------------------------------------------------------------------
Populated(cells) == {i \in 1..SampleSize \cap DOMAIN cells : cells[i] # "blank"}

\* A date column may hold anything, so long as one of its values is a date.
DateParses(cells) ==
  Populated(cells) = {} \/ \E i \in Populated(cells) : cells[i] = "date"

\* A money column may hold other things in at most half of its values.
MoneyParses(cells) ==
  Cardinality({i \in Populated(cells) : cells[i] # "money"}) <= Cardinality(Populated(cells)) \div 2

\* validate_spec: nothing required is missing, and what is mapped parses.
Fit(s, columns) ==
  LET cells == input.sheet[s].cells IN
  /\ Required[s] \subseteq DOMAIN columns
  /\ "date" \in DOMAIN columns => DateParses(cells[columns["date"]])
  /\ "money" \in DOMAIN columns => MoneyParses(cells[columns["money"]])

Heuristic(s) == input.sheet[s].heuristic

\* Columns the model names that the file has not are dropped, field by field.
Cleaned(s, proposal) ==
  [f \in {g \in DOMAIN proposal : proposal[g] \in DOMAIN input.sheet[s].cells} |-> proposal[f]]

\* The mapping of the source whose turn it is, and on to the next source.
Use(columns, by) ==
  /\ specs' = Append(specs, [columns |-> columns, by |-> by])
  /\ at' = at + 1
  /\ UNCHANGED <<input, pass, tables>>

Reading == pass = "intake" /\ at <= Len(Sources)

\* The headers say enough, or there is nobody to ask.
MapByHeaders ==
  /\ Reading
  /\ Fit(Sources[at], Heuristic(Sources[at])) \/ ~input.ai
  /\ Use(Heuristic(Sources[at]), "heuristic")
  /\ UNCHANGED clientVars

AskForMapping ==
  /\ Reading
  /\ ~Fit(Sources[at], Heuristic(Sources[at])) /\ input.ai
  /\ Begin(Worker, Sources[at])
  /\ UNCHANGED <<input, specs, pass, at, tables>>

\* Mutant: a proposal is used as it comes.
TakeMappingUnchecked ==
  /\ Reading
  /\ call[Worker].stage \in {"served", "answered"}
  /\ \E proposal \in input.proposals :
       LET columns == Cleaned(Sources[at], proposal)
       IN IF columns # << >> THEN Use(columns, "model") ELSE Use(Heuristic(Sources[at]), "heuristic")
  /\ Return(Worker)
  /\ UNCHANGED <<cassettes, client>>

\* A proposal that passes the gate replaces the heuristic, which stands otherwise,
\* although it did not pass.
TakeMapping ==
  /\ Reading
  /\ call[Worker].stage \in {"served", "answered"}
  /\ \E proposal \in input.proposals :
       LET columns == Cleaned(Sources[at], proposal)
       IN IF columns # << >> /\ Fit(Sources[at], columns) THEN Use(columns, "model")
          ELSE Use(Heuristic(Sources[at]), "heuristic")
  /\ Return(Worker)
  /\ UNCHANGED <<cassettes, client>>

NoMapping ==
  /\ Reading
  /\ call[Worker].stage = "unavailable"
  /\ Use(Heuristic(Sources[at]), "heuristic")
  /\ Return(Worker)
  /\ UNCHANGED <<cassettes, client>>

\* The mapping in use of a source, once it has been read.
SpecOf(s) == specs[CHOOSE n \in DOMAIN Sources : Sources[n] = s]

Cell(s, field, i) ==
  IF field \in DOMAIN SpecOf(s).columns
  THEN input.sheet[s].cells[SpecOf(s).columns[field]][i] ELSE "blank"

\* Mutant: a row without a date is kept.
AllRows == DOMAIN input.ledger

\* The rows whose date parses; the others are left out.
DatedRows == {i \in DOMAIN input.ledger : Cell(Ledger, "date", i) = "date"}

\* load_merchant_orders, one row: an amount that does not parse is nothing.
LoadedOrder(i) ==
  [input.ledger[i] EXCEPT
     !.captured_at = IF Cell(Ledger, "date", i) = "date" THEN @ ELSE None,
     !.gross = IF Cell(Ledger, "money", i) = "money" THEN @ ELSE 0]

\* The loaders, which keep the order of the rows, and build_indexes.
Load ==
  /\ pass = "intake" /\ at > Len(Sources)
  /\ \E kept \in [1..Cardinality(DatedRows) -> DatedRows] :
       /\ \A m, n \in DOMAIN kept : m < n => kept[m] < kept[n]
       /\ orders' = [n \in DOMAIN kept |-> LoadedOrder(kept[n])]
  /\ lines' = input.report
  /\ batches' = input.payouts
  /\ byOrder' = [id \in OrderId |-> {r \in DOMAIN orders' : orders'[r].order_id = id}]
  /\ byPayment' = [p \in PaymentId |-> {r \in DOMAIN orders' : orders'[r].payment_id = p}]
  /\ pass' = "duplicates" /\ at' = 1
  /\ UNCHANGED <<input, specs, breakdowns, matches, claimedLine, claimedOrder, exceptions,
                 clientVars>>

-----------------------------------------------------------------------------
\* Tiers 2 and 3.
MatchLines == LineNext /\ UNCHANGED <<input, specs, batches, breakdowns, clientVars>>

\* The calls of triage, each on a prompt of its own.
Investigate ==
  /\ pass = "triage" /\ input.ai /\ at <= Len(input.open)
  /\ Begin(Worker, input.open[at])
  /\ UNCHANGED <<input, specs, pass, at, tables>>

Conclude ==
  /\ pass = "triage" /\ call[Worker].stage \in Ended
  /\ Return(Worker)
  /\ at' = at + 1
  /\ UNCHANGED <<input, specs, pass, tables, cassettes, client>>

EndTriage ==
  /\ pass = "triage" /\ (~input.ai \/ at > Len(input.open))
  /\ pass' = "netting" /\ at' = 1
  /\ UNCHANGED <<input, specs, tables, clientVars>>

NetPayouts == (NetBatch \/ EndNetting) /\ UNCHANGED <<input, specs, clientVars>>

Wait == \E status \in Status : Post(Worker, status) /\ UNCHANGED <<input, specs, pass, at, tables>>

Next ==
  \/ MapByHeaders \/ AskForMapping \/ TakeMapping \/ NoMapping \/ Load
  \/ MatchLines
  \/ Investigate \/ Conclude \/ EndTriage
  \/ NetPayouts
  \/ Wait

Spec == Init /\ [][Next]_vars

\* The run is one sequential program and every post ends, if only by its timeout.
FairSpec == Spec /\ WF_vars(Next)

-----------------------------------------------------------------------------
Passes == DOMAIN Turns \cup {"intake", "triage", "netting", "done"}

TypeOK ==
  /\ pass \in Passes /\ at \in Nat
  /\ orders \in Seq(Order) /\ lines \in Seq(SettlementLine) /\ batches \in Seq(Batch)
  /\ byOrder \in [OrderId -> SUBSET Row] /\ byPayment \in [PaymentId -> SUBSET Row]
  /\ matches \in Seq(Match)
  /\ claimedLine \subseteq Line /\ claimedOrder \subseteq OrderId
  /\ ClientTypeOK

\* "Fails here rather than silently producing a zero-rupee ledger": a mapping the
\* model made is used only where the headers did not do, and then a ledger whose
\* date column says anything yields orders, and half of the amounts that stand in
\* its money column are read.
GateHolds ==
  /\ \A n \in DOMAIN specs : specs[n].by = "model" => ~Fit(Sources[n], Heuristic(Sources[n]))
  /\ pass # "intake" /\ SpecOf(Ledger).by = "model" =>
       LET rows  == 1..SampleSize \cap DOMAIN input.ledger
           said  == {i \in rows : Cell(Ledger, "money", i) # "blank"}
           lost  == {i \in said : Cell(Ledger, "money", i) # "money"}
       IN /\ (\E i \in rows : Cell(Ledger, "date", i) # "blank") => orders # << >>
          /\ 2 * Cardinality(lost) <= Cardinality(said)

\* "The run continues": whatever the files hold and whatever every call to the
\* model comes to, the reconciliation reaches its end.
EveryRunEnds == <>(pass = "done")
=============================================================================
