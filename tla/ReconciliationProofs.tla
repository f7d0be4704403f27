------------------------ MODULE ReconciliationProofs ------------------------
(***************************************************************************)
(* What holds of a reconciliation from its files to its netting for every  *)
(* ledger, report and list of payouts, and of its model client for every   *)
(* chain, every number of retries and every threshold.                     *)
(***************************************************************************)
EXTENDS Reconciliation, FiniteSetTheorems, TLAPS

-----------------------------------------------------------------------------
(***************************************************************************)
(* The model client.                                                       *)
(***************************************************************************)
\* A call that is under way is at a post, and the breaker of its client is closed;
\* it is open once the streak of failures is long enough.
Served ==
  \A c \in Caller :
    /\ call[c].stage = "asking" =>
         /\ call[c].prompt # NoPrompt
         /\ call[c].backend # 0 /\ call[c].model # 0 /\ call[c].attempt # 0
         /\ ~client[c].degraded
    /\ client[c].consecutive >= BreakerThreshold => client[c].degraded

ClientInv == ClientTypeOK /\ Served /\ RetriesAreEarned

\* A step of the client keeps the invariant and closes no breaker.
ClientKept ==
  /\ ClientInv'
  /\ \A c \in Caller : client[c].degraded => client'[c].degraded

\* The post that comes next is well-formed.
LEMMA TryKeeps ==
  ASSUME ClientInv, NEW c \in Caller, NEW prompt \in Prompt,
         NEW backend \in 1..Len(Chain), NEW model \in 1..Models,
         NEW attempt \in 1..RetryAttempts, NEW last \in Status \cup {"none"},
         attempt > 1 => last \in {"transient", "timeout"},
         attempt = 1 /\ model > 1 => last = "transient",
         ~client[c].degraded,
         Try(c, prompt, backend, model, attempt, last),
         UNCHANGED <<cassettes, client>>
  PROVE  ClientKept
<1> DEFINE post == [stage |-> "asking", prompt |-> prompt, backend |-> backend,
                    model |-> model, attempt |-> attempt, last |-> last]
<1>1. /\ call' = [call EXCEPT ![c] = post]
      /\ DOMAIN call = Caller
  BY DEF Try, ClientInv, ClientTypeOK
<1>2. post \in [stage: {"idle", "asking"} \cup Ended, prompt: Prompt \cup {NoPrompt},
                backend: 0..Len(Chain), model: 0..Models,
                attempt: 0..RetryAttempts, last: Status \cup {"none"}]
  <2>1. backend \in 0..Len(Chain) /\ model \in 0..Models /\ attempt \in 0..RetryAttempts
    BY ModelClientAssumption
  <2>2. QED
    BY <2>1
<1>3. ClientTypeOK'
  BY <1>1, <1>2 DEF ClientInv, ClientTypeOK
<1>4. ASSUME NEW d \in Caller
      PROVE  call'[d] = IF d = c THEN post ELSE call[d]
  BY <1>1
<1>5. Served'
  <2>1. prompt # NoPrompt /\ backend # 0 /\ model # 0 /\ attempt # 0
    BY ModelClientAssumption
  <2>2. QED
    BY <1>4, <2>1 DEF Served, ClientInv
<1>6. RetriesAreEarned'
  BY <1>4 DEF RetriesAreEarned, ClientInv
<1>7. QED
  BY <1>3, <1>5, <1>6 DEF ClientKept, ClientInv

\* What is left of a call that has ended, and of one whose caller went on.
Rested == {k \in [stage: {"idle", "asking"} \cup Ended, prompt: Prompt \cup {NoPrompt},
                  backend: 0..Len(Chain), model: 0..Models,
                  attempt: 0..RetryAttempts, last: Status \cup {"none"}] : k.stage # "asking"}

\* An idle caller is at rest.
LEMMA IdleRests ==
  Idle \in Rested
<1>1. Len(Chain) \in Nat
  BY ModelClientAssumption
<1>2. 0 \in 0..Len(Chain) /\ 0 \in 0..Models /\ 0 \in 0..RetryAttempts
  BY <1>1, ModelClientAssumption
<1>3. QED
  BY <1>2 DEF Idle, Rested

\* So is one whose call has ended.
LEMMA EndRests ==
  ASSUME NEW prompt \in Prompt \cup {NoPrompt}, NEW stage \in Ended
  PROVE  [Idle EXCEPT !.stage = stage, !.prompt = prompt] \in Rested
<1> DEFINE end == [Idle EXCEPT !.stage = stage, !.prompt = prompt]
<1>1. Len(Chain) \in Nat
  BY ModelClientAssumption
<1>2. 0 \in 0..Len(Chain) /\ 0 \in 0..Models /\ 0 \in 0..RetryAttempts
  BY <1>1, ModelClientAssumption
<1>3. end \in [stage: {"idle", "asking"} \cup Ended, prompt: Prompt \cup {NoPrompt},
               backend: 0..Len(Chain), model: 0..Models,
               attempt: 0..RetryAttempts, last: Status \cup {"none"}]
  BY <1>2 DEF Idle
<1>4. end.stage = stage
  BY DEF Idle
<1>5. QED
  BY <1>3, <1>4 DEF Rested, Ended

\* A call that ends, or a caller that is idle again, asks nobody.
LEMMA EndKeeps ==
  ASSUME ClientTypeOK, Served, RetriesAreEarned, NEW c \in Caller, NEW end \in Rested,
         call' = [call EXCEPT ![c] = end],
         cassettes' \subseteq Prompt,
         client' \in [Caller -> [consecutive: Nat, degraded: BOOLEAN]],
         \A d \in Caller \ {c} : client'[d] = client[d],
         client'[c].consecutive >= BreakerThreshold => client'[c].degraded,
         client[c].degraded => client'[c].degraded
  PROVE  ClientKept
<1>1. DOMAIN call = Caller
  BY DEF ClientTypeOK
<1>2. end \in [stage: {"idle", "asking"} \cup Ended, prompt: Prompt \cup {NoPrompt},
               backend: 0..Len(Chain), model: 0..Models,
               attempt: 0..RetryAttempts, last: Status \cup {"none"}]
  BY DEF Rested
<1>3. end.stage # "asking"
  BY DEF Rested
<1>4. ClientTypeOK'
  BY <1>1, <1>2 DEF ClientTypeOK
<1>5. ASSUME NEW d \in Caller
      PROVE  call'[d] = IF d = c THEN end ELSE call[d]
  BY <1>1
<1>6. Served'
  <2>1. ASSUME NEW d \in Caller, call'[d].stage = "asking"
        PROVE  /\ call'[d].prompt # NoPrompt
               /\ call'[d].backend # 0 /\ call'[d].model # 0 /\ call'[d].attempt # 0
               /\ ~client'[d].degraded
    BY <2>1, <1>3, <1>5 DEF Served
  <2>2. ASSUME NEW d \in Caller, client'[d].consecutive >= BreakerThreshold
        PROVE  client'[d].degraded
    BY <2>2, <1>5 DEF Served
  <2>3. QED
    BY <2>1, <2>2 DEF Served
<1>7. RetriesAreEarned'
  BY <1>5, <1>3 DEF RetriesAreEarned
<1>8. \A d \in Caller : client[d].degraded => client'[d].degraded
  BY <1>5
<1>9. QED
  BY <1>4, <1>6, <1>7, <1>8 DEF ClientKept, ClientInv

\* A call begins: with a recorded answer, with none to be had, or with a first post.
LEMMA BeginKeeps ==
  ASSUME ClientInv, NEW c \in Caller, NEW prompt \in Prompt, Begin(c, prompt)
  PROVE  ClientKept
<1>1. CASE /\ ~client[c].degraded /\ Chain # << >>
           /\ Try(c, prompt, 1, 1, 1, "none")
  <2>1. 1 \in 1..Len(Chain) /\ 1 \in 1..Models /\ 1 \in 1..RetryAttempts
    BY <1>1, ModelClientAssumption
  <2>2. UNCHANGED <<cassettes, client>>
    BY DEF Begin
  <2>3. QED
    BY <1>1, <2>1, <2>2, TryKeeps
<1>2. CASE call' = [call EXCEPT ![c] = [Idle EXCEPT !.prompt = prompt,
                      !.stage = IF prompt \in cassettes THEN "served" ELSE "unavailable"]]
  <2> DEFINE stage == IF prompt \in cassettes THEN "served" ELSE "unavailable"
  <2>1. [Idle EXCEPT !.stage = stage, !.prompt = prompt] \in Rested
    BY EndRests DEF Ended
  <2>2. call' = [call EXCEPT ![c] = [Idle EXCEPT !.stage = stage, !.prompt = prompt]]
    BY <1>2 DEF Idle
  <2>3. UNCHANGED <<cassettes, client>>
    BY DEF Begin
  <2>4. QED
    BY <2>1, <2>2, <2>3, EndKeeps DEF ClientInv, ClientTypeOK, Served
<1>3. QED
  BY <1>1, <1>2 DEF Begin

\* An answer ends the call and the streak of failures.
LEMMA AnswerKeeps ==
  ASSUME ClientInv, NEW c \in Caller, call[c].stage = "asking", BackendAnswers(c)
  PROVE  ClientKept
<1>1. /\ [Idle EXCEPT !.stage = "answered", !.prompt = call[c].prompt] \in Rested
      /\ call' = [call EXCEPT ![c] = [Idle EXCEPT !.stage = "answered", !.prompt = call[c].prompt]]
  BY EndRests DEF ClientInv, ClientTypeOK, BackendAnswers, End, Ended
<1>2. /\ client' \in [Caller -> [consecutive: Nat, degraded: BOOLEAN]]
      /\ \A d \in Caller \ {c} : client'[d] = client[d]
      /\ client'[c].consecutive = 0 /\ client'[c].degraded = client[c].degraded
  BY DEF ClientInv, ClientTypeOK, BackendAnswers
<1>3. ~(0 >= BreakerThreshold)
  BY ModelClientAssumption
<1>4. cassettes' \subseteq Prompt
  BY ModelClientAssumption DEF ClientInv, ClientTypeOK, Served, BackendAnswers
<1>5. QED
  BY <1>1, <1>2, <1>3, <1>4, EndKeeps DEF ClientInv

\* A backend that fails is followed by the next one, or by one failure more.
LEMMA FailureKeeps ==
  ASSUME ClientInv, NEW c \in Caller, call[c].stage = "asking", BackendFails(c)
  PROVE  ClientKept
<1>1. /\ call[c].prompt \in Prompt /\ ~client[c].degraded
      /\ call[c].backend \in 1..Len(Chain)
  BY ModelClientAssumption DEF ClientInv, ClientTypeOK, Served
<1>2. CASE /\ call[c].backend < Len(Chain)
           /\ Try(c, call[c].prompt, call[c].backend + 1, 1, 1, "none")
           /\ UNCHANGED <<cassettes, client>>
  <2>1. call[c].backend + 1 \in 1..Len(Chain) /\ 1 \in 1..Models /\ 1 \in 1..RetryAttempts
    BY <1>1, <1>2, ModelClientAssumption
  <2>2. QED
    BY <1>1, <1>2, <2>1, TryKeeps
<1>3. CASE AllBackendsFailed(c)
  <2> DEFINE streak == client[c].consecutive + 1
             open   == client[c].degraded \/ streak >= BreakerThreshold
  <2>1. /\ [Idle EXCEPT !.stage = "unavailable", !.prompt = call[c].prompt] \in Rested
        /\ call' = [call EXCEPT ![c] =
                      [Idle EXCEPT !.stage = "unavailable", !.prompt = call[c].prompt]]
        /\ cassettes' \subseteq Prompt
    BY <1>3, EndRests DEF ClientInv, ClientTypeOK, AllBackendsFailed, End, Ended
  <2>2. streak \in Nat /\ open \in BOOLEAN
    BY ModelClientAssumption DEF ClientInv, ClientTypeOK
  <2>3. client' = [client EXCEPT ![c] = [consecutive |-> streak, degraded |-> open]]
    BY <1>3 DEF AllBackendsFailed, ClientInv, ClientTypeOK
  <2>4. /\ client' \in [Caller -> [consecutive: Nat, degraded: BOOLEAN]]
        /\ \A d \in Caller \ {c} : client'[d] = client[d]
        /\ client'[c].consecutive = streak /\ client'[c].degraded = open
    BY <2>2, <2>3 DEF ClientInv, ClientTypeOK
  <2>5. QED
    BY <1>1, <2>1, <2>4, EndKeeps DEF ClientInv
<1>4. QED
  BY <1>2, <1>3 DEF BackendFails

\* Every outcome of a post.
LEMMA PostKeeps ==
  ASSUME ClientInv, NEW c \in Caller, NEW status \in Status, Post(c, status)
  PROVE  ClientKept
<1>1. /\ call[c].stage = "asking"
      /\ call[c].prompt \in Prompt /\ ~client[c].degraded
      /\ call[c].backend \in 1..Len(Chain) /\ call[c].model \in 1..Models
      /\ call[c].attempt \in 1..RetryAttempts
  BY ModelClientAssumption DEF ClientInv, ClientTypeOK, Served, Post
<1>2. CASE status = "ok" /\ BackendAnswers(c)
  BY <1>1, <1>2, AnswerKeeps
<1>3. CASE BackendFails(c)
  BY <1>1, <1>3, FailureKeeps
<1>4. CASE /\ status \in Retryable /\ call[c].attempt < RetryAttempts
           /\ Try(c, call[c].prompt, call[c].backend, call[c].model, call[c].attempt + 1, status)
           /\ UNCHANGED <<cassettes, client>>
  <2>1. call[c].attempt + 1 \in 1..RetryAttempts /\ call[c].attempt + 1 # 1
    BY <1>1, <1>4, ModelClientAssumption
  <2>2. status \in {"transient", "timeout"}
    BY <1>4 DEF Retryable
  <2>3. QED
    BY <1>1, <1>4, <2>1, <2>2, TryKeeps
<1>5. CASE /\ status = "transient" /\ call[c].model < Models
           /\ Try(c, call[c].prompt, call[c].backend, call[c].model + 1, 1, status)
           /\ UNCHANGED <<cassettes, client>>
  <2>1. call[c].model + 1 \in 1..Models /\ 1 \in 1..RetryAttempts /\ ~(1 > 1)
    BY <1>1, <1>5, ModelClientAssumption
  <2>2. QED
    BY <1>1, <1>5, <2>1, TryKeeps
<1>6. QED
  BY <1>2, <1>3, <1>4, <1>5 DEF Post, PostGemini, PostOnce

\* The caller goes on.
LEMMA ReturnKeeps ==
  ASSUME ClientInv, NEW c \in Caller, Return(c), UNCHANGED <<cassettes, client>>
  PROVE  ClientKept
BY IdleRests, EndKeeps DEF Return, ClientInv, ClientTypeOK, Served

\* A step without the client.
LEMMA QuietKeeps ==
  ASSUME ClientInv, UNCHANGED clientVars
  PROVE  ClientKept
BY DEF ClientKept, ClientInv, ClientTypeOK, Served, RetriesAreEarned, clientVars

-----------------------------------------------------------------------------
(***************************************************************************)
(* The tables of tiers 2 and 3.                                            *)
(***************************************************************************)
\* Nothing is claimed before the files are loaded.
TablesOK ==
  /\ input \in Input
  /\ pass \in Passes /\ at \in Nat \ {0}
  /\ orders \in Seq(Order) /\ lines \in Seq(SettlementLine) /\ batches \in Seq(Batch)
  /\ byOrder \in [OrderId -> SUBSET Row] /\ byPayment \in [PaymentId -> SUBSET Row]
  /\ matches \in Seq(Match)
  /\ claimedLine \subseteq Line /\ claimedOrder \subseteq OrderId
  /\ pass = "intake" => claimedLine = {}

Late == {"reversals", "splits", "chargebacks", "triage", "netting", "done"}

\* A line that is matched to an order is claimed, and so is the order; reversals
\* are matched in a later pass, in the order of their lines.
Claimed ==
  /\ \A n \in ToOrder : matches[n].line \in claimedLine /\ matches[n].with \in claimedOrder
  /\ \A n \in DOMAIN matches \ ToOrder :
       /\ pass \in Late
       /\ pass = "reversals" => matches[n].line < at

LinkedOnce == NothingClaimedTwice /\ Claimed

Linked == <<matches, claimedLine, claimedOrder>>

\* A step that links nothing only has to keep to the order of the passes.
LEMMA LinkNothingKeeps ==
  ASSUME LinkedOnce, UNCHANGED Linked,
         pass \in Late => pass' \in Late,
         pass \in Late /\ pass' = "reversals" => pass = "reversals" /\ at' = at + 1,
         TablesOK
  PROVE  LinkedOnce'
<1>1. NothingClaimedTwice'
  BY DEF LinkedOnce, NothingClaimedTwice, ToOrder, Linked
<1>2. \A n \in DOMAIN matches : matches[n].line \in Nat
  <2>1. \A m \in Match : m.line \in Nat
    BY DEF Match
  <2>2. QED
    BY <2>1 DEF TablesOK
<1>3. ToOrder' = ToOrder /\ ToOrder \subseteq DOMAIN matches
  BY DEF ToOrder, Linked
<1>4. \A n \in DOMAIN matches' \ ToOrder' :
        /\ pass' \in Late
        /\ pass' = "reversals" => matches'[n].line < at'
  <2>1. ASSUME NEW n \in DOMAIN matches \ ToOrder
        PROVE  /\ pass' \in Late
               /\ pass' = "reversals" => matches[n].line < at'
    <3>1. pass \in Late /\ (pass = "reversals" => matches[n].line < at)
      BY DEF LinkedOnce, Claimed
    <3>2. pass' \in Late
      BY <3>1
    <3>3. pass' = "reversals" => matches[n].line < at /\ at' = at + 1
      BY <3>1
    <3>4. at \in Nat /\ matches[n].line \in Nat
      BY <1>2 DEF TablesOK
    <3>5. QED
      BY <3>2, <3>3, <3>4
  <2>2. QED
    BY <2>1, <1>3 DEF Linked
<1>5. \A n \in ToOrder' : matches'[n].line \in claimedLine' /\ matches'[n].with \in claimedOrder'
  BY <1>3 DEF LinkedOnce, Claimed, Linked
<1>6. QED
  BY <1>1, <1>4, <1>5 DEF LinkedOnce, Claimed

\* A match more, behind the others.
LEMMA OneMoreMatch ==
  ASSUME matches \in Seq(Match), NEW m \in Match, matches' = Append(matches, m)
  PROVE  /\ matches' \in Seq(Match)
         /\ \A n \in DOMAIN matches' :
              \/ n \in DOMAIN matches /\ matches'[n] = matches[n]
              \/ n \notin DOMAIN matches /\ n = Len(matches) + 1 /\ matches'[n] = m
OBVIOUS

OrderRules == {"T2.PAYMENT_ID_EXACT", "T2.ORDER_ID_EXACT", "T2.AMOUNT_METHOD_TIME"}
ReversalRules == {"T3.PAYMENT_ID_EXACT", "T3.ORDER_ID_EXACT"}

\* A free line is matched to a free order.
LEMMA OrderMatchKeeps ==
  ASSUME TablesOK, LinkedOnce, NEW rule \in OrderRules,
         NEW l \in Line \ claimedLine, NEW id \in OrderId \ claimedOrder,
         RecordMatch(rule, l, id), UNCHANGED <<lines, pass>>, pass \notin Late
  PROVE  /\ LinkedOnce'
         /\ matches' \in Seq(Match) /\ claimedLine' \subseteq Line' /\ claimedOrder' \subseteq OrderId
<1> DEFINE m == [rule |-> rule, line |-> l, with |-> id]
<1>1. l \in Nat /\ m \in Match
  BY DEF Line, TablesOK, Match, OrderRules
<1>2. id \notin Line
  BY LineAssumption DEF Line, TablesOK
<1>3. /\ matches' = Append(matches, m)
      /\ claimedLine' = claimedLine \cup {l} /\ claimedOrder' = claimedOrder \cup {id}
  BY <1>2 DEF RecordMatch
<1>4. /\ matches' \in Seq(Match)
      /\ \A n \in DOMAIN matches' :
           \/ n \in DOMAIN matches /\ matches'[n] = matches[n]
           \/ n \notin DOMAIN matches /\ n = Len(matches) + 1 /\ matches'[n] = m
  BY <1>1, <1>3, OneMoreMatch DEF TablesOK
<1>5. DOMAIN matches = ToOrder
  <2>1. DOMAIN matches \ ToOrder = {}
    BY DEF LinkedOnce, Claimed
  <2>2. QED
    BY <2>1 DEF ToOrder
<1>6. DOMAIN matches' = ToOrder'
  <2>1. \A n \in DOMAIN matches : matches[n].with \in OrderId
    BY <1>5 DEF ToOrder
  <2>2. \A n \in DOMAIN matches' : matches'[n].with \in OrderId
    <3>1. m.with \in OrderId
      OBVIOUS
    <3>2. QED
      BY <2>1, <3>1, <1>4
  <2>3. QED
    BY <2>2 DEF ToOrder
<1>7. NothingClaimedTwice'
  <2>1. ASSUME NEW a \in ToOrder', NEW b \in ToOrder', a # b
        PROVE  matches'[a].line # matches'[b].line /\ matches'[a].with # matches'[b].with
    BY <2>1, <1>4, <1>5, <1>6 DEF LinkedOnce, NothingClaimedTwice, Claimed
  <2>2. QED
    BY <2>1, <1>6 DEF NothingClaimedTwice
<1>8. Claimed'
  BY <1>3, <1>4, <1>5, <1>6 DEF LinkedOnce, Claimed
<1>9. QED
  BY <1>3, <1>4, <1>7, <1>8 DEF LinkedOnce, TablesOK, Line

\* A reversal is matched to a payment, in its turn.
LEMMA ReversalMatchKeeps ==
  ASSUME TablesOK, LinkedOnce, NEW rule \in ReversalRules, NEW with \in Line,
         at \in Line, RecordMatch(rule, at, with), UNCHANGED <<lines, pass>>,
         pass = "reversals", at' = at + 1
  PROVE  /\ LinkedOnce'
         /\ matches' \in Seq(Match) /\ claimedLine' \subseteq Line' /\ claimedOrder' \subseteq OrderId
<1> DEFINE m == [rule |-> rule, line |-> at, with |-> with]
<1>1. with \in Nat /\ m \in Match
  BY DEF Line, TablesOK, Match, ReversalRules
<1>2. with \notin OrderId
  BY <1>1, LineAssumption
<1>3. /\ matches' = Append(matches, m)
      /\ claimedLine' = claimedLine \cup {at, with} /\ claimedOrder' = claimedOrder
  BY <1>2 DEF RecordMatch
<1>4. /\ matches' \in Seq(Match)
      /\ \A n \in DOMAIN matches' :
           \/ n \in DOMAIN matches /\ matches'[n] = matches[n]
           \/ n \notin DOMAIN matches /\ n = Len(matches) + 1 /\ matches'[n] = m
  BY <1>1, <1>3, OneMoreMatch DEF TablesOK
<1>5. \A n \in ToOrder' : n \in ToOrder /\ matches'[n] = matches[n]
  BY <1>2, <1>4 DEF ToOrder
<1>6. \A n \in DOMAIN matches' \ ToOrder' :
        \/ n \in DOMAIN matches \ ToOrder /\ matches'[n] = matches[n] /\ matches[n].line < at
        \/ n = Len(matches) + 1 /\ matches'[n] = m
  <2>1. ASSUME NEW n \in DOMAIN matches' \ ToOrder', n \in DOMAIN matches, matches'[n] = matches[n]
        PROVE  n \in DOMAIN matches \ ToOrder
    BY <2>1 DEF ToOrder
  <2>2. \A n \in DOMAIN matches \ ToOrder : matches[n].line < at
    BY DEF LinkedOnce, Claimed
  <2>3. QED
    BY <1>4, <2>1, <2>2
<1>7. \A n \in DOMAIN matches : matches[n].line \in Nat
  <2>1. \A x \in Match : x.line \in Nat
    BY DEF Match
  <2>2. QED
    BY <2>1 DEF TablesOK
<1>8. NothingClaimedTwice'
  <2>1. ASSUME NEW a \in ToOrder', NEW b \in ToOrder', a # b
        PROVE  matches'[a].line # matches'[b].line /\ matches'[a].with # matches'[b].with
    BY <2>1, <1>5 DEF LinkedOnce, NothingClaimedTwice
  <2>2. ASSUME NEW a \in (DOMAIN matches \ ToOrder)', NEW b \in (DOMAIN matches \ ToOrder)', a # b
        PROVE  matches'[a].line # matches'[b].line
    BY <2>2, <1>6, <1>7 DEF LinkedOnce, NothingClaimedTwice, TablesOK
  <2>3. QED
    BY <2>1, <2>2 DEF NothingClaimedTwice
<1>9. Claimed'
  <2>1. \A n \in ToOrder' : matches'[n].line \in claimedLine' /\ matches'[n].with \in claimedOrder'
    BY <1>3, <1>5 DEF LinkedOnce, Claimed
  <2>2. ASSUME NEW n \in (DOMAIN matches \ ToOrder)'
        PROVE  pass' \in Late /\ matches'[n].line < at'
    BY <1>6, <1>7 DEF Late, TablesOK
  <2>3. QED
    BY <2>1, <2>2 DEF Claimed
<1>10. QED
  BY <1>3, <1>4, <1>8, <1>9 DEF LinkedOnce, TablesOK, Line

-----------------------------------------------------------------------------
\* What every step keeps about the tables.
TablesKept == TablesOK' /\ LinkedOnce'

Steady == UNCHANGED <<input, batches>>

\* A turn of a loop is at a row of the ledger or at a line of the report.
LEMMA TurnIsSomewhere ==
  ASSUME TablesOK, NEW name \in DOMAIN Turns, Turn(name)
  PROVE  /\ pass = name /\ pass' = name /\ at' = at + 1 /\ at' \in Nat \ {0}
         /\ name \in {"duplicates", "unsettled"} => at \in Row
         /\ name \notin {"duplicates", "unsettled"} => at \in Line
<1>1. at \in Nat \ {0} /\ Len(orders) \in Nat /\ Len(lines) \in Nat
  BY DEF TablesOK
<1>2. Row = 1..Len(orders) /\ Line = 1..Len(lines)
  BY DEF Row, Line, TablesOK
<1>3. /\ name \in {"duplicates", "unsettled"} => Turns[name] = Len(orders)
      /\ name \notin {"duplicates", "unsettled"} => Turns[name] = Len(lines)
  BY DEF Turns
<1>4. at <= Turns[name] /\ at' = at + 1 /\ pass = name /\ pass' = name
  BY DEF Turn
<1>5. QED
  BY <1>1, <1>2, <1>3, <1>4

\* The tables keep their types where files and pass stay.
LEMMA SamePassKeeps ==
  ASSUME TablesOK, Steady, UNCHANGED <<orders, lines, pass>>, pass # "intake",
         at' \in Nat \ {0},
         byOrder' \in [OrderId -> SUBSET Row], byPayment' \in [PaymentId -> SUBSET Row],
         matches' \in Seq(Match), claimedLine' \subseteq Line, claimedOrder' \subseteq OrderId
  PROVE  TablesOK'
<1>1. Passes' = Passes /\ Row' = Row /\ Line' = Line
  BY DEF Passes, Turns, Row, Line
<1>2. /\ pass' \in Passes /\ pass' # "intake"
      /\ input' \in Input /\ batches' \in Seq(Batch)
      /\ orders' \in Seq(Order) /\ lines' \in Seq(SettlementLine)
  BY DEF TablesOK, Steady
<1>3. QED
  BY <1>1, <1>2 DEF TablesOK

\* A turn that links nothing.
LEMMA IdleTurnKeeps ==
  ASSUME TablesOK, LinkedOnce, Steady, NEW name \in DOMAIN Turns, Turn(name), LinkNothing,
         byOrder' \in [OrderId -> SUBSET Row], byPayment' \in [PaymentId -> SUBSET Row]
  PROVE  TablesKept
<1>1. pass = name /\ pass' = name /\ at' = at + 1 /\ at' \in Nat \ {0}
  BY TurnIsSomewhere
<1>2. UNCHANGED <<orders, lines, matches, claimedLine, claimedOrder>>
  BY DEF Turn, LinkNothing
<1>3. TablesOK'
  BY <1>1, <1>2, SamePassKeeps DEF TablesOK, Turns
<1>4. LinkedOnce'
  BY <1>1, <1>2, LinkNothingKeeps DEF Linked
<1>5. QED
  BY <1>3, <1>4 DEF TablesKept

\* Copies of an order are taken out of the indexes.
LEMMA DuplicateKeeps ==
  ASSUME TablesOK, LinkedOnce, Steady, FlagDuplicate
  PROVE  TablesKept
<1>1. Turn("duplicates") /\ LinkNothing /\ "duplicates" \in DOMAIN Turns
  BY DEF FlagDuplicate, Turns
<1>2. at \in Row
  BY <1>1, TurnIsSomewhere
<1>3. byOrder' \in [OrderId -> SUBSET Row] /\ byPayment' \in [PaymentId -> SUBSET Row]
  <2>1. CASE /\ byOrder' = [byOrder EXCEPT ![orders[at].order_id] = {at}]
             /\ byPayment' = [p \in PaymentId |->
                   IF p = orders[at].payment_id /\ ~Only(byPayment[p]) THEN {at} ELSE byPayment[p]]
    BY <2>1, <1>2 DEF TablesOK
  <2>2. CASE UNCHANGED <<byOrder, byPayment>>
    BY <2>2 DEF TablesOK
  <2>3. QED
    BY <2>1, <2>2 DEF FlagDuplicate
<1>4. QED
  BY <1>1, <1>3, IdleTurnKeeps

\* The rules of tier 2.
LEMMA LinkOrderKeeps ==
  ASSUME TablesOK, LinkedOnce, Steady, NEW rule \in OrderRules,
         NEW name \in {"payment_ids", "order_ids", "amounts"}, Turn(name),
         NEW fitting \in SUBSET Row, LinkOrder(rule, at, fitting)
  PROVE  TablesKept
<1>1. name \in DOMAIN Turns /\ name \notin Late
  BY DEF Turns, Late
<1>2. /\ pass = name /\ pass' = name /\ at' = at + 1 /\ at' \in Nat \ {0}
      /\ at \in Line
  BY <1>1, TurnIsSomewhere
<1>3. UNCHANGED <<orders, lines, byOrder, byPayment>>
  BY DEF Turn, LinkOrder
<1>4. CASE LinkNothing
  BY <1>1, <1>3, <1>4, IdleTurnKeeps DEF TablesOK
<1>5. CASE \E r \in {x \in fitting : orders[x].order_id \notin claimedOrder} :
             at \notin claimedLine /\ RecordMatch(rule, at, orders[r].order_id)
  <2>1. PICK r \in Row : /\ orders[r].order_id \notin claimedOrder
                         /\ at \notin claimedLine /\ RecordMatch(rule, at, orders[r].order_id)
    BY <1>5
  <2>2. orders[r] \in Order
    BY <2>1 DEF TablesOK, Row
  <2>3. orders[r].order_id \in OrderId \ claimedOrder
    BY <2>1, <2>2 DEF Order
  <2>4. /\ LinkedOnce'
        /\ matches' \in Seq(Match) /\ claimedLine' \subseteq Line' /\ claimedOrder' \subseteq OrderId
    BY <1>1, <1>2, <1>3, <2>1, <2>3, OrderMatchKeeps
  <2>5. TablesOK'
    BY <1>1, <1>2, <1>3, <2>4, SamePassKeeps DEF TablesOK, Turns, Line
  <2>6. QED
    BY <2>4, <2>5 DEF TablesKept
<1>6. QED
  BY <1>4, <1>5 DEF LinkOrder

\* Tier 3 links a reversal to a payment.
LEMMA ReversalKeeps ==
  ASSUME TablesOK, LinkedOnce, Steady, MatchReversal
  PROVE  TablesKept
<1>1. /\ Turn("reversals") /\ "reversals" \in DOMAIN Turns
      /\ UNCHANGED <<orders, lines, byOrder, byPayment>>
  BY DEF MatchReversal, Turns, Turn
<1>2. /\ pass = "reversals" /\ pass' = "reversals" /\ at' = at + 1 /\ at' \in Nat \ {0}
      /\ at \in Line
  BY <1>1, TurnIsSomewhere
<1>3. CASE LinkNothing
  BY <1>1, <1>3, IdleTurnKeeps DEF TablesOK
<1>4. CASE \E p \in Originals(at) :
             RecordMatch(IF Only(NamedPayment(at)) THEN "T3.PAYMENT_ID_EXACT"
                         ELSE "T3.ORDER_ID_EXACT", at, p)
  <2>1. Originals(at) \subseteq Line
    BY DEF Originals, NamedPayment, NamedOrder, PaymentsOf
  <2>2. PICK p \in Line, rule \in ReversalRules : RecordMatch(rule, at, p)
    BY <1>4, <2>1 DEF ReversalRules
  <2>3. /\ LinkedOnce'
        /\ matches' \in Seq(Match) /\ claimedLine' \subseteq Line' /\ claimedOrder' \subseteq OrderId
    BY <1>1, <1>2, <2>2, ReversalMatchKeeps
  <2>4. TablesOK'
    BY <1>1, <1>2, <2>3, SamePassKeeps DEF TablesOK, Line
  <2>5. QED
    BY <2>3, <2>4 DEF TablesKept
<1>5. QED
  BY <1>3, <1>4 DEF MatchReversal

\* A step that moves on in another way, and leaves tables and matches alone.
LEMMA MoveOnKeeps ==
  ASSUME TablesOK, LinkedOnce, Steady,
         UNCHANGED <<orders, lines, byOrder, byPayment, matches, claimedLine, claimedOrder>>,
         pass' \in Passes, pass' = "intake" => pass = "intake", at' \in Nat \ {0},
         pass \in Late => pass' \in Late,
         pass \in Late /\ pass' = "reversals" => pass = "reversals" /\ at' = at + 1
  PROVE  TablesKept
<1>1. Passes' = Passes /\ Row' = Row /\ Line' = Line
  BY DEF Passes, Turns, Row, Line
<1>2. TablesOK'
  BY <1>1 DEF TablesOK, Steady
<1>3. LinkedOnce'
  BY LinkNothingKeeps DEF Linked
<1>4. QED
  BY <1>2, <1>3 DEF TablesKept

\* The next pass begins at its first row.
LEMMA EndPassKeeps ==
  ASSUME TablesOK, LinkedOnce, Steady, EndPass
  PROVE  TablesKept
<1>1. /\ pass' \in Passes \ {"intake", "reversals"} \/ (pass = "unsettled" /\ pass' = "reversals")
      /\ pass \in Late => pass' \in Late
      /\ pass' \in Passes
  BY DEF EndPass, Turns, Following, Passes, Late
<1>2. at' = 1 /\ pass' # "intake" /\ (pass \in Late => pass' # "reversals")
  BY <1>1 DEF EndPass, Late
<1>3. UNCHANGED <<orders, lines, byOrder, byPayment, matches, claimedLine, claimedOrder>>
  BY DEF EndPass
<1>4. QED
  BY <1>1, <1>2, <1>3, MoveOnKeeps

\* Every step of tiers 2 and 3.
LEMMA LineStep ==
  ASSUME TablesOK, LinkedOnce, MatchLines
  PROVE  TablesKept
<1> Steady
  BY DEF MatchLines, Steady
<1>1. CASE FlagDuplicate
  BY <1>1, DuplicateKeeps
<1>2. CASE MatchByPaymentId
  <2> DEFINE fitting == IF lines[at].payment_id = None THEN {} ELSE byPayment[lines[at].payment_id]
  <2>1. Turn("payment_ids") /\ LinkOrder("T2.PAYMENT_ID_EXACT", at, fitting)
    BY <1>2 DEF MatchByPaymentId
  <2>2. at \in Line
    BY <2>1, TurnIsSomewhere DEF Turns
  <2>3. lines[at].payment_id \in PaymentId \cup {None}
    <3>1. lines[at] \in SettlementLine
      BY <2>2 DEF TablesOK, Line
    <3>2. QED
      BY <3>1 DEF SettlementLine
  <2>4. fitting \in SUBSET Row
    BY <2>3 DEF TablesOK
  <2>5. QED
    BY <2>1, <2>4, LinkOrderKeeps DEF OrderRules
<1>3. CASE MatchByOrderId
  <2> DEFINE fitting == IF lines[at].order_id = None THEN {} ELSE byOrder[lines[at].order_id]
  <2>1. Turn("order_ids") /\ LinkOrder("T2.ORDER_ID_EXACT", at, fitting)
    BY <1>3 DEF MatchByOrderId
  <2>2. at \in Line
    BY <2>1, TurnIsSomewhere DEF Turns
  <2>3. lines[at].order_id \in OrderId \cup {None}
    <3>1. lines[at] \in SettlementLine
      BY <2>2 DEF TablesOK, Line
    <3>2. QED
      BY <3>1 DEF SettlementLine
  <2>4. fitting \in SUBSET Row
    BY <2>3 DEF TablesOK
  <2>5. QED
    BY <2>1, <2>4, LinkOrderKeeps DEF OrderRules
<1>4. CASE MatchByAmountAndTime
  <2> DEFINE fitting == {r \in Row : /\ orders[r].gross = lines[at].amount
                                     /\ orders[r].method = lines[at].method
                                     /\ Gap(r, at) <= CaptureWindow}
  <2>1. Turn("amounts") /\ LinkOrder("T2.AMOUNT_METHOD_TIME", at, fitting)
    BY <1>4 DEF MatchByAmountAndTime
  <2>2. fitting \in SUBSET Row
    OBVIOUS
  <2>3. QED
    BY <2>1, <2>2, LinkOrderKeeps DEF OrderRules
<1>5. CASE MatchReversal
  BY <1>5, ReversalKeeps
<1>6. ASSUME NEW name \in DOMAIN Turns, Turn(name), LinkNothing, UNCHANGED <<byOrder, byPayment>>
      PROVE  TablesKept
  BY <1>6, IdleTurnKeeps DEF TablesOK
<1>7. CASE FlagOrphan
  BY <1>6, <1>7 DEF FlagOrphan, Turns
<1>8. CASE FlagUnsettled
  BY <1>6, <1>8 DEF FlagUnsettled, Turns
<1>9. CASE FlagSplitRefund
  BY <1>6, <1>9 DEF FlagSplitRefund, Turns
<1>10. CASE FlagChargeback
  BY <1>6, <1>10 DEF FlagChargeback, Turns
<1>11. CASE EndPass
  BY <1>11, EndPassKeeps
<1>12. QED
  BY <1>1, <1>2, <1>3, <1>4, <1>5, <1>7, <1>8, <1>9, <1>10, <1>11 DEF MatchLines, LineNext

\* What is loaded is a ledger.
LEMMA LoadedType ==
  ASSUME TablesOK
  PROVE  /\ Cardinality(DatedRows) \in Nat
         /\ \A i \in DatedRows : LoadedOrder(i) \in Order
<1>1. input.ledger \in Seq(Order)
  BY ReconciliationAssumption DEF TablesOK
<1>2. IsFiniteSet(DatedRows)
  <2>1. IsFiniteSet(1..Len(input.ledger)) /\ DatedRows \subseteq 1..Len(input.ledger)
    BY <1>1, FS_Interval DEF DatedRows
  <2>2. QED
    BY <2>1, FS_Subset
<1>3. ASSUME NEW i \in DatedRows
      PROVE  LoadedOrder(i) \in Order
  <2>1. input.ledger[i] \in Order /\ Cell(Ledger, "date", i) = "date"
    BY <1>1 DEF DatedRows
  <2>2. QED
    BY <2>1, ReconciliationAssumption DEF LoadedOrder, Order
<1>4. QED
  BY <1>2, <1>3, FS_CardinalityType

\* The tables as they are loaded.
LEMMA LoadKeeps ==
  ASSUME TablesOK, LinkedOnce, Load
  PROVE  TablesKept
<1>1. PICK kept \in [1..Cardinality(DatedRows) -> DatedRows] :
        orders' = [n \in DOMAIN kept |-> LoadedOrder(kept[n])]
  BY DEF Load
<1>2. orders' \in Seq(Order)
  BY <1>1, LoadedType
<1>3. /\ lines' = input.report /\ batches' = input.payouts
      /\ lines' \in Seq(SettlementLine) /\ batches' \in Seq(Batch)
  BY ReconciliationAssumption DEF Load, TablesOK
<1>4. /\ byOrder' = [id \in OrderId |-> {r \in DOMAIN orders' : orders'[r].order_id = id}]
      /\ byPayment' = [p \in PaymentId |-> {r \in DOMAIN orders' : orders'[r].payment_id = p}]
  BY DEF Load
<1>5. byOrder' \in [OrderId -> SUBSET Row'] /\ byPayment' \in [PaymentId -> SUBSET Row']
  BY <1>4 DEF Row
<1>6. /\ pass = "intake" /\ pass' = "duplicates" /\ at' = 1 /\ input' = input
      /\ UNCHANGED Linked
  BY DEF Load, Linked
<1>7. pass' \in Passes' /\ pass' # "intake" /\ pass \notin Late
  BY <1>6 DEF Passes, Turns, Late
<1>8. TablesOK'
  BY <1>2, <1>3, <1>5, <1>6, <1>7 DEF TablesOK, Linked
<1>9. LinkedOnce'
  BY <1>6, <1>7, LinkNothingKeeps
<1>10. QED
  BY <1>8, <1>9 DEF TablesKept

-----------------------------------------------------------------------------
(***************************************************************************)
(* The reconciliation.                                                     *)
(***************************************************************************)
RunInv == TablesOK /\ LinkedOnce /\ ClientInv

\* A reconciliation begins with nothing read and nobody asked.
LEMMA RunInit ==
  Init => RunInv
<1> SUFFICES ASSUME Init PROVE RunInv
  OBVIOUS
<1>1. TablesOK
  <2>1. /\ << >> \in Seq(Order) /\ << >> \in Seq(SettlementLine) /\ << >> \in Seq(Batch)
        /\ << >> \in Seq(Match)
    OBVIOUS
  <2>2. "intake" \in Passes
    BY DEF Passes
  <2>3. QED
    BY <2>1, <2>2 DEF Init, TablesOK, Row, Line
<1>2. LinkedOnce
  <2>1. DOMAIN matches = {}
    BY DEF Init
  <2>2. ToOrder = {}
    BY <2>1 DEF ToOrder
  <2>3. QED
    BY <2>1, <2>2 DEF LinkedOnce, Claimed, NothingClaimedTwice
<1>3. /\ cassettes = input.recorded /\ input.recorded \subseteq Prompt
      /\ client = [c \in Caller |-> [consecutive |-> 0, degraded |-> FALSE]]
      /\ call = [c \in Caller |-> Idle]
  BY ReconciliationAssumption DEF Init, ClientInit
<1>4. Idle \in Rested /\ Idle.stage # "asking"
  BY IdleRests DEF Rested
<1>5. ClientTypeOK
  BY <1>3, <1>4 DEF ClientTypeOK, Rested
<1>6. Served
  BY <1>3, <1>4, ModelClientAssumption DEF Served
<1>7. RetriesAreEarned
  BY <1>3, <1>4 DEF RetriesAreEarned
<1>8. QED
  BY <1>1, <1>2, <1>5, <1>6, <1>7 DEF RunInv, ClientInv

RunKept == TablesKept /\ ClientKept

\* Every step of a reconciliation.
LEMMA RunStep ==
  ASSUME RunInv, [Next]_vars
  PROVE  RunKept
<1> USE DEF RunInv
<1> Worker \in Caller
  BY ReconciliationAssumption
<1> DEFINE rest == <<orders, lines, byOrder, byPayment, matches, claimedLine, claimedOrder>>
<1>1. ASSUME Steady, UNCHANGED rest, UNCHANGED <<pass, at>>
      PROVE  TablesKept
  <2>1. pass' = "reversals" => pass = "reversals"
    BY <1>1
  <2>2. Passes' = Passes /\ Row' = Row /\ Line' = Line
    BY <1>1 DEF Passes, Turns, Row, Line
  <2>3. TablesOK'
    BY <1>1, <2>2 DEF TablesOK, Steady
  <2>4. LinkedOnce'
    BY <1>1 DEF LinkedOnce, NothingClaimedTwice, Claimed, ToOrder
  <2>5. QED
    BY <2>3, <2>4 DEF TablesKept
<1>2. ASSUME Steady, UNCHANGED rest, UNCHANGED pass, at' = at + 1, pass \in {"intake", "triage"}
      PROVE  TablesKept
  BY <1>2, MoveOnKeeps DEF TablesOK, Late
<1>3. ASSUME NEW columns, NEW by, Use(columns, by), Reading
      PROVE  TablesKept
  BY <1>2, <1>3 DEF Use, tables, Reading, Steady
<1>4. CASE MapByHeaders
  BY <1>3, <1>4, QuietKeeps DEF MapByHeaders, RunKept
<1>5. CASE AskForMapping
  <2>1. Sources[at] \in Prompt
    BY <1>5, ReconciliationAssumption DEF AskForMapping, Reading, TablesOK
  <2>2. QED
    BY <1>1, <1>5, <2>1, BeginKeeps DEF AskForMapping, tables, Steady, RunKept
<1>6. CASE TakeMapping
  <2>1. PICK columns, by : Use(columns, by)
    BY <1>6 DEF TakeMapping
  <2>2. QED
    BY <1>3, <1>6, <2>1, ReturnKeeps DEF TakeMapping, RunKept
<1>7. CASE NoMapping
  BY <1>3, <1>7, ReturnKeeps DEF NoMapping, RunKept
<1>8. CASE Load
  BY <1>8, LoadKeeps, QuietKeeps DEF Load, RunKept
<1>9. CASE MatchLines
  BY <1>9, LineStep, QuietKeeps DEF MatchLines, RunKept
<1>10. CASE Investigate
  <2>1. input.open[at] \in Prompt
    BY <1>10, ReconciliationAssumption DEF Investigate, TablesOK
  <2>2. QED
    BY <1>1, <1>10, <2>1, BeginKeeps DEF Investigate, tables, Steady, RunKept
<1>11. CASE Conclude
  <2>1. TablesKept
    BY <1>2, <1>11 DEF Conclude, tables, Steady
  <2>2. QED
    BY <1>11, <2>1, ReturnKeeps DEF Conclude, RunKept
<1>12. CASE EndTriage
  <2>1. TablesKept
    BY <1>12, MoveOnKeeps DEF EndTriage, tables, Steady, Passes, Late, TablesOK
  <2>2. QED
    BY <1>12, <2>1, QuietKeeps DEF EndTriage, RunKept
<1>13. CASE NetPayouts
  <2>1. CASE NetBatch
    <3>1. TablesKept
      BY <1>13, <2>1, MoveOnKeeps DEF NetPayouts, NetBatch, Steady, TablesOK, Late
    <3>2. QED
      BY <1>13, <3>1, QuietKeeps DEF NetPayouts, RunKept
  <2>2. CASE EndNetting
    <3>1. TablesKept
      BY <1>13, <2>2, MoveOnKeeps DEF NetPayouts, EndNetting, Steady, TablesOK, Late, Passes
    <3>2. QED
      BY <1>13, <3>1, QuietKeeps DEF NetPayouts, RunKept
  <2>3. QED
    BY <1>13, <2>1, <2>2 DEF NetPayouts
<1>14. CASE Wait
  BY <1>1, <1>14, PostKeeps DEF Wait, tables, Steady, RunKept
<1>15. CASE UNCHANGED vars
  BY <1>1, <1>15, QuietKeeps DEF vars, clientVars, Steady, RunKept
<1>16. QED
  BY <1>4, <1>5, <1>6, <1>7, <1>8, <1>9, <1>10, <1>11, <1>12, <1>13, <1>14, <1>15 DEF Next

\* The inductive invariant: tables and client are well-formed, what is matched is
\* claimed, reversals are matched in the order of their lines, and nobody asks
\* behind an open breaker.
THEOREM RunWellFormed ==
  Spec => []RunInv
<1>1. RunInv /\ [Next]_vars => RunInv'
  BY RunStep DEF RunInv, RunKept, TablesKept, ClientKept
<1>2. QED
  BY <1>1, RunInit, PTL DEF Spec

\* The type invariant.
THEOREM TypeCorrect ==
  Spec => []TypeOK
<1>1. RunInv => TypeOK
  BY DEF RunInv, TablesOK, ClientInv, TypeOK
<1>2. QED
  BY <1>1, RunWellFormed, PTL

\* No line is matched to two orders, no order to two lines, no reversal reverses
\* twice, whatever ids, amounts and days stand in the files and however often.
THEOREM LinkedAtMostOnce ==
  Spec => []NothingClaimedTwice
<1>1. RunInv => NothingClaimedTwice
  BY DEF RunInv, LinkedOnce
<1>2. QED
  BY <1>1, RunWellFormed, PTL

\* A backend is asked again only for what the adapter says is worth it.
THEOREM RetriesEarned ==
  Spec => []RetriesAreEarned
<1>1. RunInv => RetriesAreEarned
  BY DEF RunInv, ClientInv
<1>2. QED
  BY <1>1, RunWellFormed, PTL

\* The breaker opens with the streak that is long enough, and stays open.
THEOREM BreakerStaysOpen ==
  Spec => BreakerHolds
<1>1. RunInv /\ [Next]_vars =>
        [\A c \in Caller :
           /\ client[c].degraded => client'[c].degraded /\ call'[c].stage # "asking"
           /\ client'[c].consecutive >= BreakerThreshold => client'[c].degraded]_clientVars
  BY RunStep DEF RunKept, ClientKept, ClientInv, Served
<1>2. QED
  BY <1>1, RunWellFormed, PTL DEF Spec, BreakerHolds
=============================================================================
