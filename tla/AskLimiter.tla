----------------------------- MODULE AskLimiter -----------------------------
(***************************************************************************)
(* The limiter in front of the ask endpoint (api/ratelimit.py): requests   *)
(* per client in two sliding windows over one queue of times, and paid     *)
(* model calls per day over all clients.                                   *)
(*                                                                         *)
(* Time is counted in ticks, Second of them to a second, so that the       *)
(* truncation of the wait shows.  Every operation runs under the lock, but *)
(* the clock and the date it uses are read before.                         *)
(***************************************************************************)
EXTENDS Integers, FiniteSets, SequencesExt

CONSTANTS
  Client,          \* addresses
  Second,          \* ticks per second
  Minute, Hour,    \* the windows, in ticks
  PerMinute, PerHour,
  ModelPerDay,
  MaxTracked,      \* MAX_TRACKED_CLIENTS
  NoDay,           \* the date before the first claim
  MaxDelay         \* ticks a request may take from the clock to the lock

ASSUME AskLimiterAssumption ==
  /\ Second \in Nat \ {0}
  /\ Minute \in Nat /\ Hour \in Nat /\ Minute < Hour
  /\ PerMinute \in Nat \ {0} /\ PerHour \in Nat \ {0} /\ ModelPerDay \in Nat
  /\ MaxTracked \in Nat \ {0}
  /\ NoDay \notin Nat
  /\ MaxDelay \in Nat /\ Minute + MaxDelay <= Hour

VARIABLES
  hits,       \* _hits: the times by client, for the clients tracked
  modelDay,   \* _model_day
  modelUsed,  \* _model_used
  admitted,   \* per client: the times of its admissions, also those not in hits
  forgotten,  \* the clients whose own request dropped them from hits
  refusal     \* per client: its last refusal, unless a request that read the
              \* clock later overtook it, while nothing was admitted since

limiterVars == <<hits, modelDay, modelUsed, admitted, forgotten, refusal>>

Nothing == [window |-> "none", again |-> 0]

LimiterInit ==
  /\ hits = << >>
  /\ modelDay = NoDay /\ modelUsed = 0
  /\ admitted = [c \in Client |-> << >>]
  /\ forgotten = {}
  /\ refusal = [c \in Client |-> Nothing]

-----------------------------------------------------------------------------
\* Nothing inside the hour, which an empty queue has not either.
Stale(table, now) == {c \in DOMAIN table : table[c] = << >> \/ now - table[c][Len(table[c])] > Hour}

Without(table, gone) == [c \in DOMAIN table \ gone |-> table[c]]

\* The quarter of the clients that were seen least recently, up to ties.  None has to
\* go: the new client is always stale.
LeastRecent(table) ==
  {c \in DOMAIN table :
     Cardinality({d \in DOMAIN table : table[d][Len(table[d])] < table[c][Len(table[c])]})
       < Cardinality(DOMAIN table) \div 4}

\* _evict.
Evict(table, now) ==
  LET fresh == Without(table, Stale(table, now)) IN
  IF Cardinality(DOMAIN fresh) > MaxTracked THEN Without(fresh, LeastRecent(fresh)) ELSE fresh

\* The table once the client is looked up; a new one may exceed the cap.
Tracked(c, now) ==
  LET table == [d \in DOMAIN hits \cup {c} |-> IF d \in DOMAIN hits THEN hits[d] ELSE << >>]
  IN IF c \notin DOMAIN hits /\ Cardinality(DOMAIN table) > MaxTracked
     THEN Evict(table, now) ELSE table


\* The queue from its first time inside the hour on.
Recent(queue, now) ==
  LET young == {i \in DOMAIN queue : now - queue[i] <= Hour}
  IN IF young = {} THEN << >> ELSE SubSeq(queue, Min(young), Len(queue))

\* Mutant: the seconds that are left are rounded down once too often.
WaitShort(window, age) == Max({1, (window - age) \div Second})

\* int(61 - age), and 3601 for the hour.
WaitFor(window, age) == Max({1, (window + Second - age) \div Second})

\* check: the request is admitted, or refused by a window with seconds to wait.
\* The queue is the one looked up, even where eviction has just dropped it.
Check(c, now, outcome) ==
  LET table  == Tracked(c, now)
      queue  == Recent(IF c \in DOMAIN hits THEN hits[c] ELSE << >>, now)
      minute == {i \in DOMAIN queue : now - queue[i] <= Minute}
      after  == IF outcome = "admitted" THEN Append(queue, now) ELSE queue
      window == IF outcome = "minute" THEN Minute ELSE Hour
      oldest == queue[IF outcome = "minute" THEN Min(minute) ELSE 1]
  IN /\ outcome = IF Cardinality(minute) >= PerMinute THEN "minute"
                  ELSE IF Len(queue) >= PerHour THEN "hour" ELSE "admitted"
     /\ hits' = [d \in DOMAIN table |-> IF d = c THEN after ELSE table[d]]
     /\ forgotten' = IF c \in DOMAIN table THEN forgotten ELSE forgotten \cup {c}
     /\ IF outcome = "admitted"
        THEN /\ admitted' = [admitted EXCEPT ![c] = Append(@, now)]
             /\ refusal' = [refusal EXCEPT ![c] = Nothing]
        ELSE /\ refusal' = [refusal EXCEPT ![c] =
                  IF \E i \in DOMAIN queue : queue[i] > now THEN Nothing
                  ELSE [window |-> outcome, again |-> now + Second * WaitFor(window, now - oldest)]]
             /\ UNCHANGED admitted
     /\ UNCHANGED <<modelDay, modelUsed>>

\* Mutant: one call more than the budget.
ClaimOneMore(today, granted) ==
  LET used == IF modelDay = today THEN modelUsed ELSE 0 IN
  /\ granted = (used <= ModelPerDay)
  /\ modelDay' = today
  /\ modelUsed' = IF granted THEN used + 1 ELSE used
  /\ UNCHANGED <<hits, admitted, forgotten, refusal>>

\* take_model_call: a date other than the last one starts a new budget.
Claim(today, granted) ==
  LET used == IF modelDay = today THEN modelUsed ELSE 0 IN
  /\ granted = (used < ModelPerDay)
  /\ modelDay' = today
  /\ modelUsed' = IF granted THEN used + 1 ELSE used
  /\ UNCHANGED <<hits, admitted, forgotten, refusal>>

-----------------------------------------------------------------------------
\* No more than most of the times lie in any window.
Spread(times, window, most) ==
  \A i \in DOMAIN times :
    Cardinality({j \in DOMAIN times : times[j] \in times[i]..times[i] + window}) <= most


\* "Stops one browser (or one loop) monopolising it": the same of every client.
EveryClientLimited ==
  \A c \in Client : Spread(admitted[c], Minute, PerMinute)
=============================================================================
