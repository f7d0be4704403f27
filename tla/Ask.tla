--------------------------------- MODULE Ask ---------------------------------
(***************************************************************************)
(* The ask endpoint (api/main.py, agents/qa.py): handlers on a pool of     *)
(* threads, each with one question at a time, first past the limiter, then *)
(* to an answer for free, to the model by a client of its own, or to none. *)
(*                                                                         *)
(* What is asked shows when it is answered: an intent, or a prompt for the *)
(* model.  Handlers share the limiter and the recorded answers.  What the  *)
(* database says to a query is left out: every answer of the model ends    *)
(* the question.                                                           *)
(***************************************************************************)
EXTENDS AskLimiter, ModelClient

CONSTANTS
  Midnight,   \* the tick at which the next day begins
  NoClient,   \* of a handler without a question
  MaxTick,    \* bound on the clock
  MaxAsked    \* bound on the number of questions

ASSUME AskAssumption ==
  Midnight \in Nat /\ MaxTick \in Nat /\ MaxAsked \in Nat

Handler == Caller

VARIABLES
  clock,      \* ticks
  asked,      \* questions so far
  handler,    \* per handler: its question and how far it is
  paid,       \* per day: the questions that reached a backend on its budget
  late        \* somebody claimed by the date of the day before

vars == <<limiterVars, clientVars, clock, asked, handler, paid, late>>

endpointVars == <<clock, asked, handler, paid, late>>

DayAt(tick) == IF tick < Midnight THEN 0 ELSE 1

Free == [stage |-> "free", client |-> NoClient, now |-> 0, day |-> 0]

Init ==
  /\ LimiterInit /\ ClientInit({})
  /\ clock = 0 /\ asked = 0
  /\ handler = [h \in Handler |-> Free]
  /\ paid = [d \in {0, 1} |-> 0]
  /\ late = FALSE

Goes(h, stage) == handler' = [handler EXCEPT ![h].stage = stage]

Leaves(h) == handler' = [handler EXCEPT ![h] = Free]

-----------------------------------------------------------------------------
\* A question that is neither empty nor too long; the clock is read.
Arrive(h) ==
  /\ handler[h].stage = "free" /\ asked < MaxAsked
  /\ asked' = asked + 1
  /\ \E c \in Client :
       handler' = [handler EXCEPT ![h] = [stage |-> "counting", client |-> c, now |-> clock,
                                          day |-> 0]]
  /\ UNCHANGED <<limiterVars, clientVars, clock, paid, late>>

\* The client and the time matter no longer.
Admit(h) ==
  /\ handler[h].stage = "counting"
  /\ Check(handler[h].client, handler[h].now, "admitted")
  /\ handler' = [handler EXCEPT ![h] = [Free EXCEPT !.stage = "admitted"]]
  /\ UNCHANGED <<clientVars, clock, asked, paid, late>>

\* 429, with the seconds to wait.
Refuse(h) ==
  /\ handler[h].stage = "counting"
  /\ \E window \in {"minute", "hour"} : Check(handler[h].client, handler[h].now, window)
  /\ Leaves(h)
  /\ UNCHANGED <<clientVars, clock, asked, paid, late>>

\* 404, before anything is claimed.
NoSuchRun(h) ==
  /\ handler[h].stage = "admitted"
  /\ Leaves(h)
  /\ UNCHANGED <<limiterVars, clientVars, clock, asked, paid, late>>

ReadDate(h) ==
  /\ handler[h].stage = "admitted"
  /\ handler' = [handler EXCEPT ![h].stage = "claiming", ![h].day = DayAt(clock)]
  /\ UNCHANGED <<limiterVars, clientVars, clock, asked, paid, late>>

\* Claimed for every question, whether or not it will need the model.
ClaimCall(h) ==
  /\ handler[h].stage = "claiming"
  /\ \E granted \in BOOLEAN : /\ Claim(handler[h].day, granted)
                              /\ Goes(h, IF granted THEN "allowed" ELSE "exhausted")
  /\ late' = (late \/ handler[h].day # DayAt(clock))
  /\ UNCHANGED <<clientVars, clock, asked, paid>>

\* An intent, answered whatever the budget, or that the budget is spent.
AnswerForFree(h) ==
  /\ handler[h].stage \in {"allowed", "exhausted"}
  /\ Leaves(h)
  /\ UNCHANGED <<limiterVars, clientVars, clock, asked, paid, late>>

AskModel(h) ==
  /\ handler[h].stage = "allowed"
  /\ \E prompt \in Prompt : Begin(h, prompt)
  /\ Goes(h, "asking")
  /\ paid' = IF call'[h].stage = "asking" THEN [paid EXCEPT ![handler[h].day] = @ + 1] ELSE paid
  /\ UNCHANGED <<limiterVars, clock, asked, late>>

Wait(h) ==
  /\ \E status \in Status : Post(h, status)
  /\ UNCHANGED <<limiterVars, endpointVars>>

\* The answer, or that there is none.  The next question has a client of its own.
Answer(h) ==
  /\ handler[h].stage = "asking" /\ call[h].stage \in Ended
  /\ Return(h)
  /\ client' = [client EXCEPT ![h] = [consecutive |-> 0, degraded |-> FALSE]]
  /\ Leaves(h)
  /\ UNCHANGED <<limiterVars, cassettes, clock, asked, paid, late>>

\* Time passes; the lock is never held for long.
Tick ==
  /\ clock < MaxTick
  /\ \A h \in Handler : handler[h].stage = "counting" => clock - handler[h].now < MaxDelay
  /\ clock' = clock + 1
  /\ UNCHANGED <<limiterVars, clientVars, asked, handler, paid, late>>

Next ==
  \/ \E h \in Handler :
       \/ Arrive(h) \/ Admit(h) \/ Refuse(h) \/ NoSuchRun(h)
       \/ ReadDate(h) \/ ClaimCall(h) \/ AnswerForFree(h)
       \/ AskModel(h) \/ Wait(h) \/ Answer(h)
  \/ Tick

Spec == Init /\ [][Next]_vars

-----------------------------------------------------------------------------
\* "Try again in {retry_after}s": who comes back when told, nothing of theirs having
\* been admitted since, is not refused again by the window that refused them.
WaitIsEnough ==
  [][\A h \in Handler :
       LET c == handler[h].client
       IN /\ handler[h].stage = "counting" /\ handler'[h].stage # "counting"
          /\ refusal[c].window # "none" /\ handler[h].now >= refusal[c].again
          => refusal'[c].window # refusal[c].window]_vars

\* "The only one that actually protects the key": on the budget of a day no more
\* questions reach a backend than it allows, unless a handler that read the date
\* before midnight claimed after it.
BudgetOfTheDay == late \/ \A d \in {0, 1} : paid[d] <= ModelPerDay
=============================================================================
