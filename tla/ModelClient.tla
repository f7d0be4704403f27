---------------------------- MODULE ModelClient ----------------------------
(***************************************************************************)
(* What the agents talk to (llm/provider.py) and the adapters behind it    *)
(* (llm/gemini.py, groq.py, local.py): an answer from the recorded ones,   *)
(* else from the first backend that gives one, else none.                  *)
(*                                                                         *)
(* A caller owns one client and makes one call at a time; the recorded     *)
(* answers (cassettes) are files that all callers share.  What an answer   *)
(* says is the caller's business.  Pacing only delays and is left out.     *)
(***************************************************************************)
EXTENDS Integers, Sequences

CONSTANTS
  Caller, Prompt,
  NoPrompt,          \* no call under way
  Chain,             \* the backends in fallback order
  Models,            \* how many models the Gemini adapter may try
  RetryAttempts,     \* RETRY_ATTEMPTS per model
  BreakerThreshold,  \* breaker_threshold
  Record             \* whether live answers are recorded

ASSUME ModelClientAssumption ==
  /\ Chain \in Seq({"local", "gemini", "groq"})
  /\ NoPrompt \notin Prompt
  /\ Models \in Nat \ {0} /\ RetryAttempts \in Nat \ {0}
  /\ BreakerThreshold \in Nat \ {0}
  /\ Record \in BOOLEAN

VARIABLES
  cassettes,  \* the prompts with a readable recorded answer
  client,     \* per caller: _consecutive_failures and degraded
  call        \* per caller: the call under way and how the last one ended

clientVars == <<cassettes, client, call>>

\* What one post can come to: an answer; a body that does not parse; a status
\* worth a retry; a timeout; a model that is gone (404); any other refusal; no
\* connection or no key.
Status == {"ok", "garbled", "transient", "timeout", "gone", "refused", "broken"}

Ended == {"served", "answered", "unavailable"}

Idle == [stage |-> "idle", prompt |-> NoPrompt, backend |-> 0, model |-> 0, attempt |-> 0,
         last |-> "none"]

ClientInit(recorded) ==
  /\ cassettes = recorded
  /\ client = [c \in Caller |-> [consecutive |-> 0, degraded |-> FALSE]]
  /\ call = [c \in Caller |-> Idle]

End(c, stage) ==
  call' = [call EXCEPT ![c] = [Idle EXCEPT !.stage = stage, !.prompt = call[c].prompt]]

\* The post that comes next, at a backend, model and attempt.
Try(c, prompt, backend, model, attempt, last) ==
  call' = [call EXCEPT ![c] = [stage |-> "asking", prompt |-> prompt, backend |-> backend,
                               model |-> model, attempt |-> attempt, last |-> last]]

\* Mutant: an open breaker is not looked at.
BeginWhateverBreaker(c, prompt) ==
  /\ call[c].stage = "idle"
  /\ \/ /\ prompt \notin cassettes /\ Chain # << >>
        /\ Try(c, prompt, 1, 1, 1, "none")
     \/ /\ prompt \in cassettes \/ Chain = << >>
        /\ call' = [call EXCEPT ![c] = [Idle EXCEPT !.prompt = prompt,
                      !.stage = IF prompt \in cassettes THEN "served" ELSE "unavailable"]]
  /\ UNCHANGED <<cassettes, client>>

\* LLMClient.complete up to its loop: a recorded answer is served whatever the
\* breaker says; a degraded client and one without backends give up.
Begin(c, prompt) ==
  /\ call[c].stage = "idle"
  /\ \/ /\ prompt \notin cassettes /\ ~client[c].degraded /\ Chain # << >>
        /\ Try(c, prompt, 1, 1, 1, "none")
     \/ /\ prompt \in cassettes \/ client[c].degraded \/ Chain = << >>
        /\ call' = [call EXCEPT ![c] = [Idle EXCEPT !.prompt = prompt,
                      !.stage = IF prompt \in cassettes THEN "served" ELSE "unavailable"]]
  /\ UNCHANGED <<cassettes, client>>

\* The backend answers: the streak of failures ends, the answer may be recorded.
BackendAnswers(c) ==
  /\ cassettes' = IF Record THEN cassettes \cup {call[c].prompt} ELSE cassettes
  /\ client' = [client EXCEPT ![c].consecutive = 0]
  /\ End(c, "answered")

\* The last backend of the chain failed: one more consecutive failure.
AllBackendsFailed(c) ==
  LET streak == client[c].consecutive + 1
  IN /\ client' = [client EXCEPT ![c] =
                     [consecutive |-> streak,
                      degraded    |-> @.degraded \/ streak >= BreakerThreshold]]
     /\ End(c, "unavailable")
     /\ UNCHANGED cassettes

\* Mutant: after the last backend the first is asked again.
BackendFailsStartsOver(c) ==
  /\ Try(c, call[c].prompt, IF call[c].backend < Len(Chain) THEN call[c].backend + 1 ELSE 1,
         1, 1, "none")
  /\ UNCHANGED <<cassettes, client>>

\* The backend raises: the next one of the chain is asked.
BackendFails(c) ==
  \/ /\ call[c].backend < Len(Chain)
     /\ Try(c, call[c].prompt, call[c].backend + 1, 1, 1, "none")
     /\ UNCHANGED <<cassettes, client>>
  \/ /\ call[c].backend = Len(Chain)
     /\ AllBackendsFailed(c)

\* Mutant: any bad status is retried.
RetryableAny == {"transient", "timeout", "gone", "refused"}

\* _post_with_retry: what the same model is asked again for.
Retryable == {"transient", "timeout"}

\* One post of the Gemini adapter.  After its last attempt a transient status
\* goes on to the next model, a timeout is raised.
PostGemini(c, status) ==
  LET k == call[c] IN
  \/ /\ status = "ok"
     /\ BackendAnswers(c)
  \/ /\ status \in Retryable /\ k.attempt < RetryAttempts
     /\ Try(c, k.prompt, k.backend, k.model, k.attempt + 1, status)
     /\ UNCHANGED <<cassettes, client>>
  \/ /\ status = "transient" /\ k.attempt = RetryAttempts /\ k.model < Models
     /\ Try(c, k.prompt, k.backend, k.model + 1, 1, status)
     /\ UNCHANGED <<cassettes, client>>
  \/ /\ status # "ok"
     /\ \/ status \notin Retryable
        \/ k.attempt = RetryAttempts /\ (status # "transient" \/ k.model = Models)
     /\ BackendFails(c)

\* One post of the other adapters, which never retry.
PostOnce(c, status) ==
  \/ status = "ok" /\ BackendAnswers(c)
  \/ status # "ok" /\ BackendFails(c)

Post(c, status) ==
  /\ call[c].stage = "asking"
  /\ IF Chain[call[c].backend] = "gemini" THEN PostGemini(c, status) ELSE PostOnce(c, status)

\* The caller has its answer, or LLMUnavailable.
Return(c) == call' = [call EXCEPT ![c] = Idle]

-----------------------------------------------------------------------------
ClientTypeOK ==
  /\ cassettes \subseteq Prompt
  /\ client \in [Caller -> [consecutive: Nat, degraded: BOOLEAN]]
  /\ call \in [Caller -> [stage: {"idle", "asking"} \cup Ended, prompt: Prompt \cup {NoPrompt},
                          backend: 0..Len(Chain), model: 0..Models,
                          attempt: 0..RetryAttempts, last: Status \cup {"none"}]]

\* "The circuit breaker trips after three consecutive failures and the run degrades
\* to rules": a client whose breaker is open never reaches a backend again, and the
\* breaker is open from the first call on that makes the streak long enough.
BreakerHolds ==
  [][\A c \in Caller :
       /\ client[c].degraded => client'[c].degraded /\ call'[c].stage # "asking"
       /\ client'[c].consecutive >= BreakerThreshold => client'[c].degraded]_clientVars

\* "A 400 or a 404 is a bug in the request and retrying it just wastes the quota":
\* a backend is posted to again only after a timeout or an overloaded server, and
\* another model is tried only for the latter.
RetriesAreEarned ==
  \A c \in Caller : call[c].stage = "asking" =>
    /\ call[c].attempt > 1 => call[c].last \in {"transient", "timeout"}
    /\ call[c].attempt = 1 /\ call[c].model > 1 => call[c].last = "transient"
=============================================================================
