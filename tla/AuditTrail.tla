----------------------------- MODULE AuditTrail -----------------------------
(***************************************************************************)
(* What a run leaves in the database, what a person decides on it, and     *)
(* when it goes (core/db.py, api/main.py, cli.py): reconciliations that    *)
(* commit a run and then prune the older ones, and handlers of the         *)
(* dashboard that decide on an exception of a run.                         *)
(*                                                                         *)
(* A run stands for its rows: its exceptions and its audit lines are told  *)
(* apart, the other tables that are pruned with it go the same way.  The   *)
(* first write of a transaction takes the one write lock, which is kept    *)
(* until the transaction ends; a query flushes what is pending first.      *)
(***************************************************************************)
EXTENDS Integers, FiniteSets, SequencesExt

CONSTANTS
  Worker, Desk,    \* processes that reconcile, handlers of the dashboard
  Item,            \* the exceptions of a run
  Keep,            \* runs that prune_runs keeps
  Repeats,         \* whether a decision may be the one that is already there
  MaxRuns,         \* bound on the runs
  MaxDecisions,    \* bound on the decisions
  Nobody

ASSUME AuditTrailAssumption ==
  /\ Keep \in Nat \ {0} /\ Repeats \in BOOLEAN
  /\ MaxRuns \in Nat /\ MaxDecisions \in Nat
  /\ Nobody \notin Worker \cup Desk

VARIABLES
  begun,       \* runs begun so far, which numbers them
  decisions,   \* decisions begun so far
  runs,        \* committed runs: when each was started, by number
  status,      \* per run: the status of its exceptions
  trail,       \* the audit lines, in the order of their commit
  lock,        \* who holds the write lock
  worker,      \* per worker: how far it is
  desk,        \* per handler: the decision under way
  now          \* the clock that started_at is taken from

vars == <<begun, decisions, runs, status, trail, lock, worker, desk, now>>

Decision == {"accepted_by_human", "rejected_by_human"}

Run == DOMAIN runs

LinesOf(log, r) == {i \in DOMAIN log : log[i].run = r}

Rest == [stage |-> "idle", run |-> 0, started |-> 0, doomed |-> {}]

Away == [stage |-> "idle", run |-> 0, item |-> Nobody, seen |-> "open", decision |-> "open",
         count |-> 0]

Init ==
  /\ begun = 0 /\ decisions = 0 /\ now = 0
  /\ runs = << >> /\ status = << >> /\ trail = << >>
  /\ lock = Nobody
  /\ worker = [w \in Worker |-> Rest]
  /\ desk = [d \in Desk |-> Away]

-----------------------------------------------------------------------------
WorkerOnly == UNCHANGED <<decisions, desk>>

\* A new run; its AuditLog finds no line of it.
Begin(w) ==
  /\ worker[w].stage = "idle" /\ begun < MaxRuns
  /\ begun' = begun + 1
  /\ worker' = [worker EXCEPT ![w] = [Rest EXCEPT !.stage = "reconciling", !.run = begun + 1]]
  /\ UNCHANGED <<runs, status, trail, lock, now>> /\ WorkerOnly

\* _summarise: started_at is taken when the run is over.
Summarise(w) ==
  /\ worker[w].stage = "reconciling"
  /\ now' = now + 1
  /\ worker' = [worker EXCEPT ![w].stage = "persisting", ![w].started = now + 1]
  /\ UNCHANGED <<begun, runs, status, trail, lock>> /\ WorkerOnly

\* _persist up to the commit, in one transaction, with a line of its own.
Commit(w) ==
  LET r == worker[w].run IN
  /\ worker[w].stage = "persisting" /\ lock = Nobody
  /\ runs' = [s \in Run \cup {r} |-> IF s = r THEN worker[w].started ELSE runs[s]]
  /\ status' = [s \in Run \cup {r} |-> IF s = r THEN [i \in Item |-> "open"] ELSE status[s]]
  /\ trail' = Append(trail, [run |-> r, seq |-> 1, item |-> Nobody, decision |-> "raised"])
  /\ worker' = [worker EXCEPT ![w].stage = "committed"]
  /\ UNCHANGED <<begun, lock, now>> /\ WorkerOnly

\* Mutant: the newest by insertion are kept.
DoomedByNumber == {r \in Run : Cardinality({s \in Run : s > r}) >= Keep}

\* The runs after the Keep newest by started_at.
Doomed == {r \in Run : Cardinality({s \in Run : runs[s] > runs[r]}) >= Keep}

\* prune_runs reads the runs in a session of its own.
ReadRuns(w) ==
  /\ worker[w].stage = "committed"
  /\ worker' = [worker EXCEPT ![w] =
                  IF Doomed = {} THEN Rest ELSE [@ EXCEPT !.stage = "pruning", !.doomed = Doomed]]
  /\ UNCHANGED <<begun, runs, status, trail, lock, now>> /\ WorkerOnly

\* One transaction over all the tables that belong to a run, and the run.
Prune(w) ==
  LET kept == Run \ worker[w].doomed IN
  /\ worker[w].stage = "pruning" /\ lock = Nobody
  /\ runs' = [r \in kept |-> runs[r]]
  /\ status' = [r \in kept |-> status[r]]
  /\ trail' = SelectSeq(trail, LAMBDA line : line.run \notin worker[w].doomed)
  /\ worker' = [worker EXCEPT ![w] = Rest]
  /\ UNCHANGED <<begun, lock, now>> /\ WorkerOnly

\* The process fails or is killed: before its commit nothing of the run remains,
\* after it the run stays and nothing is pruned.
Crash(w) ==
  /\ worker[w].stage # "idle"
  /\ worker' = [worker EXCEPT ![w] = Rest]
  /\ UNCHANGED <<begun, runs, status, trail, lock, now>> /\ WorkerOnly

-----------------------------------------------------------------------------
DeskOnly == UNCHANGED <<begun, runs, worker, now>>

\* decide: the exception is read, outside any transaction.
Load(d) ==
  /\ desk[d].stage = "idle" /\ decisions < MaxDecisions
  /\ \E r \in Run, i \in Item, what \in Decision :
       /\ Repeats \/ what # status[r][i]
       /\ desk' = [desk EXCEPT ![d] = [Away EXCEPT !.stage = "deciding", !.run = r, !.item = i,
                                         !.seen = status[r][i], !.decision = what]]
  /\ decisions' = decisions + 1
  /\ UNCHANGED <<status, trail, lock>> /\ DeskOnly



\* The row to update is not there any more.
RunGone(d) == desk[d].run \notin Run

\* AuditLog counts the lines of the run, which flushes the new status first and so
\* takes the lock, unless the status is the one that was read.
Count(d) ==
  /\ desk[d].stage = "deciding"
  /\ \/ /\ desk[d].decision # desk[d].seen /\ ~RunGone(d)
        /\ lock = Nobody /\ lock' = d
     \/ /\ desk[d].decision = desk[d].seen
        /\ UNCHANGED lock
  /\ desk' = [desk EXCEPT ![d].stage = "counted",
                          ![d].count = Cardinality(LinesOf(trail, desk[d].run))]
  /\ UNCHANGED <<decisions, status, trail>> /\ DeskOnly

\* The line is inserted and both become visible.
CommitDecision(d) ==
  LET k == desk[d] IN
  /\ k.stage = "counted" /\ lock \in {Nobody, d}
  /\ trail' = Append(trail, [run |-> k.run, seq |-> k.count + 1, item |-> k.item,
                             decision |-> k.decision])
  /\ status' = IF k.decision # k.seen /\ k.run \in Run
               THEN [status EXCEPT ![k.run][k.item] = k.decision] ELSE status
  /\ lock' = Nobody
  /\ desk' = [desk EXCEPT ![d] = Away]
  /\ UNCHANGED decisions /\ DeskOnly

\* The row has gone, the lock is not to be had in time, or anything else fails.
FailDecision(d) ==
  /\ desk[d].stage # "idle"
  /\ lock' = IF lock = d THEN Nobody ELSE lock
  /\ desk' = [desk EXCEPT ![d] = Away]
  /\ UNCHANGED <<decisions, status, trail>> /\ DeskOnly

Next ==
  \/ \E w \in Worker : \/ Begin(w) \/ Summarise(w) \/ Commit(w)
                       \/ ReadRuns(w) \/ Prune(w) \/ Crash(w)
  \/ \E d \in Desk : Load(d) \/ Count(d) \/ CommitDecision(d) \/ FailDecision(d)

Spec == Init /\ [][Next]_vars

-----------------------------------------------------------------------------
About(r, i) == {n \in LinesOf(trail, r) : trail[n].item = i}



\* "Keep the newest": whoever prunes, and whatever was committed since it looked, a
\* run goes only when as many newer ones stay as are to be kept.
NewestKept ==
  [][\A r \in Run : r \in DOMAIN runs' \/
       Cardinality({s \in DOMAIN runs' : runs'[s] > runs[r]}) >= Keep]_vars
=============================================================================
