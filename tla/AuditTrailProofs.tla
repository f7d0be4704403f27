-------------------------- MODULE AuditTrailProofs --------------------------
(***************************************************************************)
(* Whoever prunes, the newest runs stay: what one process found old enough *)
(* to go stays old enough, whatever others commit and prune before it      *)
(* deletes.                                                                *)
(***************************************************************************)
EXTENDS AuditTrail, FiniteSetTheorems, TLAPS

NewerIn(f, r) == {s \in DOMAIN f : f[s] > f[r]}

OldIn(f) == {r \in DOMAIN f : Cardinality(NewerIn(f, r)) >= Keep}

\* A bounded function takes a greatest value on every set that is not empty.
LEMMA Greatest ==
  ASSUME NEW S, NEW f, NEW n \in Nat, S # {}, \A s \in S : f[s] \in 0..n
  PROVE  \E m \in S : \A s \in S : f[s] <= f[m]
<1> DEFINE T == {n - f[s] : s \in S}
<1>1. T \subseteq Nat /\ T # {}
  OBVIOUS
<1>2. PICK x \in T : \A y \in T : ~ (<<y, x>> \in OpToRel(<, Nat))
  BY <1>1, NatLessThanWellFounded, WFMin
<1>3. PICK m \in S : x = n - f[m]
  OBVIOUS
<1>4. ASSUME NEW s \in S PROVE f[s] <= f[m]
  <2>1. n - f[s] \in T /\ n - f[s] \in Nat /\ x \in Nat
    BY <1>1
  <2>2. <<n - f[s], x>> \in Nat \X Nat
    BY <2>1
  <2>3. ~ (n - f[s] < x)
    BY <1>2, <2>1, <2>2 DEF OpToRel
  <2> QED BY <2>1, <2>3, <1>3
<1> QED BY <1>4

\* However many of the runs that are old enough go, those that are old enough keep
\* as many newer runs as are to be kept.
LEMMA NewerStay ==
  ASSUME NEW f, NEW n \in Nat, IsFiniteSet(DOMAIN f), \A s \in DOMAIN f : f[s] \in 0..n,
         NEW D, D \cap DOMAIN f \subseteq OldIn(f), NEW r \in OldIn(f)
  PROVE  Cardinality({s \in DOMAIN f \ D : f[s] > f[r]}) >= Keep
<1> DEFINE Stay == {s \in DOMAIN f \ D : f[s] > f[r]}
<1>1. OldIn(f) # {} /\ OldIn(f) \subseteq DOMAIN f
  BY DEF OldIn
<1>2. \A s \in OldIn(f) : f[s] \in 0..n
  BY <1>1
<1>3. PICK m \in OldIn(f) : \A s \in OldIn(f) : f[s] <= f[m]
  <2> HIDE DEF OldIn
  <2> QED BY <1>1, <1>2, Greatest
<1>4. NewerIn(f, m) \subseteq Stay
  <2> SUFFICES ASSUME NEW s \in NewerIn(f, m) PROVE s \in Stay
    OBVIOUS
  <2>1. s \in DOMAIN f /\ f[s] > f[m] /\ f[s] \in Nat /\ f[m] \in Nat /\ f[r] \in Nat
    BY <1>1 DEF NewerIn
  <2>2. s \notin OldIn(f)
    BY <1>3, <2>1
  <2>3. f[r] <= f[m]
    BY <1>3
  <2> QED BY <2>1, <2>2, <2>3
<1>5. IsFiniteSet(Stay)
  BY FS_Subset, Stay \in SUBSET DOMAIN f
<1>6. IsFiniteSet(NewerIn(f, m)) /\ Cardinality(NewerIn(f, m)) <= Cardinality(Stay)
  BY <1>4, <1>5, FS_Subset
<1>7. Cardinality(NewerIn(f, m)) >= Keep
  BY DEF OldIn
<1>8. Cardinality(NewerIn(f, m)) \in Nat /\ Cardinality(Stay) \in Nat
  BY <1>5, <1>6, FS_CardinalityType
<1> QED BY <1>6, <1>7, <1>8, AuditTrailAssumption

\* A run more leaves those that are old enough as old.
LEMMA OneMore ==
  ASSUME NEW f, NEW g, IsFiniteSet(DOMAIN g), DOMAIN f \subseteq DOMAIN g,
         \A s \in DOMAIN f : g[s] = f[s]
  PROVE  OldIn(f) \subseteq OldIn(g)
<1> SUFFICES ASSUME NEW r \in OldIn(f) PROVE r \in OldIn(g)
  OBVIOUS
<1>1. r \in DOMAIN f /\ r \in DOMAIN g /\ Cardinality(NewerIn(f, r)) >= Keep
  BY DEF OldIn
<1>2. NewerIn(f, r) \subseteq NewerIn(g, r) /\ NewerIn(g, r) \subseteq DOMAIN g
  BY <1>1 DEF NewerIn
<1>3. IsFiniteSet(NewerIn(g, r)) /\ IsFiniteSet(NewerIn(f, r))
  BY <1>2, FS_Subset
<1>4. Cardinality(NewerIn(f, r)) <= Cardinality(NewerIn(g, r))
  BY <1>2, <1>3, FS_Subset
<1>5. Cardinality(NewerIn(f, r)) \in Nat /\ Cardinality(NewerIn(g, r)) \in Nat
  BY <1>3, FS_CardinalityType
<1> QED BY <1>1, <1>4, <1>5, AuditTrailAssumption DEF OldIn

LEMMA DoomedIsOld == Doomed = OldIn(runs)
  BY DEF Doomed, OldIn, NewerIn, Run

-----------------------------------------------------------------------------
Stages == {"idle", "reconciling", "persisting", "committed", "pruning"}

\* The runs are numbered up to begun and started up to now.
WorkersTyped ==
  /\ begun \in Nat /\ now \in Nat
  /\ DOMAIN runs \subseteq 1..begun
  /\ \A r \in DOMAIN runs : runs[r] \in 0..now
  /\ worker \in [Worker -> [stage: Stages, run: Nat, started: Nat, doomed: SUBSET Nat]]
  /\ \A w \in Worker : /\ worker[w].run <= begun /\ worker[w].started <= now
                       /\ worker[w].doomed \subseteq 1..begun

Unborn(w) == worker[w].stage \in {"reconciling", "persisting"}

\* A run that is not committed is nobody else's, and nobody has doomed it.
NumbersOwn ==
  \A w \in Worker : Unborn(w) =>
    /\ worker[w].run \in 1..begun /\ worker[w].run \notin DOMAIN runs
    /\ \A v \in Worker : /\ worker[w].run \notin worker[v].doomed
                         /\ v # w /\ Unborn(v) => worker[v].run # worker[w].run

\* What was read as old enough to go still is, unless it has gone.
DoomedStayOld == \A w \in Worker : worker[w].doomed \cap DOMAIN runs \subseteq OldIn(runs)

Retention == WorkersTyped /\ NumbersOwn /\ DoomedStayOld

LEMMA RetentionInit == Init => Retention
  BY DEF Init, Retention, WorkersTyped, NumbersOwn, DoomedStayOld, Unborn, Rest, Stages

LEMMA BelowFinite ==
  ASSUME NEW n \in Nat, NEW S, S \subseteq 1..n
  PROVE  IsFiniteSet(S)
<1>1. IsFiniteSet(1..n)
  BY FS_Interval, 1 \in Int, n \in Int
<1> QED BY <1>1, FS_Subset

LEMMA RunsFinite == WorkersTyped => IsFiniteSet(DOMAIN runs)
  BY BelowFinite DEF WorkersTyped

\* Those that are old enough and stay when a worker deletes stay old enough.
LEMMA PruneKeepsOld ==
  ASSUME Retention, NEW w \in Worker, Prune(w)
  PROVE  OldIn(runs) \cap DOMAIN runs' \subseteq OldIn(runs')
<1> DEFINE D == worker[w].doomed
<1>1. runs' = [r \in DOMAIN runs \ D |-> runs[r]]
  BY DEF Prune, Run
<1>2. IsFiniteSet(DOMAIN runs) /\ now \in Nat /\ \A s \in DOMAIN runs : runs[s] \in 0..now
  BY RunsFinite DEF Retention, WorkersTyped
<1>3. D \cap DOMAIN runs \subseteq OldIn(runs)
  BY DEF Retention, DoomedStayOld
<1> SUFFICES ASSUME NEW r \in OldIn(runs), r \in DOMAIN runs' PROVE r \in OldIn(runs')
  OBVIOUS
<1>4. Cardinality({s \in DOMAIN runs \ D : runs[s] > runs[r]}) >= Keep
  BY <1>2, <1>3, NewerStay
<1>5. NewerIn(runs', r) = {s \in DOMAIN runs \ D : runs[s] > runs[r]}
  BY <1>1 DEF NewerIn
<1> QED BY <1>4, <1>5 DEF OldIn

\* Steps that leave the runs alone and give no worker another number or doom.
LEMMA QuietStep ==
  ASSUME Retention, NEW w \in Worker, UNCHANGED <<begun, runs>>, now' \in Nat, now' >= now,
         NEW e \in [stage: Stages, run: Nat, started: Nat, doomed: SUBSET Nat],
         worker' = [worker EXCEPT ![w] = e],
         e.run <= begun, e.started <= now', e.doomed \subseteq worker[w].doomed,
         e.stage \in {"reconciling", "persisting"} => Unborn(w) /\ e.run = worker[w].run
  PROVE  Retention'
<1> USE DEF Retention
<1>1. WorkersTyped'
  BY DEF WorkersTyped
<1>2. \A v \in Worker : worker'[v] = IF v = w THEN e ELSE worker[v]
  BY DEF WorkersTyped
<1>3. \A v \in Worker : /\ worker'[v].doomed \subseteq worker[v].doomed
                        /\ Unborn(v)' => Unborn(v) /\ worker'[v].run = worker[v].run
  BY <1>2 DEF Unborn
<1>4. NumbersOwn'
  BY <1>3 DEF NumbersOwn
<1>5. DoomedStayOld'
  BY <1>3 DEF DoomedStayOld
<1> QED BY <1>1, <1>4, <1>5

LEMMA RetentionStep == Retention /\ [Next]_vars => Retention'
<1> SUFFICES ASSUME Retention, WorkersTyped, NumbersOwn, DoomedStayOld, [Next]_vars
             PROVE  Retention'
  BY DEF Retention
<1>1. CASE \E w \in Worker : Begin(w)
  <2>1. PICK w \in Worker : Begin(w)
    BY <1>1
  <2> DEFINE e == [Rest EXCEPT !.stage = "reconciling", !.run = begun + 1]
  <2>0. begun + 1 \in Nat
    BY DEF WorkersTyped
  <2>2. /\ begun' = begun + 1 /\ worker' = [worker EXCEPT ![w] = e]
        /\ UNCHANGED <<runs, now>>
    BY <2>1 DEF Begin
  <2>3. /\ e \in [stage: Stages, run: Nat, started: Nat, doomed: SUBSET Nat]
        /\ e.run = begun + 1 /\ e.started = 0 /\ e.doomed = {} /\ e.stage = "reconciling"
    BY <2>0 DEF Rest, Stages
  <2> HIDE DEF e
  <2>5. \A v \in Worker : worker'[v] = IF v = w THEN e ELSE worker[v]
    BY <2>2 DEF WorkersTyped
  <2>4. WorkersTyped'
    <3>1. worker' \in [Worker -> [stage: Stages, run: Nat, started: Nat, doomed: SUBSET Nat]]
      BY <2>2, <2>3 DEF WorkersTyped
    <3>2. begun' \in Nat /\ now' \in Nat /\ 1..begun \subseteq 1..begun'
      BY <2>2 DEF WorkersTyped
    <3>3. \A v \in Worker : /\ worker'[v].run <= begun' /\ worker'[v].started <= now'
                            /\ worker'[v].doomed \subseteq 1..begun'
      BY <2>2, <2>3, <2>5, <3>2 DEF WorkersTyped
    <3> QED BY <2>2, <3>1, <3>2, <3>3 DEF WorkersTyped
  <2>6. \A v \in Worker : worker'[v].doomed \subseteq worker[v].doomed
    BY <2>3, <2>5
  <2>7. \A v \in Worker : worker[v].run <= begun /\ begun + 1 \notin worker[v].doomed
    BY DEF WorkersTyped
  <2>8. begun + 1 \notin DOMAIN runs
    BY DEF WorkersTyped
  <2>9. \A v \in Worker : IF v = w THEN worker'[v].run = begun + 1
                          ELSE worker'[v].run = worker[v].run /\ (Unborn(v)' => Unborn(v))
    BY <2>3, <2>5 DEF Unborn
  <2>10. NumbersOwn'
    <3> SUFFICES ASSUME NEW v \in Worker, Unborn(v)'
                 PROVE  /\ worker'[v].run \in 1..begun + 1 /\ worker'[v].run \notin DOMAIN runs
                        /\ \A u \in Worker : /\ worker'[v].run \notin worker'[u].doomed
                                             /\ u # v /\ Unborn(u)' => worker'[u].run # worker'[v].run
      BY <2>2 DEF NumbersOwn
    <3>1. \A u \in Worker : worker[u].run \in Nat /\ begun \in Nat
      BY DEF WorkersTyped
    <3>2. CASE v = w
      BY <3>1, <3>2, <2>6, <2>7, <2>8, <2>9
    <3>3. CASE v # w
      BY <3>1, <3>3, <2>6, <2>7, <2>9 DEF NumbersOwn
    <3> QED BY <3>2, <3>3
  <2>11. DoomedStayOld'
    BY <2>2, <2>6 DEF DoomedStayOld
  <2> QED BY <2>4, <2>10, <2>11 DEF Retention
<1>2. CASE \E w \in Worker : Summarise(w)
  <2>1. PICK w \in Worker : Summarise(w)
    BY <1>2
  <2> DEFINE e == [worker[w] EXCEPT !.stage = "persisting", !.started = now + 1]
  <2>0. now + 1 \in Nat /\ worker[w] \in [stage: Stages, run: Nat, started: Nat, doomed: SUBSET Nat]
    BY DEF WorkersTyped
  <2>2. /\ now' = now + 1 /\ UNCHANGED <<begun, runs>> /\ Unborn(w)
        /\ worker' = [worker EXCEPT ![w] = e]
    BY <2>1 DEF Summarise, Unborn, WorkersTyped
  <2>3. worker[w].run <= begun /\ now \in Nat /\ now' \in Nat /\ now' >= now
    BY <2>2 DEF WorkersTyped
  <2>4. /\ e \in [stage: Stages, run: Nat, started: Nat, doomed: SUBSET Nat]
        /\ e.run = worker[w].run /\ e.started = now + 1 /\ e.doomed = worker[w].doomed
    BY <2>0 DEF Stages
  <2> HIDE DEF e
  <2>5. e.run <= begun /\ e.started <= now' /\ e.doomed \subseteq worker[w].doomed
    BY <2>2, <2>3, <2>4
  <2> QED BY <2>2, <2>3, <2>4, <2>5, QuietStep
<1>3. CASE \E w \in Worker : Commit(w)
  <2>1. PICK w \in Worker : Commit(w)
    BY <1>3
  <2> DEFINE n == worker[w].run
             e == [worker[w] EXCEPT !.stage = "committed"]
  <2>2. /\ UNCHANGED <<begun, now>> /\ Unborn(w)
        /\ worker' = [worker EXCEPT ![w] = e]
        /\ runs' = [s \in DOMAIN runs \cup {n} |->
                      IF s = n THEN worker[w].started ELSE runs[s]]
    BY <2>1 DEF Commit, Unborn, Run, WorkersTyped
  <2>3. /\ e \in [stage: Stages, run: Nat, started: Nat, doomed: SUBSET Nat]
        /\ e.run = n /\ e.started = worker[w].started /\ e.doomed = worker[w].doomed
        /\ e.stage = "committed"
    BY DEF WorkersTyped, Stages
  <2>4. /\ DOMAIN runs' = DOMAIN runs \cup {n} /\ n \notin DOMAIN runs
        /\ \A s \in DOMAIN runs : runs'[s] = runs[s]
    BY <2>2 DEF NumbersOwn
  <2>5. \A v \in Worker : worker'[v] = IF v = w THEN e ELSE worker[v]
    BY <2>2 DEF WorkersTyped
  <2>6. \A v \in Worker : /\ worker'[v].doomed = worker[v].doomed
                          /\ worker'[v].run = worker[v].run
                          /\ Unborn(v)' => Unborn(v) /\ v # w
    BY <2>3, <2>5 DEF Unborn
  <2>7. n \in 1..begun
    BY <2>2 DEF NumbersOwn
  <2>8. WorkersTyped'
    <3>1. \A v \in Worker : worker'[v] \in [stage: Stages, run: Nat, started: Nat, doomed: SUBSET Nat]
      BY <2>3, <2>5 DEF WorkersTyped
    <3>2. worker' \in [Worker -> [stage: Stages, run: Nat, started: Nat, doomed: SUBSET Nat]]
      BY <2>2, <3>1 DEF WorkersTyped
    <3>3. \A r \in DOMAIN runs' : runs'[r] \in 0..now
      BY <2>2, <2>4 DEF WorkersTyped
    <3>4. \A v \in Worker : /\ worker'[v].run <= begun /\ worker'[v].started <= now
                            /\ worker'[v].doomed \subseteq 1..begun
      BY <2>3, <2>5 DEF WorkersTyped
    <3> QED BY <2>2, <2>4, <2>7, <3>2, <3>3, <3>4 DEF WorkersTyped
  <2>9. NumbersOwn'
    <3> SUFFICES ASSUME NEW v \in Worker, Unborn(v)'
                 PROVE  /\ worker'[v].run \in 1..begun /\ worker'[v].run \notin DOMAIN runs'
                        /\ \A u \in Worker : /\ worker'[v].run \notin worker'[u].doomed
                                             /\ u # v /\ Unborn(u)' => worker'[u].run # worker'[v].run
      BY <2>2 DEF NumbersOwn
    <3>1. Unborn(v) /\ v # w
      BY <2>6
    <3>2. worker[v].run # n
      BY <2>2, <3>1 DEF NumbersOwn
    <3> QED BY <2>4, <2>6, <3>1, <3>2 DEF NumbersOwn
  <2>10. DoomedStayOld'
    <3>1. IsFiniteSet(DOMAIN runs')
      BY <2>8, BelowFinite DEF WorkersTyped
    <3>2. OldIn(runs) \subseteq OldIn(runs')
      BY <2>4, <3>1, OneMore
    <3> SUFFICES ASSUME NEW v \in Worker PROVE worker'[v].doomed \cap DOMAIN runs' \subseteq OldIn(runs')
      BY DEF DoomedStayOld
    <3>3. n \notin worker[v].doomed
      BY <2>2 DEF NumbersOwn
    <3> QED BY <2>4, <2>6, <3>2, <3>3 DEF DoomedStayOld
  <2> QED BY <2>8, <2>9, <2>10 DEF Retention
<1>4. CASE \E w \in Worker : ReadRuns(w)
  <2>1. PICK w \in Worker : ReadRuns(w)
    BY <1>4
  <2>2. CASE Doomed = {}
    <3>1. /\ UNCHANGED <<begun, runs, now>>
          /\ worker' = [worker EXCEPT ![w] = Rest]
      BY <2>1, <2>2 DEF ReadRuns
    <3>2. /\ Rest \in [stage: Stages, run: Nat, started: Nat, doomed: SUBSET Nat]
          /\ Rest.run = 0 /\ Rest.started = 0 /\ Rest.doomed = {} /\ Rest.stage = "idle"
      BY DEF Rest, Stages
    <3>3. 0 <= begun /\ 0 <= now' /\ now' \in Nat /\ now' >= now
      BY <3>1 DEF WorkersTyped
    <3> QED BY <3>1, <3>2, <3>3, QuietStep
  <2>3. CASE Doomed # {}
    <3> DEFINE e == [worker[w] EXCEPT !.stage = "pruning", !.doomed = Doomed]
    <3>0. worker[w] \in [stage: Stages, run: Nat, started: Nat, doomed: SUBSET Nat]
      BY DEF WorkersTyped
    <3>1. /\ UNCHANGED <<begun, runs, now>>
          /\ worker' = [worker EXCEPT ![w] = e]
      BY <2>1, <2>3 DEF ReadRuns, WorkersTyped
    <3>2. Doomed \subseteq DOMAIN runs /\ Doomed = OldIn(runs) /\ Doomed \subseteq Nat
      BY DoomedIsOld DEF OldIn, WorkersTyped
    <3>3. /\ e \in [stage: Stages, run: Nat, started: Nat, doomed: SUBSET Nat]
          /\ e.run = worker[w].run /\ e.started = worker[w].started /\ e.doomed = Doomed
          /\ e.stage = "pruning"
      BY <3>0, <3>2 DEF Stages
    <3> HIDE DEF e
    <3>4. \A v \in Worker : worker'[v] = IF v = w THEN e ELSE worker[v]
      BY <3>1 DEF WorkersTyped
    <3>5. WorkersTyped'
      BY <3>1, <3>2, <3>3, <3>4 DEF WorkersTyped
    <3>6. NumbersOwn'
      BY <3>1, <3>2, <3>3, <3>4 DEF NumbersOwn, Unborn
    <3>7. DoomedStayOld'
      BY <3>1, <3>2, <3>3, <3>4 DEF DoomedStayOld
    <3> QED BY <3>5, <3>6, <3>7 DEF Retention
  <2> QED BY <2>2, <2>3
<1>5. CASE \E w \in Worker : Prune(w)
  <2>1. PICK w \in Worker : Prune(w)
    BY <1>5
  <2> DEFINE D == worker[w].doomed
  <2>2. /\ UNCHANGED <<begun, now>>
        /\ worker' = [worker EXCEPT ![w] = Rest]
        /\ runs' = [r \in DOMAIN runs \ D |-> runs[r]]
    BY <2>1 DEF Prune, Run
  <2>3. DOMAIN runs' = DOMAIN runs \ D /\ \A r \in DOMAIN runs' : runs'[r] = runs[r]
    BY <2>2
  <2>4. \A v \in Worker : worker'[v] = IF v = w THEN Rest ELSE worker[v]
    BY <2>2 DEF WorkersTyped
  <2>5. /\ Rest \in [stage: Stages, run: Nat, started: Nat, doomed: SUBSET Nat]
        /\ Rest.run = 0 /\ Rest.started = 0 /\ Rest.doomed = {} /\ Rest.stage = "idle"
    BY DEF Rest, Stages
  <2>6. WorkersTyped'
    <3>1. worker' \in [Worker -> [stage: Stages, run: Nat, started: Nat, doomed: SUBSET Nat]]
      BY <2>2, <2>5 DEF WorkersTyped
    <3> QED BY <2>2, <2>3, <2>4, <2>5, <3>1 DEF WorkersTyped
  <2>7. NumbersOwn'
    BY <2>2, <2>3, <2>4, <2>5 DEF NumbersOwn, Unborn
  <2>8. DoomedStayOld'
    <3>1. OldIn(runs) \cap DOMAIN runs' \subseteq OldIn(runs')
      BY <2>3, PruneKeepsOld, <2>1
    <3> SUFFICES ASSUME NEW v \in Worker PROVE worker'[v].doomed \cap DOMAIN runs' \subseteq OldIn(runs')
      BY DEF DoomedStayOld
    <3> QED BY <2>3, <2>4, <2>5, <3>1 DEF DoomedStayOld
  <2> QED BY <2>6, <2>7, <2>8 DEF Retention
<1>6. CASE \E w \in Worker : Crash(w)
  <2>1. PICK w \in Worker : Crash(w)
    BY <1>6
  <2>2. UNCHANGED <<begun, runs, now>> /\ worker' = [worker EXCEPT ![w] = Rest]
    BY <2>1 DEF Crash
  <2>3. /\ Rest \in [stage: Stages, run: Nat, started: Nat, doomed: SUBSET Nat]
        /\ Rest.run = 0 /\ Rest.started = 0 /\ Rest.doomed = {} /\ Rest.stage = "idle"
    BY DEF Rest, Stages
  <2>4. 0 <= begun /\ 0 <= now' /\ now' \in Nat /\ now' >= now
    BY <2>2 DEF WorkersTyped
  <2> QED BY <2>2, <2>3, <2>4, QuietStep
<1>7. CASE UNCHANGED <<begun, runs, worker, now>>
  <2>1. WorkersTyped'
    BY <1>7 DEF WorkersTyped
  <2>2. NumbersOwn'
    BY <1>7 DEF NumbersOwn, Unborn
  <2>3. DoomedStayOld'
    BY <1>7 DEF DoomedStayOld
  <2> QED BY <2>1, <2>2, <2>3 DEF Retention
<1>8. CASE \E d \in Desk : Load(d) \/ Count(d) \/ CommitDecision(d) \/ FailDecision(d)
  BY <1>7, <1>8 DEF Load, Count, CommitDecision, FailDecision, DeskOnly
<1>9. CASE UNCHANGED vars
  BY <1>7, <1>9 DEF vars
<1> QED BY <1>1, <1>2, <1>3, <1>4, <1>5, <1>6, <1>8, <1>9 DEF Next

\* The invariant behind retention: runs are numbered apart, and whatever a process
\* has read as old enough to go still has as many newer runs as are to be kept.
THEOREM RetentionHolds == Spec => []Retention
<1> QED BY RetentionInit, RetentionStep, PTL DEF Spec

\* For any number of processes, runs and decisions: a run goes from the database
\* only when as many newer ones stay as prune_runs is told to keep.
THEOREM KeepsNewest == Spec => NewestKept
<1>1. Retention /\ [Next]_vars =>
        [\A r \in Run : r \in DOMAIN runs' \/
           Cardinality({s \in DOMAIN runs' : runs'[s] > runs[r]}) >= Keep]_vars
  <2> SUFFICES ASSUME Retention, Next, NEW r \in Run, r \notin DOMAIN runs'
               PROVE  Cardinality({s \in DOMAIN runs' : runs'[s] > runs[r]}) >= Keep
    OBVIOUS
  <2>1. r \in DOMAIN runs /\ ~ (DOMAIN runs \subseteq DOMAIN runs')
    BY DEF Run
  <2>2. PICK w \in Worker : Prune(w)
    <3>1. ASSUME NEW w \in Worker, Begin(w) \/ Summarise(w) \/ ReadRuns(w) \/ Crash(w) PROVE FALSE
      BY <2>1, <3>1 DEF Begin, Summarise, ReadRuns, Crash
    <3>2. ASSUME NEW w \in Worker, Commit(w) PROVE FALSE
      BY <2>1, <3>2 DEF Commit, Run
    <3>3. ASSUME NEW d \in Desk, Load(d) \/ Count(d) \/ CommitDecision(d) \/ FailDecision(d)
          PROVE  FALSE
      BY <2>1, <3>3 DEF DeskOnly, Load, Count, CommitDecision, FailDecision
    <3> QED BY <3>1, <3>2, <3>3 DEF Next
  <2> DEFINE D == worker[w].doomed
  <2>3. runs' = [s \in DOMAIN runs \ D |-> runs[s]]
    BY <2>2 DEF Prune, Run
  <2>4. r \in D \cap DOMAIN runs /\ D \cap DOMAIN runs \subseteq OldIn(runs)
    BY <2>1, <2>3 DEF Retention, DoomedStayOld
  <2>5. Cardinality({s \in DOMAIN runs \ D : runs[s] > runs[r]}) >= Keep
    <3> HIDE DEF D
    <3>1. now \in Nat /\ (\A s \in DOMAIN runs : runs[s] \in 0..now) /\ WorkersTyped
      BY DEF Retention, WorkersTyped
    <3>2. IsFiniteSet(DOMAIN runs)
      BY <3>1, RunsFinite
    <3>3. r \in OldIn(runs)
      BY <2>4
    <3> QED BY <2>4, <3>1, <3>2, <3>3, NewerStay
  <2>6. {s \in DOMAIN runs' : runs'[s] > runs[r]} = {s \in DOMAIN runs \ D : runs[s] > runs[r]}
    BY <2>3
  <2> QED BY <2>5, <2>6
<1> QED BY <1>1, RetentionHolds, PTL DEF Spec, NewestKept
=============================================================================
