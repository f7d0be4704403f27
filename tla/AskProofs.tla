----------------------------- MODULE AskProofs -----------------------------
(***************************************************************************)
(* The budget of a day, for any number of handlers and questions: what has *)
(* been paid on it together with what may still be paid never exceeds what *)
(* was claimed.                                                            *)
(***************************************************************************)
EXTENDS Ask, FiniteSetTheorems, TLAPS

Days == {0, 1}

AskStages == {"free", "counting", "admitted", "claiming", "allowed", "exhausted", "asking"}

\* The handlers that may spend a call of the day and have not yet.
Holding(d) == {h \in Handler : handler[h].stage = "allowed" /\ handler[h].day = d}

Spent(d) == paid[d] + Cardinality(Holding(d))

AskTyped ==
  /\ clock \in Nat /\ modelUsed \in Nat /\ modelDay \in Days \cup {NoDay}
  /\ late \in BOOLEAN
  /\ paid \in [Days -> Nat]
  /\ handler \in [Handler -> [stage: AskStages, client: Client \cup {NoClient}, now: Nat, day: Days]]
  /\ \A d \in Days : IsFiniteSet(Holding(d))

\* The budget is of today or of the day before; what is spent was claimed, and
\* nothing of a day nobody has claimed on.
Claimed ==
  late \/
    /\ modelDay \in Days => modelDay <= DayAt(clock)
    /\ \A d \in Days :
         /\ Spent(d) <= ModelPerDay
         /\ modelDay = d => Spent(d) <= modelUsed
         /\ modelDay = NoDay \/ (modelDay \in Days /\ modelDay < d) => Spent(d) = 0

Accounts == AskTyped /\ Claimed

LEMMA DayType == \A t \in Nat : DayAt(t) \in Days
  BY DEF DayAt, Days

LEMMA SpentType == AskTyped => \A d \in Days : Spent(d) \in Nat
<1> SUFFICES ASSUME AskTyped, NEW d \in Days PROVE Spent(d) \in Nat
  OBVIOUS
<1>1. Cardinality(Holding(d)) \in Nat
  BY FS_CardinalityType DEF AskTyped
<1> QED BY <1>1 DEF AskTyped, Spent

LEMMA AccountsInit == Init => Accounts
<1> SUFFICES ASSUME Init PROVE Accounts
  OBVIOUS
<1>1. \A d \in Days : Holding(d) = {}
  BY DEF Init, Holding, Free
<1>2. \A d \in Days : IsFiniteSet(Holding(d)) /\ Cardinality(Holding(d)) = 0
  BY <1>1, FS_EmptySet
<1>3. AskTyped
  BY <1>2 DEF Init, LimiterInit, AskTyped, Free, AskStages, Days
<1>4. \A d \in Days : Spent(d) = 0
  BY <1>2 DEF Init, Spent, Days
<1>5. Claimed
  BY <1>4, AskLimiterAssumption DEF Init, LimiterInit, Claimed, Days
<1> QED BY <1>3, <1>5 DEF Accounts

HandlerType ==
  [Handler -> [stage: AskStages, client: Client \cup {NoClient}, now: Nat, day: Days]]

\* Steps of one handler on which it does not come to hold a claim.
LEMMA NoNewHolder ==
  ASSUME AskTyped, NEW h \in Handler, handler' \in HandlerType,
         \A v \in Handler \ {h} : handler'[v] = handler[v],
         handler'[h].stage # "allowed"
  PROVE  \A d \in Days : IsFiniteSet(Holding(d)') /\ Holding(d)' = Holding(d) \ {h}
<1> SUFFICES ASSUME NEW d \in Days
             PROVE  IsFiniteSet(Holding(d)') /\ Holding(d)' = Holding(d) \ {h}
  OBVIOUS
<1>1. Holding(d)' = Holding(d) \ {h}
  BY DEF Holding
<1>2. IsFiniteSet(Holding(d))
  BY DEF AskTyped
<1> QED BY <1>1, <1>2, FS_RemoveElement

\* If it pays nothing either, the accounts hold.
LEMMA NothingPaid ==
  ASSUME Accounts, NEW h \in Handler, handler' \in HandlerType,
         \A v \in Handler \ {h} : handler'[v] = handler[v],
         handler'[h].stage # "allowed",
         UNCHANGED <<clock, modelUsed, modelDay, late, paid>>
  PROVE  Accounts'
<1>1. AskTyped /\ Claimed
  BY DEF Accounts
<1>2. \A d \in Days : IsFiniteSet(Holding(d)') /\ Holding(d)' = Holding(d) \ {h}
  BY <1>1, NoNewHolder
<1>3. AskTyped'
  BY <1>1, <1>2 DEF AskTyped, HandlerType
<1>4. \A d \in Days : Cardinality(Holding(d)') <= Cardinality(Holding(d))
  <2> SUFFICES ASSUME NEW d \in Days PROVE Cardinality(Holding(d)') <= Cardinality(Holding(d))
    OBVIOUS
  <2>1. IsFiniteSet(Holding(d)) /\ Holding(d)' \in SUBSET Holding(d)
    BY <1>1, <1>2 DEF AskTyped
  <2> QED BY <2>1, FS_Subset
<1>5. \A d \in Days : Cardinality(Holding(d)) \in Nat /\ Cardinality(Holding(d)') \in Nat
  BY <1>1, <1>2, FS_CardinalityType DEF AskTyped
<1>6. \A d \in Days : Spent(d)' <= Spent(d) /\ Spent(d) \in Nat /\ Spent(d)' \in Nat
  BY <1>1, <1>4, <1>5 DEF Spent, AskTyped
<1>7. Claimed'
  BY <1>1, <1>6, AskLimiterAssumption DEF Claimed, AskTyped, Days
<1> QED BY <1>3, <1>7 DEF Accounts

\* A handler that holds a claim of its day pays at most once for it.
LEMMA Pays == Accounts /\ (\E h \in Handler : AskModel(h)) => Accounts'
<1> SUFFICES ASSUME Accounts, NEW h \in Handler, AskModel(h) PROVE Accounts'
  OBVIOUS
<1> DEFINE e == handler[h].day
<1>1. AskTyped /\ Claimed
  BY DEF Accounts
<1>2. /\ h \in Holding(e) /\ e \in Days
      /\ handler' \in HandlerType /\ handler'[h].stage # "allowed"
      /\ \A v \in Handler \ {h} : handler'[v] = handler[v]
      /\ paid' \in [Days -> Nat]
      /\ paid'[e] \in {paid[e], paid[e] + 1}
      /\ \A d \in Days \ {e} : paid'[d] = paid[d]
      /\ UNCHANGED <<clock, modelUsed, modelDay, late>>
  BY <1>1 DEF AskModel, Goes, AskTyped, Holding, HandlerType, AskStages, limiterVars
<1> HIDE DEF e
<1>3. \A d \in Days : IsFiniteSet(Holding(d)') /\ Holding(d)' = Holding(d) \ {h}
  BY <1>1, <1>2, NoNewHolder
<1>4. AskTyped'
  BY <1>1, <1>2, <1>3 DEF AskTyped, HandlerType
<1>5. \A d \in Days : IsFiniteSet(Holding(d))
  BY <1>1 DEF AskTyped
<1>6. \A d \in Days : /\ Cardinality(Holding(d)) \in Nat
                      /\ Cardinality(Holding(d)') =
                           IF h \in Holding(d) THEN Cardinality(Holding(d)) - 1
                           ELSE Cardinality(Holding(d))
  BY <1>3, <1>5, FS_RemoveElement, FS_CardinalityType
<1>7. \A d \in Days : Cardinality(Holding(d)') \in Nat
  BY <1>3, FS_CardinalityType
<1>8. \A d \in Days : Spent(d)' <= Spent(d) /\ Spent(d) \in Nat /\ Spent(d)' \in Nat
  BY <1>1, <1>2, <1>6, <1>7 DEF Spent, AskTyped
<1>9. Claimed'
  BY <1>1, <1>2, <1>8, AskLimiterAssumption DEF Claimed, AskTyped, Days
<1> QED BY <1>4, <1>9 DEF Accounts

\* A claim adds to what may be spent what it adds to the calls used.
LEMMA Claims == Accounts /\ (\E h \in Handler : ClaimCall(h)) => Accounts'
<1> SUFFICES ASSUME Accounts, NEW h \in Handler, ClaimCall(h) PROVE Accounts'
  OBVIOUS
<1>1. AskTyped /\ Claimed
  BY DEF Accounts
<1>0. PICK today \in Days : today = handler[h].day
  BY <1>1 DEF AskTyped
<1> DEFINE used == IF modelDay = today THEN modelUsed ELSE 0
<1>2. PICK granted \in BOOLEAN : Claim(today, granted) /\ Goes(h, IF granted THEN "allowed" ELSE "exhausted")
  BY <1>0 DEF ClaimCall
<1>3. /\ used \in Nat
      /\ granted = (used < ModelPerDay) /\ modelDay' = today
      /\ modelUsed' = IF granted THEN used + 1 ELSE used
      /\ UNCHANGED <<clock, paid>>
      /\ late' = (late \/ today # DayAt(clock)) /\ late' \in BOOLEAN
  BY <1>0, <1>1, <1>2 DEF Claim, ClaimCall, AskTyped
<1>4. /\ handler' \in HandlerType
      /\ \A v \in Handler \ {h} : handler'[v] = handler[v]
      /\ handler[h].stage = "claiming" /\ handler'[h].day = today
      /\ handler'[h].stage = IF granted THEN "allowed" ELSE "exhausted"
  BY <1>0, <1>1, <1>2 DEF ClaimCall, Goes, AskTyped, HandlerType, AskStages
<1> HIDE DEF used
<1>5. \A d \in Days : /\ IsFiniteSet(Holding(d)) /\ h \notin Holding(d)
                      /\ Holding(d)' = IF granted /\ d = today THEN Holding(d) \cup {h}
                                       ELSE Holding(d)
  BY <1>1, <1>4 DEF AskTyped, Holding
<1>6. \A d \in Days : /\ IsFiniteSet(Holding(d)')
                      /\ Cardinality(Holding(d)') = IF granted /\ d = today
                           THEN Cardinality(Holding(d)) + 1 ELSE Cardinality(Holding(d))
                      /\ Cardinality(Holding(d)) \in Nat
  <2> SUFFICES ASSUME NEW d \in Days
               PROVE  /\ IsFiniteSet(Holding(d)')
                      /\ Cardinality(Holding(d)') = IF granted /\ d = today
                           THEN Cardinality(Holding(d)) + 1 ELSE Cardinality(Holding(d))
                      /\ Cardinality(Holding(d)) \in Nat
    OBVIOUS
  <2>1. IsFiniteSet(Holding(d)) /\ h \notin Holding(d) /\ Cardinality(Holding(d)) \in Nat
    BY <1>5, FS_CardinalityType
  <2>2. /\ IsFiniteSet(Holding(d) \cup {h})
        /\ Cardinality(Holding(d) \cup {h}) = Cardinality(Holding(d)) + 1
    BY <2>1, FS_AddElement
  <2>3. CASE granted /\ d = today
    BY <1>5, <2>1, <2>2, <2>3
  <2>4. CASE ~(granted /\ d = today)
    BY <1>5, <2>1, <2>4
  <2> QED BY <2>3, <2>4
<1>7. AskTyped'
  BY <1>1, <1>3, <1>4, <1>6 DEF AskTyped, HandlerType
<1>8. \A d \in Days : /\ Spent(d) \in Nat
                      /\ Spent(d)' = IF granted /\ d = today THEN Spent(d) + 1 ELSE Spent(d)
  BY <1>1, <1>3, <1>6 DEF Spent, AskTyped
<1>9. ASSUME ~late' PROVE Claimed'
  <2>1. ~late /\ today = DayAt(clock)
    BY <1>3, <1>9
  <2>2. modelDay # today => modelDay = NoDay \/ (modelDay \in Days /\ modelDay < today)
    <3>1. modelDay \in Days => modelDay <= today
      BY <1>1, <2>1 DEF Claimed
    <3>2. CASE modelDay \in Days
      BY <1>0, <3>1, <3>2 DEF Days
    <3>3. CASE modelDay = NoDay
      BY <3>3
    <3>4. modelDay \in Days \cup {NoDay}
      BY <1>1 DEF AskTyped
    <3> QED BY <3>2, <3>3, <3>4
  <2>3. Spent(today) <= used
    BY <1>1, <1>3, <2>1, <2>2 DEF Claimed, used
  <2>4. Spent(today)' <= modelUsed' /\ Spent(today)' <= ModelPerDay
    <3>1. Spent(today) \in Nat /\ Spent(today) <= ModelPerDay
      BY <1>1, <1>8, <2>1 DEF Claimed
    <3>2. Spent(today)' = IF granted THEN Spent(today) + 1 ELSE Spent(today)
      BY <1>8
    <3>3. CASE granted
      <4>1. used < ModelPerDay /\ modelUsed' = used + 1 /\ used \in Nat
        BY <1>3, <3>3
      <4>2. Spent(today)' = Spent(today) + 1
        BY <3>2, <3>3
      <4> QED BY <2>3, <3>1, <4>1, <4>2, AskLimiterAssumption
    <3>4. CASE ~granted
      <4>1. modelUsed' = used /\ Spent(today)' = Spent(today)
        BY <1>3, <3>2, <3>4
      <4> QED BY <2>3, <3>1, <4>1
    <3> QED BY <3>3, <3>4
  <2>5. \A d \in Days \ {today} : Spent(d)' = Spent(d) /\ Spent(d) <= ModelPerDay
    BY <1>1, <1>8, <2>1 DEF Claimed
  <2>6. \A d \in Days : today < d => Spent(d)' = 0
    <3> SUFFICES ASSUME NEW d \in Days, today < d PROVE Spent(d)' = 0
      OBVIOUS
    <3>1. modelDay = NoDay \/ (modelDay \in Days /\ modelDay < d)
      BY <1>1, <1>3, <2>2 DEF AskTyped, Days
    <3>2. Spent(d) = 0 /\ d # today
      BY <1>1, <1>3, <2>1, <3>1 DEF Claimed, Days
    <3> QED BY <2>5, <3>2
  <2>7. modelDay' \in Days /\ modelDay' # NoDay /\ modelDay' <= DayAt(clock)'
    BY <1>3, <2>1, AskLimiterAssumption DEF Days, DayAt
  <2>8. \A d \in Days : /\ Spent(d)' <= ModelPerDay
                        /\ modelDay' = d => Spent(d)' <= modelUsed'
                        /\ modelDay' < d => Spent(d)' = 0
    BY <1>3, <2>4, <2>5, <2>6
  <2> QED BY <2>7, <2>8 DEF Claimed
<1>10. Claimed'
  BY <1>9 DEF Claimed
<1> QED BY <1>7, <1>10 DEF Accounts

LEMMA Ticks == Accounts /\ Tick => Accounts'
<1> SUFFICES ASSUME Accounts, Tick PROVE Accounts'
  OBVIOUS
<1>1. AskTyped /\ Claimed
  BY DEF Accounts
<1>2. /\ clock' = clock + 1 /\ clock \in Nat /\ clock' \in Nat
      /\ UNCHANGED <<modelDay, modelUsed, handler, paid, late>>
  BY <1>1 DEF Tick, limiterVars, AskTyped
<1>3. \A d \in Days : Holding(d)' = Holding(d) /\ Spent(d)' = Spent(d)
  BY <1>2 DEF Holding, Spent
<1>4. DayAt(clock) <= DayAt(clock') /\ DayAt(clock) \in Days /\ DayAt(clock') \in Days
  BY <1>2, AskAssumption DEF DayAt, Days
<1>5. AskTyped'
  BY <1>1, <1>2, <1>3 DEF AskTyped
<1>6. Claimed'
  BY <1>1, <1>2, <1>3, <1>4 DEF Claimed, Days
<1> QED BY <1>5, <1>6 DEF Accounts

LEMMA AccountsStep == Accounts /\ [Next]_vars => Accounts'
<1> SUFFICES ASSUME Accounts, [Next]_vars PROVE Accounts'
  OBVIOUS
<1>0. AskTyped
  BY DEF Accounts
<1>1. ASSUME NEW h \in Handler, Arrive(h) PROVE Accounts'
  <2>1. PICK c \in Client :
          handler' = [handler EXCEPT ![h] = [stage |-> "counting", client |-> c, now |-> clock,
                                             day |-> 0]]
    BY <1>1 DEF Arrive
  <2>2. /\ handler' \in HandlerType /\ handler'[h].stage # "allowed"
        /\ \A v \in Handler \ {h} : handler'[v] = handler[v]
    BY <1>0, <2>1 DEF AskTyped, HandlerType, AskStages, Days
  <2> QED BY <1>1, <2>2, NothingPaid DEF Arrive, limiterVars
<1>2. ASSUME NEW h \in Handler, Leaves(h), UNCHANGED <<clock, modelUsed, modelDay, late, paid>>
      PROVE  Accounts'
  <2>1. /\ handler' \in HandlerType /\ handler'[h].stage # "allowed"
        /\ \A v \in Handler \ {h} : handler'[v] = handler[v]
    BY <1>0, <1>2 DEF Leaves, Free, AskTyped, HandlerType, AskStages, Days
  <2> QED BY <1>2, <2>1, NothingPaid
<1>3. ASSUME NEW h \in Handler, Admit(h) PROVE Accounts'
  <2>1. /\ handler' \in HandlerType /\ handler'[h].stage # "allowed"
        /\ \A v \in Handler \ {h} : handler'[v] = handler[v]
    BY <1>0, <1>3 DEF Admit, Free, AskTyped, HandlerType, AskStages, Days
  <2>2. UNCHANGED <<clock, modelUsed, modelDay, late, paid>>
    BY <1>3 DEF Admit, Check
  <2> QED BY <2>1, <2>2, NothingPaid
<1>4. ASSUME NEW h \in Handler, Refuse(h) PROVE Accounts'
  BY <1>2, <1>4 DEF Refuse, Check
<1>5. ASSUME NEW h \in Handler, ReadDate(h) PROVE Accounts'
  <2>1. DayAt(clock) \in Days
    BY <1>0, DayType DEF AskTyped
  <2>2. handler' \in HandlerType
    BY <1>0, <1>5, <2>1 DEF ReadDate, AskTyped, HandlerType, AskStages
  <2>3. /\ handler'[h].stage # "allowed"
        /\ \A v \in Handler \ {h} : handler'[v] = handler[v]
    BY <1>0, <1>5 DEF ReadDate, AskTyped
  <2> QED BY <1>5, <2>2, <2>3, NothingPaid DEF ReadDate, limiterVars
<1>6. ASSUME NEW h \in Handler, NoSuchRun(h) \/ AnswerForFree(h) \/ Answer(h) PROVE Accounts'
  BY <1>2, <1>6 DEF NoSuchRun, AnswerForFree, Answer, limiterVars
<1>7. CASE UNCHANGED <<clock, modelUsed, modelDay, late, paid, handler>>
  <2>1. \A d \in Days : Holding(d)' = Holding(d) /\ Spent(d)' = Spent(d)
    BY <1>7 DEF Holding, Spent
  <2>2. AskTyped'
    BY <1>0, <1>7, <2>1 DEF AskTyped
  <2>3. Claimed'
    BY <1>7, <2>1 DEF Accounts, Claimed, DayAt
  <2> QED BY <2>2, <2>3 DEF Accounts
<1>8. ASSUME NEW h \in Handler, Wait(h) PROVE Accounts'
  BY <1>7, <1>8 DEF Wait, limiterVars, endpointVars
<1>9. CASE UNCHANGED vars
  BY <1>7, <1>9 DEF vars, limiterVars
<1> QED
  BY <1>1, <1>3, <1>4, <1>5, <1>6, <1>8, <1>9, Pays, Claims, Ticks DEF Next

\* The invariant behind the budget: what a day has paid for and what its claims may
\* still pay for was claimed from it, and no claim is of a day to come.
THEOREM AccountsHold == Spec => []Accounts
<1> QED BY AccountsInit, AccountsStep, PTL DEF Spec

\* For any number of handlers, questions and clients the budget of a day is never
\* exceeded, unless somebody claims after midnight on the date before.
THEOREM BudgetHolds == Spec => []BudgetOfTheDay
<1>1. Accounts => BudgetOfTheDay
  <2> SUFFICES ASSUME Accounts, ~late, NEW d \in Days PROVE paid[d] <= ModelPerDay
    BY DEF BudgetOfTheDay, Days
  <2>1. Spent(d) <= ModelPerDay
    BY DEF Accounts, Claimed
  <2>2. paid[d] \in Nat /\ Cardinality(Holding(d)) \in Nat
    BY FS_CardinalityType DEF Accounts, AskTyped
  <2> QED BY <2>1, <2>2, AskLimiterAssumption DEF Spent
<1> QED BY <1>1, AccountsHold, PTL
=============================================================================
