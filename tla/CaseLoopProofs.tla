--------------------------- MODULE CaseLoopProofs ---------------------------
(***************************************************************************)
(* Theorems about CaseLoop for every set of keys, runs and resolves.       *)
(***************************************************************************)
EXTENDS CaseLoop, SequenceTheorems, TLAPS

\* The row a run writes for a case is a row, whatever the case.
LEMMA FreshType ==
  ASSUME NEW r \in Run, NEW status \in Status, NEW hypothesis \in BOOLEAN
  PROVE  Fresh(r, status, hypothesis) \in Row
BY DEF Fresh, Row, Actor

LEMMA InitialStatusType ==
  ASSUME NEW k, NEW hypothesis \in BOOLEAN
  PROVE  InitialStatus(k, hypothesis) \in Status \ {"detected", "resolved"}
BY DEF InitialStatus, Status

\* The history lines of a case are lines.
LEMMA NewsType ==
  ASSUME TypeOK, NEW r \in Run, NEW c \in Case
  PROVE  News(r, c) \in Seq(Event)
<1> c.key \in Key /\ c.row \in Row /\ c.row.status \in Status
  BY DEF Case, Row
<1>1. ASSUME ~Knows(r, c.key) PROVE News(r, c) \in Seq(Event)
  <2>1. Line("detected", "RULE", r, "none", c.row.status) \in Event
    BY DEF Line, Event, Actor
  <2>2. Line("proposed", "MODEL", r, "none", "none") \in Event
    BY DEF Line, Event, Actor
  <2>3. Proposal(r, c) \in Seq(Event)
    BY <2>2 DEF Proposal
  <2>4. QED
    BY <1>1, <2>1, <2>3 DEF News
<1>2. ASSUME Knows(r, c.key) PROVE News(r, c) \in Seq(Event)
  <2>1. previous[r][c.key].status \in Status
    BY <1>2 DEF Knows, TypeOK, Row
  <2>2. Line("status_changed", "RULE", r, previous[r][c.key].status, c.row.status) \in Event
    BY <2>1 DEF Line, Event, Actor
  <2>3. QED
    BY <1>2, <2>2 DEF News
<1>3. QED
  BY <1>1, <1>2

LEMMA MeetType ==
  ASSUME TypeOK, NEW r \in Run, NEW k \in Key, Meet(r, k), cases' \in [Run -> Seq(Case)]
  PROVE  TypeOK'
BY DEF Meet, TypeOK

LEMMA BuildType ==
  ASSUME TypeOK, NEW r \in Run, NEW k \in Key, NEW row \in Row, Build(r, k, row)
  PROVE  TypeOK'
<1>1. [key |-> k, row |-> row] \in Case
  BY DEF Case
<1>2. cases' \in [Run -> Seq(Case)]
  BY <1>1 DEF Build, TypeOK
<1>3. QED
  BY <1>2, MeetType DEF Build

LEMMA BuildCaseType ==
  ASSUME TypeOK, NEW r \in Run, BuildCase(r)
  PROVE  TypeOK'
<1>1. PICK k \in Key : \/ SkipClosed(r, k)
                       \/ CarrySettled(r, k)
                       \/ \E hypothesis \in BOOLEAN : Raise(r, k, hypothesis)
  BY DEF BuildCase
<1>2. CASE SkipClosed(r, k)
  BY <1>2, MeetType DEF SkipClosed, TypeOK
<1>3. CASE CarrySettled(r, k)
  <2>1. k \in DOMAIN previous[r]
    BY <1>3 DEF CarrySettled, Knows
  <2>2. previous[r][k] \in Row
    BY <2>1 DEF TypeOK
  <2>3. [previous[r][k] EXCEPT !.last_seen_run = r] \in Row
    BY <2>2 DEF Row, Actor
  <2>4. QED
    BY <1>3, <2>3, BuildType DEF CarrySettled
<1>4. ASSUME NEW hypothesis \in BOOLEAN, Raise(r, k, hypothesis) PROVE TypeOK'
  <2> DEFINE status == IF Knows(r, k) /\ previous[r][k].status # "detected"
                       THEN previous[r][k].status ELSE InitialStatus(k, hypothesis)
             first  == IF Knows(r, k) THEN previous[r][k].first_seen_run ELSE r
             row    == [Fresh(r, status, hypothesis) EXCEPT !.first_seen_run = first]
  <2>1. status \in Status
    BY InitialStatusType DEF Knows, TypeOK, Row
  <2>2. first \in Run
    BY DEF Knows, TypeOK, Row
  <2>3. row \in Row
    <3> HIDE DEF status, first
    <3> QED BY <2>1, <2>2, FreshType DEF Row
  <2>4. Build(r, k, row)
    BY <1>4 DEF Raise
  <2>5. QED
    BY <2>3, <2>4, BuildType
<1>5. QED
  BY <1>1, <1>2, <1>3, <1>4

LEMMA PersistCaseType ==
  ASSUME TypeOK, NEW r \in Run, PersistCase(r),
         \A k \in Key : Len(caseFile[k]) <= Len(draftFile[k])
  PROVE  /\ TypeOK'
         /\ \A k \in Key : Len(caseFile'[k]) <= Len(draftFile'[k])
<1> DEFINE c == Head(cases[r])
           k == c.key
<1>1. c \in Case /\ k \in Key /\ c.row \in Row /\ Tail(cases[r]) \in Seq(Case)
  <2>1. cases[r] \in Seq(Case) /\ cases[r] # << >>
    BY DEF PersistCase, TypeOK
  <2>2. c \in Case /\ Tail(cases[r]) \in Seq(Case)
    BY <2>1, HeadTailProperties
  <2>3. QED
    BY <2>2 DEF Case
<1>2. News(r, c) \in Seq(Event)
  BY <1>1, NewsType
<1> HIDE DEF c, k
<1>3. draftEvent' = [draftEvent EXCEPT ![k] = @ \o News(r, c)]
  BY DEF PersistCase, c, k
<1>4. draftEvent' \in [Key -> Seq(Event)]
  BY <1>1, <1>2, <1>3 DEF TypeOK
<1>5. /\ draftFile' = [draftFile EXCEPT ![k] =
            IF HasRow(r, k) THEN [@ EXCEPT ![Len(caseFile[k])] = c.row]
                            ELSE Append(@, c.row)]
      /\ cases' = [cases EXCEPT ![r] = Tail(@)]
      /\ UNCHANGED <<caseFile, caseEvent, lock, pc, previous, reported, selected>>
  BY DEF PersistCase, c, k
<1>6. /\ draftFile'[k] \in Seq(Row)
      /\ Len(draftFile[k]) <= Len(draftFile'[k])
  <2> draftFile[k] \in Seq(Row) /\ caseFile[k] \in Seq(Row)
    BY <1>1 DEF TypeOK
  <2>1. CASE HasRow(r, k)
    <3>1. Len(caseFile[k]) \in 1..Len(draftFile[k])
      BY <2>1, <1>1 DEF HasRow
    <3>2. draftFile'[k] = [draftFile[k] EXCEPT ![Len(caseFile[k])] = c.row]
      BY <2>1, <1>1, <1>5 DEF TypeOK
    <3>3. QED
      BY <3>1, <3>2, <1>1, ExceptSeq
  <2>2. CASE ~HasRow(r, k)
    <3>1. draftFile'[k] = Append(draftFile[k], c.row)
      BY <2>2, <1>1, <1>5 DEF TypeOK
    <3>2. QED
      BY <3>1, <1>1, AppendProperties
  <2>3. QED
    BY <2>1, <2>2
<1>7. draftFile' \in [Key -> Seq(Row)]
  BY <1>1, <1>5, <1>6 DEF TypeOK
<1>8. cases' \in [Run -> Seq(Case)]
  BY <1>1, <1>5 DEF TypeOK
<1>9. TypeOK'
  BY <1>4, <1>5, <1>7, <1>8 DEF TypeOK
<1>10. \A x \in Key : Len(caseFile'[x]) <= Len(draftFile'[x])
  <2> TAKE x \in Key
  <2>1. CASE x = k
    BY <2>1, <1>1, <1>5, <1>6 DEF TypeOK
  <2>2. CASE x # k
    BY <2>2, <1>1, <1>5 DEF TypeOK
  <2>3. QED
    BY <2>1, <2>2
<1>11. QED
  BY <1>9, <1>10

\* What the lock holder sees starts from what is committed.
DraftCovers ==
  lock # NoOne => \A k \in Key : Len(caseFile[k]) <= Len(draftFile[k])

\* The lock is held by the run that persists, and by no other.
LockOwned == \A r \in Run : pc[r] = "persisting" <=> lock = r

\* A resolve under way has read a row, and rows are never deleted.
HasSelected ==
  \A d \in Desk : pc[d] = "settling" =>
    selected[d] \in Selection /\ caseFile[selected[d].key] # << >>

TypeInv == TypeOK /\ DraftCovers /\ LockOwned /\ HasSelected

LEMMA TypeInvInit == Init => TypeInv
<1> SUFFICES ASSUME Init PROVE TypeInv
  OBVIOUS
<1> USE CaseLoopAssumption DEF Init
<1>1. NoRows \in [Key -> Seq(Row)] /\ NoRows \in [Key -> Seq(Event)]
  BY EmptySeq DEF NoRows
<1>2. TypeOK
  BY <1>1, EmptySeq DEF TypeOK, Actor
<1>3. DraftCovers /\ LockOwned /\ HasSelected
  BY DEF DraftCovers, LockOwned, HasSelected, Actor
<1>4. QED
  BY <1>2, <1>3 DEF TypeInv

LEMMA SettleType ==
  ASSUME TypeInv, NEW d \in Desk, Settle(d)
  PROVE  TypeInv'
<1> DEFINE k   == selected[d].key
           was == selected[d].status
           new == Settled(caseFile[k][1], was, d)
<1> USE DEF TypeInv
<1>1. k \in Key /\ was \in Status /\ caseFile[k] # << >>
  BY DEF Selection, HasSelected, Settle
<1>2. caseFile[k] \in Seq(Row) /\ caseFile[k] # << >> /\ 1 \in 1..Len(caseFile[k])
  BY <1>1 DEF TypeOK
<1>3. new \in Row
  <2>1. caseFile[k][1] \in Row
    BY <1>2, ElementOfSeq
  <2>2. QED
    BY <1>1, <2>1 DEF Row, Actor, Status, Settled
<1>4. Line("resolved", "HUMAN", d, was, "resolved") \in Event
  BY <1>1 DEF Line, Event, Actor, Status
<1> HIDE DEF k, was
<1>5. /\ caseFile' = [caseFile EXCEPT ![k] = [@ EXCEPT ![1] = new]]
      /\ caseEvent' = [caseEvent EXCEPT
           ![k] = Append(@, Line("resolved", "HUMAN", d, was, "resolved"))]
      /\ pc' = [pc EXCEPT ![d] = "done"]
      /\ lock = NoOne
      /\ UNCHANGED <<lock, draftFile, draftEvent, previous, reported, cases, selected>>
  BY DEF Settle, k, was
<1> HIDE DEF new
<1>7. [caseFile[k] EXCEPT ![1] = new] \in Seq(Row)
  BY <1>2, <1>3, ExceptSeq
<1>8. caseFile' \in [Key -> Seq(Row)]
  <2> caseFile \in [Key -> Seq(Row)]
    BY DEF TypeOK
  <2> QED BY <1>1, <1>5, <1>7
<1>9. caseEvent' \in [Key -> Seq(Event)]
  <2>1. Append(caseEvent[k], Line("resolved", "HUMAN", d, was, "resolved")) \in Seq(Event)
    BY <1>1, <1>4, AppendProperties DEF TypeOK
  <2>2. QED
    BY <1>1, <1>5, <2>1 DEF TypeOK
<1>10. TypeOK'
  BY <1>5, <1>8, <1>9 DEF TypeOK
<1>11. DraftCovers' /\ LockOwned'
  BY <1>5, CaseLoopAssumption DEF DraftCovers, LockOwned, TypeOK, Actor
<1>12. [caseFile[k] EXCEPT ![1] = new] # << >>
  BY <1>2, <1>3, ExceptSeq
<1>13. HasSelected'
  BY <1>1, <1>5, <1>12 DEF HasSelected, TypeOK, Selection
<1>14. QED
  BY <1>10, <1>11, <1>13

\* What the end of a run leaves behind.
LEMMA EndRunType ==
  ASSUME TypeOK, NEW r \in Run, NEW outcome \in {"done", "failed"}, EndRun(r, outcome)
  PROVE  /\ DOMAIN previous' = Run
         /\ \A x \in Run : /\ DOMAIN previous'[x] \subseteq Key
                           /\ \A k \in DOMAIN previous'[x] : previous'[x][k] \in Row
         /\ reported' \in [Run -> SUBSET Key]
         /\ cases' \in [Run -> Seq(Case)]
         /\ selected' = selected
         /\ pc' \in [Actor -> {"idle", "building", "persisting", "settling", "done", "failed"}]
         /\ pc' = [pc EXCEPT ![r] = outcome]
<1>1. << >> \in Seq(Case) /\ DOMAIN << >> = {}
  BY EmptySeq
<1>2. reported' \in [Run -> SUBSET Key] /\ cases' \in [Run -> Seq(Case)] /\ selected' = selected
  BY <1>1 DEF EndRun, TypeOK
<1>3. pc' \in [Actor -> {"idle", "building", "persisting", "settling", "done", "failed"}]
      /\ pc' = [pc EXCEPT ![r] = outcome]
  BY DEF EndRun, TypeOK
<1>4. previous' = [previous EXCEPT ![r] = << >>]
  BY DEF EndRun
<1>5. DOMAIN previous = Run
      /\ \A x \in Run : /\ DOMAIN previous[x] \subseteq Key
                        /\ \A k \in DOMAIN previous[x] : previous[x][k] \in Row
  BY DEF TypeOK
<1>6. DOMAIN previous' = Run
  BY <1>4, <1>5
<1>7. ASSUME NEW x \in Run
      PROVE  /\ DOMAIN previous'[x] \subseteq Key
             /\ \A k \in DOMAIN previous'[x] : previous'[x][k] \in Row
  <2>1. CASE x = r
    BY <2>1, <1>1, <1>4, <1>5
  <2>2. CASE x # r
    BY <2>2, <1>4, <1>5
  <2>3. QED
    BY <2>1, <2>2
<1>8. QED
  BY <1>2, <1>3, <1>6, <1>7

\* Every step keeps the type invariant and what it rests on.
LEMMA TypeInvStep == TypeInv /\ [Next]_vars => TypeInv'
<1> SUFFICES ASSUME TypeInv, [Next]_vars PROVE TypeInv'
  OBVIOUS
<1> USE CaseLoopAssumption DEF TypeInv
<1>1. ASSUME NEW r \in Run, LoadPrevious(r) PROVE TypeInv'
  <2>1. \A k \in Key : caseFile[k] # << >> => Last(caseFile[k]) \in Row
    BY ElementOfSeq DEF TypeOK, Last
  <2>2. TypeOK'
    BY <1>1, <2>1 DEF LoadPrevious, TypeOK, Actor
  <2>3. DraftCovers' /\ LockOwned' /\ HasSelected'
    BY <1>1 DEF LoadPrevious, DraftCovers, LockOwned, HasSelected, TypeOK, Actor
  <2>4. QED
    BY <2>2, <2>3
<1>2. ASSUME NEW r \in Run, BuildCase(r) PROVE TypeInv'
  <2>1. TypeOK'
    BY <1>2, BuildCaseType
  <2>2. UNCHANGED <<caseFile, draftFile, lock, pc, selected>>
    BY <1>2 DEF BuildCase, SkipClosed, CarrySettled, Raise, Build, Meet
  <2>3. QED
    BY <2>1, <2>2 DEF DraftCovers, LockOwned, HasSelected
<1>3. ASSUME NEW r \in Run, Flush(r) PROVE TypeInv'
  <2>1. TypeOK'
    BY <1>3 DEF Flush, TypeOK, Actor
  <2>2. DraftCovers'
    BY <1>3 DEF Flush, DraftCovers, TypeOK
  <2>3. LockOwned' /\ HasSelected'
    BY <1>3 DEF Flush, LockOwned, HasSelected, TypeOK, Actor
  <2>4. QED
    BY <2>1, <2>2, <2>3
<1>4. ASSUME NEW r \in Run, PersistCase(r) PROVE TypeInv'
  <2>1. lock # NoOne
    BY <1>4 DEF PersistCase, LockOwned
  <2>2. TypeOK' /\ DraftCovers'
    BY <1>4, <2>1, PersistCaseType DEF DraftCovers
  <2>3. LockOwned' /\ HasSelected'
    BY <1>4 DEF PersistCase, LockOwned, HasSelected
  <2>4. QED
    BY <2>2, <2>3
<1>6. ASSUME NEW r \in Run, Commit(r) PROVE TypeInv'
  <2>1. lock = r /\ lock' = NoOne /\ draftFile' = NoRows /\ draftEvent' = NoRows
        /\ caseFile' = draftFile /\ caseEvent' = draftEvent /\ EndRun(r, "done")
    BY <1>6 DEF Commit, EndTransaction, LockOwned
  <2>2. NoRows \in [Key -> Seq(Row)] /\ NoRows \in [Key -> Seq(Event)]
    BY EmptySeq DEF NoRows
  <2>3. TypeOK'
    <3>1. /\ DOMAIN previous' = Run
          /\ \A x \in Run : /\ DOMAIN previous'[x] \subseteq Key
                            /\ \A k \in DOMAIN previous'[x] : previous'[x][k] \in Row
          /\ reported' \in [Run -> SUBSET Key]
          /\ cases' \in [Run -> Seq(Case)]
          /\ selected' = selected
          /\ pc' \in [Actor -> {"idle", "building", "persisting", "settling", "done", "failed"}]
      BY <2>1, EndRunType
    <3>2. /\ caseFile' \in [Key -> Seq(Row)] /\ caseEvent' \in [Key -> Seq(Event)]
          /\ draftFile' \in [Key -> Seq(Row)] /\ draftEvent' \in [Key -> Seq(Event)]
          /\ lock' \in Run \cup {NoOne}
          /\ selected \in [Desk -> Selection \cup {<< >>}]
      BY <2>1, <2>2 DEF TypeOK
    <3>3. QED
      BY <3>1, <3>2 DEF TypeOK
  <2>4. DraftCovers' /\ LockOwned'
    <3>1. pc' = [pc EXCEPT ![r] = "done"] /\ DOMAIN pc = Actor
      BY <2>1, EndRunType DEF TypeOK
    <3>2. QED
      BY <2>1, <3>1 DEF DraftCovers, LockOwned, Actor
  <2>5. ASSUME NEW k \in Key, caseFile[k] # << >> PROVE caseFile'[k] # << >>
    <3>1. caseFile[k] \in Seq(Row) /\ draftFile[k] \in Seq(Row)
      BY DEF TypeOK
    <3>2. Len(caseFile[k]) <= Len(draftFile[k])
      BY <2>1 DEF DraftCovers
    <3>3. QED
      BY <2>1, <2>5, <3>1, <3>2, EmptySeq
  <2>6. HasSelected'
    BY <2>1, <2>5, EndRunType DEF HasSelected, TypeOK, Actor, Selection
  <2>7. QED
    BY <2>3, <2>4, <2>6
<1>7. ASSUME NEW r \in Run, FailRun(r) PROVE TypeInv'
  <2>1. /\ \/ lock = r /\ lock' = NoOne /\ draftFile' = NoRows /\ draftEvent' = NoRows
           \/ UNCHANGED <<lock, draftFile, draftEvent>> /\ lock # r
        /\ UNCHANGED <<caseFile, caseEvent>>
        /\ EndRun(r, "failed")
    BY <1>7 DEF FailRun, EndTransaction, LockOwned
  <2>2. NoRows \in [Key -> Seq(Row)] /\ NoRows \in [Key -> Seq(Event)]
    BY EmptySeq DEF NoRows
  <2>3. TypeOK'
    <3>1. /\ DOMAIN previous' = Run
          /\ \A x \in Run : /\ DOMAIN previous'[x] \subseteq Key
                            /\ \A k \in DOMAIN previous'[x] : previous'[x][k] \in Row
          /\ reported' \in [Run -> SUBSET Key]
          /\ cases' \in [Run -> Seq(Case)]
          /\ selected' = selected
          /\ pc' \in [Actor -> {"idle", "building", "persisting", "settling", "done", "failed"}]
      BY <2>1, EndRunType
    <3>2. /\ caseFile' \in [Key -> Seq(Row)] /\ caseEvent' \in [Key -> Seq(Event)]
          /\ draftFile' \in [Key -> Seq(Row)] /\ draftEvent' \in [Key -> Seq(Event)]
          /\ lock' \in Run \cup {NoOne}
          /\ selected \in [Desk -> Selection \cup {<< >>}]
      BY <2>1, <2>2 DEF TypeOK
    <3>3. QED
      BY <3>1, <3>2 DEF TypeOK
  <2>4. DraftCovers'
    BY <2>1 DEF DraftCovers
  <2>5. LockOwned'
    <3>1. pc' = [pc EXCEPT ![r] = "failed"] /\ DOMAIN pc = Actor
      BY <2>1, EndRunType DEF TypeOK
    <3>2. QED
      BY <2>1, <3>1 DEF LockOwned, Actor
  <2>6. HasSelected'
    BY <2>1, EndRunType DEF HasSelected, TypeOK, Actor
  <2>7. QED
    BY <2>3, <2>4, <2>5, <2>6
<1>8. ASSUME NEW d \in Desk, NEW k \in Key, SelectCase(d, k) PROVE TypeInv'
  <2>1. caseFile[k][1] \in Row
    BY <1>8, ElementOfSeq DEF SelectCase, TypeOK
  <2>2. [key |-> k, status |-> caseFile[k][1].status] \in Selection
    BY <2>1 DEF Selection, Row
  <2>3. TypeOK'
    BY <1>8, <2>2 DEF SelectCase, TypeOK, Actor
  <2>4. DraftCovers' /\ LockOwned' /\ HasSelected'
    BY <1>8, <2>2 DEF SelectCase, DraftCovers, LockOwned, HasSelected, TypeOK, Actor
  <2>5. QED
    BY <2>3, <2>4
<1>9. ASSUME NEW d \in Desk, NEW k \in Key, NoSuchCase(d, k) PROVE TypeInv'
  <2>1. TypeOK'
    BY <1>9 DEF NoSuchCase, TypeOK, Actor
  <2>2. DraftCovers' /\ LockOwned' /\ HasSelected'
    BY <1>9 DEF NoSuchCase, DraftCovers, LockOwned, HasSelected, TypeOK, Actor
  <2>3. QED
    BY <2>1, <2>2
<1>10. ASSUME NEW d \in Desk, FailSettle(d) PROVE TypeInv'
  <2>1. TypeOK'
    BY <1>10 DEF FailSettle, TypeOK, Actor
  <2>2. DraftCovers' /\ LockOwned' /\ HasSelected'
    BY <1>10 DEF FailSettle, DraftCovers, LockOwned, HasSelected, TypeOK, Actor
  <2>3. QED
    BY <2>1, <2>2
<1>11. CASE UNCHANGED vars
  BY <1>11 DEF vars, TypeOK, DraftCovers, LockOwned, HasSelected
<1>12. QED
  BY <1>1, <1>2, <1>3, <1>4, <1>6, <1>7, <1>8, <1>9, <1>10, <1>11, SettleType
  DEF Next, RunStep, DeskStep

\* The type invariant holds throughout, and with it that a lock holder is a run
\* in the middle of persist.
THEOREM LoopWellFormed == Spec => []TypeInv
BY TypeInvInit, TypeInvStep, PTL DEF Spec

\* Type correctness of the case loop (models.CaseFileRow and CaseEvent, and the
\* in-memory cases of a run).
THEOREM TypeCorrect == Spec => []TypeOK
<1>1. TypeInv => TypeOK
  BY DEF TypeInv
<1>2. QED
  BY <1>1, LoopWellFormed, PTL

-----------------------------------------------------------------------------
\* OnlyPeopleSettle is about the committed tables.  It is kept because every
\* copy a run holds of a row, loaded, built or drafted, is vouched for by the
\* history too.
Vouched(row, history) ==
  row.status = "resolved" => SettledBy(row.resolved_run, history)

LoadedVouched ==
  \A r \in Run : \A k \in DOMAIN previous[r] : Vouched(previous[r][k], caseEvent[k])

BuiltVouched ==
  \A r \in Run : \A n \in DOMAIN cases[r] :
    Vouched(cases[r][n].row, caseEvent[cases[r][n].key])

DraftVouched ==
  lock # NoOne =>
    \A k \in Key : \A i \in DOMAIN draftFile[k] : Vouched(draftFile[k][i], draftEvent[k])

DraftRemembers ==
  lock # NoOne =>
    \A k \in Key : \A d \in Desk \cup {NoOne} :
      SettledBy(d, caseEvent[k]) => SettledBy(d, draftEvent[k])

PeopleInv ==
  /\ TypeInv
  /\ OnlyPeopleSettle
  /\ LoadedVouched
  /\ BuiltVouched
  /\ DraftVouched
  /\ DraftRemembers

\* Appending to a history takes no settlement out of it.
LEMMA SettledByGrows ==
  ASSUME NEW h \in Seq(Event), NEW t \in Seq(Event), NEW d, SettledBy(d, h)
  PROVE  SettledBy(d, h \o t)
<1>1. PICK n \in DOMAIN h : h[n].kind = "resolved" /\ h[n].actor = "HUMAN" /\ h[n].run = d
  BY DEF SettledBy
<1>2. n \in 1..Len(h) /\ (h \o t)[n] = h[n] /\ n \in DOMAIN (h \o t)
  BY LenProperties, ConcatProperties
<1>3. QED
  BY <1>1, <1>2 DEF SettledBy

\* The copies a run holds stay vouched for when histories only gain lines.
LEMMA CopiesStayVouched ==
  ASSUME TypeOK, LoadedVouched, BuiltVouched,
         UNCHANGED <<previous, cases>>,
         \A k \in Key : \A d \in Desk \cup {NoOne} :
           SettledBy(d, caseEvent[k]) => SettledBy(d, caseEvent'[k])
  PROVE  LoadedVouched' /\ BuiltVouched'
<1>1. ASSUME NEW r \in Run, NEW k \in DOMAIN previous[r]
      PROVE  Vouched(previous[r][k], caseEvent'[k])
  <2>1. k \in Key /\ previous[r][k] \in Row
    BY DEF TypeOK
  <2>2. QED
    BY <2>1 DEF LoadedVouched, Vouched, Row
<1>2. ASSUME NEW r \in Run, NEW n \in DOMAIN cases[r]
      PROVE  Vouched(cases[r][n].row, caseEvent'[cases[r][n].key])
  <2>1. cases[r] \in Seq(Case)
    BY DEF TypeOK
  <2>2. cases[r][n] \in Case
    BY <2>1, LenProperties, ElementOfSeq
  <2>3. cases[r][n].key \in Key /\ cases[r][n].row.resolved_run \in Desk \cup {NoOne}
    BY <2>2 DEF Case, Row
  <2>4. QED
    BY <2>3 DEF BuiltVouched, Vouched
<1>3. QED
  BY <1>1, <1>2 DEF LoadedVouched, BuiltVouched

LEMMA BuildKeepsVouched ==
  ASSUME TypeOK, BuiltVouched, NEW r \in Run, NEW k \in Key, NEW row \in Row,
         Vouched(row, caseEvent[k]), Build(r, k, row)
  PROVE  BuiltVouched'
<1> DEFINE c == [key |-> k, row |-> row]
<1>1. cases' = [cases EXCEPT ![r] = Append(@, c)] /\ caseEvent' = caseEvent
  BY DEF Build, Meet
<1>2. c \in Case
  BY DEF Case
<1>3. SUFFICES ASSUME NEW x \in Run, NEW n \in DOMAIN cases'[x]
               PROVE  Vouched(cases'[x][n].row, caseEvent[cases'[x][n].key])
  BY <1>1 DEF BuiltVouched
<1>4. CASE x # r
  BY <1>1, <1>4 DEF BuiltVouched, TypeOK
<1>5. CASE x = r
  <2>1. cases[r] \in Seq(Case) /\ cases'[r] = Append(cases[r], c)
    BY <1>1 DEF TypeOK
  <2>2. /\ DOMAIN cases[r] = 1..Len(cases[r]) /\ DOMAIN cases'[r] = 1..Len(cases[r]) + 1
        /\ \A i \in 1..Len(cases[r]) : cases'[r][i] = cases[r][i]
        /\ cases'[r][Len(cases[r]) + 1] = c
        /\ Len(cases[r]) \in Nat
    BY <1>2, <2>1, AppendProperties, LenProperties
  <2>3. CASE n = Len(cases[r]) + 1
    BY <1>5, <2>2, <2>3
  <2>4. CASE n \in 1..Len(cases[r])
    BY <1>5, <2>2, <2>4 DEF BuiltVouched
  <2>5. QED
    BY <1>5, <2>2, <2>3, <2>4
<1>6. QED
  BY <1>4, <1>5

LEMMA PersistCaseKeepsVouched ==
  ASSUME PeopleInv, NEW r \in Run, PersistCase(r)
  PROVE  BuiltVouched' /\ DraftVouched' /\ DraftRemembers'
<1> DEFINE c == Head(cases[r])
           k == c.key
<1> USE DEF PeopleInv, TypeInv
<1>0. cases[r] \in Seq(Case) /\ cases[r] # << >> /\ lock # NoOne
  BY CaseLoopAssumption DEF PersistCase, TypeOK, LockOwned
<1>1. /\ c \in Case /\ k \in Key /\ c.row \in Row
      /\ Tail(cases[r]) \in Seq(Case) /\ Len(Tail(cases[r])) = Len(cases[r]) - 1
      /\ \A i \in 1..Len(Tail(cases[r])) : Tail(cases[r])[i] = cases[r][i + 1]
  <2>1. c \in Case /\ k \in Key /\ c.row \in Row
    <3>1. c \in Case
      BY <1>0, HeadTailProperties
    <3>2. QED
      BY <3>1 DEF Case
  <2>2. /\ Tail(cases[r]) \in Seq(Case) /\ Len(Tail(cases[r])) = Len(cases[r]) - 1
        /\ \A i \in 1..Len(Tail(cases[r])) : Tail(cases[r])[i] = cases[r][i + 1]
    <3> HIDE DEF c, k
    <3> QED BY <1>0, HeadTailProperties, Zenon
  <2>3. QED
    BY <2>1, <2>2
<1>2. Len(cases[r]) \in Nat \ {0} /\ c = cases[r][1] /\ DOMAIN cases[r] = 1..Len(cases[r])
      /\ DOMAIN Tail(cases[r]) = 1..Len(Tail(cases[r]))
  BY <1>0, <1>1, EmptySeq, LenProperties
<1>3. News(r, c) \in Seq(Event)
  BY <1>1, NewsType
<1>4. Vouched(c.row, caseEvent[k])
  BY <1>2 DEF BuiltVouched
<1> HIDE DEF c, k
<1>5. /\ draftFile' = [draftFile EXCEPT ![k] =
            IF HasRow(r, k) THEN [@ EXCEPT ![Len(caseFile[k])] = c.row]
                            ELSE Append(@, c.row)]
      /\ draftEvent' = [draftEvent EXCEPT ![k] = @ \o News(r, c)]
      /\ cases' = [cases EXCEPT ![r] = Tail(@)]
      /\ UNCHANGED <<caseFile, caseEvent, lock, pc, previous, reported, selected>>
  BY DEF PersistCase, c, k
<1>6. BuiltVouched'
  <2> SUFFICES ASSUME NEW x \in Run, NEW n \in DOMAIN cases'[x]
               PROVE  Vouched(cases'[x][n].row, caseEvent[cases'[x][n].key])
    BY <1>5 DEF BuiltVouched
  <2>1. CASE x # r
    BY <1>5, <2>1 DEF BuiltVouched, TypeOK
  <2>2. CASE x = r
    <3>1. cases'[r] = Tail(cases[r])
      BY <1>5 DEF TypeOK
    <3>2. n + 1 \in DOMAIN cases[r] /\ cases'[r][n] = cases[r][n + 1]
      BY <1>1, <1>2, <2>2, <3>1
    <3>3. QED
      BY <2>2, <3>2 DEF BuiltVouched
  <2>3. QED
    BY <2>1, <2>2
<1>7. \A x \in Key : \A d \in Desk \cup {NoOne} :
        SettledBy(d, draftEvent[x]) => SettledBy(d, draftEvent'[x])
  <2> TAKE x \in Key
  <2> TAKE d \in Desk \cup {NoOne}
  <2>1. CASE x = k
    <3>1. draftEvent[k] \in Seq(Event) /\ draftEvent'[k] = draftEvent[k] \o News(r, c)
      BY <1>1, <1>5 DEF TypeOK
    <3>2. QED
      BY <1>3, <2>1, <3>1, SettledByGrows
  <2>2. CASE x # k
    BY <1>5, <2>2 DEF TypeOK
  <2>3. QED
    BY <2>1, <2>2
<1>8. DraftRemembers'
  BY <1>0, <1>5, <1>7 DEF DraftRemembers
<1>9. \A x \in Key : \A row \in Row :
        Vouched(row, draftEvent[x]) => Vouched(row, draftEvent'[x])
  BY <1>7 DEF Vouched, Row
<1>10. Vouched(c.row, draftEvent'[k])
  BY <1>0, <1>1, <1>4, <1>9 DEF Vouched, DraftRemembers, Row
<1>11. DraftVouched'
  <2> SUFFICES ASSUME NEW x \in Key, NEW i \in DOMAIN draftFile'[x]
               PROVE  Vouched(draftFile'[x][i], draftEvent'[x])
    BY <1>5 DEF DraftVouched
  <2>0. draftFile[x] \in Seq(Row) /\ \A j \in DOMAIN draftFile[x] : draftFile[x][j] \in Row
    <3>1. draftFile[x] \in Seq(Row)
      BY DEF TypeOK
    <3>2. QED
      BY <3>1, LenProperties, ElementOfSeq
  <2>1. CASE x # k
    <3>1. draftFile'[x] = draftFile[x]
      BY <1>5, <2>1 DEF TypeOK
    <3>2. QED
      BY <1>0, <1>9, <2>0, <3>1 DEF DraftVouched
  <2>2. CASE x = k /\ HasRow(r, k)
    <3>1. draftFile'[x] = [draftFile[x] EXCEPT ![Len(caseFile[x])] = c.row]
      BY <1>5, <2>2 DEF TypeOK
    <3>2. i \in DOMAIN draftFile[x] /\ (i # Len(caseFile[x]) => draftFile'[x][i] = draftFile[x][i])
          /\ (i = Len(caseFile[x]) => draftFile'[x][i] = c.row)
      BY <3>1
    <3>3. QED
      BY <1>0, <1>9, <1>10, <2>0, <2>2, <3>2 DEF DraftVouched
  <2>3. CASE x = k /\ ~HasRow(r, k)
    <3>1. draftFile'[x] = Append(draftFile[x], c.row)
      BY <1>5, <2>3 DEF TypeOK
    <3>2. /\ DOMAIN draftFile[x] = 1..Len(draftFile[x]) /\ Len(draftFile[x]) \in Nat
          /\ DOMAIN draftFile'[x] = 1..Len(draftFile[x]) + 1
          /\ \A j \in 1..Len(draftFile[x]) : draftFile'[x][j] = draftFile[x][j]
          /\ draftFile'[x][Len(draftFile[x]) + 1] = c.row
      BY <1>1, <2>0, <3>1, AppendProperties, LenProperties
    <3>3. CASE i = Len(draftFile[x]) + 1
      BY <1>10, <2>3, <3>2, <3>3
    <3>4. CASE i \in 1..Len(draftFile[x])
      BY <1>0, <1>9, <2>0, <3>2, <3>4 DEF DraftVouched
    <3>5. QED
      BY <3>2, <3>3, <3>4
  <2>4. QED
    BY <2>1, <2>2, <2>3
<1>12. QED
  BY <1>6, <1>8, <1>11

LEMMA SettleKeepsVouched ==
  ASSUME PeopleInv, NEW d \in Desk, Settle(d)
  PROVE  PeopleInv'
<1> DEFINE k    == selected[d].key
           was  == selected[d].status
           line == Line("resolved", "HUMAN", d, was, "resolved")
           new  == Settled(caseFile[k][1], was, d)
<1> USE DEF PeopleInv
<1>1. TypeInv'
  BY SettleType
<1>2. /\ k \in Key /\ was \in Status /\ caseFile[k] \in Seq(Row) /\ caseFile[k] # << >>
      /\ caseEvent[k] \in Seq(Event) /\ line \in Event
  BY DEF TypeInv, TypeOK, HasSelected, Settle, Selection, Line, Event, Actor, Status
<1>3. line.kind = "resolved" /\ line.actor = "HUMAN" /\ line.run = d
  BY DEF Line
<1>4. new.resolved_run = d
  <2>1. caseFile[k][1] \in Row
    BY <1>2, EmptySeq, ElementOfSeq
  <2>2. QED
    BY <2>1 DEF Settled, Row
<1> HIDE DEF k, was, line, new
<1>5. /\ caseFile' = [caseFile EXCEPT ![k] = [@ EXCEPT ![1] = new]]
      /\ caseEvent' = [caseEvent EXCEPT ![k] = Append(@, line)]
      /\ lock = NoOne
      /\ UNCHANGED <<lock, draftFile, draftEvent, previous, reported, cases, selected>>
  BY DEF Settle, k, was, line, new
<1>6. caseEvent'[k] = caseEvent[k] \o <<line>> /\ <<line>> \in Seq(Event)
  BY <1>2, <1>5, AppendIsConcat DEF TypeInv, TypeOK
<1>7. SettledBy(d, caseEvent'[k])
  <2>1. /\ caseEvent'[k] = Append(caseEvent[k], line)
        /\ Len(caseEvent[k]) + 1 \in DOMAIN caseEvent'[k]
        /\ caseEvent'[k][Len(caseEvent[k]) + 1] = line
    BY <1>2, <1>5, AppendProperties, LenProperties DEF TypeInv, TypeOK
  <2>2. QED
    BY <1>3, <2>1 DEF SettledBy
<1>8. \A x \in Key : \A e \in Desk \cup {NoOne} :
        SettledBy(e, caseEvent[x]) => SettledBy(e, caseEvent'[x])
  <2> TAKE x \in Key
  <2> TAKE e \in Desk \cup {NoOne}
  <2>1. CASE x = k
    BY <1>2, <1>6, <2>1, SettledByGrows
  <2>2. CASE x # k
    BY <1>5, <2>2 DEF TypeInv, TypeOK
  <2>3. QED
    BY <2>1, <2>2
<1>9. LoadedVouched' /\ BuiltVouched'
  BY <1>5, <1>8, CopiesStayVouched DEF TypeInv
<1>10. OnlyPeopleSettle'
  <2> SUFFICES ASSUME NEW x \in Key, NEW i \in DOMAIN caseFile'[x]
               PROVE  Vouched(caseFile'[x][i], caseEvent'[x])
    BY DEF OnlyPeopleSettle, Vouched
  <2>1. i \in DOMAIN caseFile[x] /\ (x # k \/ i # 1 => caseFile'[x][i] = caseFile[x][i])
        /\ (x = k /\ i = 1 => caseFile'[x][i] = new)
    BY <1>2, <1>5 DEF TypeInv, TypeOK
  <2>2. CASE x = k /\ i = 1
    BY <1>4, <1>7, <2>1, <2>2 DEF Vouched
  <2>3. CASE x # k \/ i # 1
    <3>1. caseFile[x][i] \in Row
      BY <2>1, LenProperties, ElementOfSeq DEF TypeInv, TypeOK
    <3>2. QED
      BY <1>8, <2>1, <2>3, <3>1 DEF OnlyPeopleSettle, Vouched, Row
  <2>4. QED
    BY <2>2, <2>3
<1>11. DraftVouched' /\ DraftRemembers'
  BY <1>5 DEF DraftVouched, DraftRemembers
<1>12. QED
  BY <1>1, <1>9, <1>10, <1>11

LEMMA PeopleInvInit == Init => PeopleInv
<1> SUFFICES ASSUME Init PROVE PeopleInv
  OBVIOUS
<1>1. TypeInv
  BY TypeInvInit
<1>2. \A k \in Key : DOMAIN caseFile[k] = {}
  <2>1. DOMAIN << >> = {}
    OBVIOUS
  <2>2. \A k \in Key : caseFile[k] = << >>
    BY DEF Init, NoRows
  <2>3. QED
    BY <2>1, <2>2
<1>3. OnlyPeopleSettle
  BY <1>2 DEF OnlyPeopleSettle
<1>4. LoadedVouched /\ BuiltVouched
  BY EmptySeq DEF Init, LoadedVouched, BuiltVouched
<1>5. DraftVouched /\ DraftRemembers
  BY DEF Init, DraftVouched, DraftRemembers
<1>6. QED
  BY <1>1, <1>3, <1>4, <1>5 DEF PeopleInv

\* The end of a run drops the copies it held and touches no other run's.
LEMMA EndRunKeepsVouched ==
  ASSUME TypeOK, LoadedVouched, BuiltVouched, NEW r \in Run,
         NEW outcome \in {"done", "failed"}, EndRun(r, outcome)
  PROVE  /\ \A x \in Run : \A k \in DOMAIN previous'[x] :
              k \in DOMAIN previous[x] /\ previous'[x][k] = previous[x][k]
         /\ \A x \in Run : \A n \in DOMAIN cases'[x] :
              n \in DOMAIN cases[x] /\ cases'[x][n] = cases[x][n]
<1>1. /\ previous' = [previous EXCEPT ![r] = << >>] /\ DOMAIN previous = Run
      /\ cases' = [cases EXCEPT ![r] = << >>] /\ DOMAIN cases = Run
      /\ DOMAIN << >> = {}
  BY DEF EndRun, TypeOK
<1>2. QED
  BY <1>1

\* Every step keeps every copy of a settled row vouched for.
LEMMA PeopleInvStep == PeopleInv /\ [Next]_vars => PeopleInv'
<1> SUFFICES ASSUME PeopleInv, [Next]_vars PROVE PeopleInv'
  OBVIOUS
<1>0. TypeInv' /\ TypeOK /\ TypeInv
  BY TypeInvStep DEF PeopleInv, TypeInv
<1>1. ASSUME NEW r \in Run, LoadPrevious(r) PROVE PeopleInv'
  <2>1. UNCHANGED <<caseFile, caseEvent, lock, draftFile, draftEvent, cases>>
    BY <1>1 DEF LoadPrevious
  <2>2. ASSUME NEW x \in Run, NEW k \in DOMAIN previous'[x]
        PROVE  Vouched(previous'[x][k], caseEvent[k])
    <3>1. CASE x # r
      BY <1>0, <1>1, <3>1 DEF LoadPrevious, TypeOK, PeopleInv, LoadedVouched
    <3>2. CASE x = r
      <4>1. k \in Key /\ caseFile[k] # << >> /\ previous'[x][k] = Last(caseFile[k])
        BY <1>0, <1>1, <3>2 DEF LoadPrevious, TypeOK
      <4>2. caseFile[k] \in Seq(Row)
        BY <1>0, <4>1 DEF TypeOK
      <4>3. Len(caseFile[k]) \in DOMAIN caseFile[k]
        BY <4>1, <4>2, EmptySeq, LenProperties
      <4>4. QED
        BY <4>1, <4>3 DEF Last, PeopleInv, OnlyPeopleSettle, Vouched
    <3>3. QED
      BY <3>1, <3>2
  <2>3. LoadedVouched'
    BY <2>1, <2>2 DEF LoadedVouched
  <2>4. QED
    BY <1>0, <2>1, <2>3 DEF PeopleInv, OnlyPeopleSettle, BuiltVouched, DraftVouched, DraftRemembers
<1>2. ASSUME NEW r \in Run, BuildCase(r) PROVE PeopleInv'
  <2>1. UNCHANGED <<caseFile, caseEvent, lock, draftFile, draftEvent, previous>>
    BY <1>2 DEF BuildCase, SkipClosed, CarrySettled, Raise, Build, Meet
  <2>2. PICK k \in Key : \/ SkipClosed(r, k)
                         \/ CarrySettled(r, k)
                         \/ \E hypothesis \in BOOLEAN : Raise(r, k, hypothesis)
    BY <1>2 DEF BuildCase
  <2>3. BuiltVouched'
    <3>1. CASE SkipClosed(r, k)
      BY <2>1, <3>1 DEF SkipClosed, PeopleInv, BuiltVouched
    <3>2. CASE CarrySettled(r, k)
      <4> DEFINE row == [previous[r][k] EXCEPT !.last_seen_run = r]
      <4>1. k \in DOMAIN previous[r] /\ previous[r][k] \in Row
        BY <1>0, <3>2 DEF CarrySettled, Knows, TypeOK
      <4>2. row \in Row /\ row.status = previous[r][k].status
            /\ row.resolved_run = previous[r][k].resolved_run
        BY <4>1 DEF Row, Actor
      <4>3. Vouched(row, caseEvent[k])
        BY <4>1, <4>2 DEF Vouched, PeopleInv, LoadedVouched
      <4>4. Build(r, k, row)
        BY <3>2 DEF CarrySettled
      <4> HIDE DEF row
      <4>5. QED
        BY <1>0, <4>2, <4>3, <4>4, BuildKeepsVouched DEF PeopleInv
    <3>3. ASSUME NEW hypothesis \in BOOLEAN, Raise(r, k, hypothesis) PROVE BuiltVouched'
      <4> DEFINE status == IF Knows(r, k) /\ previous[r][k].status # "detected"
                           THEN previous[r][k].status ELSE InitialStatus(k, hypothesis)
                 first  == IF Knows(r, k) THEN previous[r][k].first_seen_run ELSE r
                 row    == [Fresh(r, status, hypothesis) EXCEPT !.first_seen_run = first]
      <4>1. status \in Status /\ status # "resolved"
        BY <1>0, <3>3, InitialStatusType DEF Raise, Knows, TypeOK, Row
      <4>2. first \in Run
        BY <1>0 DEF Knows, TypeOK, Row
      <4>3. Build(r, k, row)
        BY <3>3 DEF Raise
      <4> HIDE DEF status, first
      <4>4. row \in Row /\ row.status = status
        BY <4>1, <4>2, FreshType DEF Row, Fresh
      <4>5. Vouched(row, caseEvent[k])
        BY <4>1, <4>4 DEF Vouched
      <4> HIDE DEF row
      <4>6. QED
        BY <1>0, <4>3, <4>4, <4>5, BuildKeepsVouched DEF PeopleInv
    <3>4. QED
      BY <2>2, <3>1, <3>2, <3>3
  <2>4. QED
    BY <1>0, <2>1, <2>3 DEF PeopleInv, OnlyPeopleSettle, LoadedVouched, DraftVouched, DraftRemembers
<1>3. ASSUME NEW r \in Run, Flush(r) PROVE PeopleInv'
  <2>1. /\ draftFile' = caseFile /\ draftEvent' = caseEvent
        /\ UNCHANGED <<caseFile, caseEvent, previous, cases>>
    BY <1>3 DEF Flush
  <2>2. DraftVouched' /\ DraftRemembers'
    BY <2>1 DEF PeopleInv, OnlyPeopleSettle, DraftVouched, DraftRemembers, Vouched
  <2>3. QED
    BY <1>0, <2>1, <2>2 DEF PeopleInv, OnlyPeopleSettle, LoadedVouched, BuiltVouched
<1>4. ASSUME NEW r \in Run, PersistCase(r) PROVE PeopleInv'
  <2>1. UNCHANGED <<caseFile, caseEvent, previous>>
    BY <1>4 DEF PersistCase
  <2>2. BuiltVouched' /\ DraftVouched' /\ DraftRemembers'
    BY <1>4, PersistCaseKeepsVouched
  <2>3. QED
    BY <1>0, <2>1, <2>2 DEF PeopleInv, OnlyPeopleSettle, LoadedVouched
<1>5. ASSUME NEW r \in Run, Commit(r) PROVE PeopleInv'
  <2>1. /\ lock # NoOne /\ lock' = NoOne
        /\ caseFile' = draftFile /\ caseEvent' = draftEvent /\ EndRun(r, "done")
    BY <1>0, <1>5, CaseLoopAssumption DEF Commit, EndTransaction, TypeInv, LockOwned
  <2>2. OnlyPeopleSettle'
    BY <2>1 DEF PeopleInv, DraftVouched, OnlyPeopleSettle, Vouched
  <2>3. \A k \in Key : \A d \in Desk \cup {NoOne} :
          SettledBy(d, caseEvent[k]) => SettledBy(d, caseEvent'[k])
    BY <2>1 DEF PeopleInv, DraftRemembers
  <2>4. /\ \A x \in Run : \A k \in DOMAIN previous'[x] :
             k \in DOMAIN previous[x] /\ previous'[x][k] = previous[x][k]
        /\ \A x \in Run : \A n \in DOMAIN cases'[x] :
             n \in DOMAIN cases[x] /\ cases'[x][n] = cases[x][n]
    BY <1>0, <2>1, EndRunKeepsVouched DEF PeopleInv
  <2>5. ASSUME NEW x \in Run, NEW k \in DOMAIN previous'[x]
        PROVE  Vouched(previous'[x][k], caseEvent'[k])
    <3>1. k \in Key /\ previous[x][k] \in Row /\ Vouched(previous[x][k], caseEvent[k])
      BY <1>0, <2>4 DEF TypeOK, PeopleInv, LoadedVouched
    <3>2. QED
      BY <2>3, <2>4, <3>1 DEF Vouched, Row
  <2>6. ASSUME NEW x \in Run, NEW n \in DOMAIN cases'[x]
        PROVE  Vouched(cases'[x][n].row, caseEvent'[cases'[x][n].key])
    <3>1. cases[x] \in Seq(Case) /\ n \in DOMAIN cases[x]
      BY <1>0, <2>4 DEF TypeOK
    <3>2. cases[x][n] \in Case
      BY <3>1, LenProperties, ElementOfSeq
    <3>3. Vouched(cases[x][n].row, caseEvent[cases[x][n].key])
      BY <3>1 DEF PeopleInv, BuiltVouched
    <3>4. QED
      BY <2>3, <2>4, <3>2, <3>3 DEF Vouched, Case, Row
  <2>7. LoadedVouched' /\ BuiltVouched'
    BY <2>5, <2>6 DEF LoadedVouched, BuiltVouched
  <2>8. DraftVouched' /\ DraftRemembers'
    BY <2>1 DEF DraftVouched, DraftRemembers
  <2>9. QED
    BY <1>0, <2>2, <2>7, <2>8 DEF PeopleInv
<1>6. ASSUME NEW r \in Run, FailRun(r) PROVE PeopleInv'
  <2>1. /\ UNCHANGED <<caseFile, caseEvent>> /\ EndRun(r, "failed")
        /\ lock' = NoOne \/ UNCHANGED <<lock, draftFile, draftEvent>>
    BY <1>6 DEF FailRun, EndTransaction
  <2>2. /\ \A x \in Run : \A k \in DOMAIN previous'[x] :
             k \in DOMAIN previous[x] /\ previous'[x][k] = previous[x][k]
        /\ \A x \in Run : \A n \in DOMAIN cases'[x] :
             n \in DOMAIN cases[x] /\ cases'[x][n] = cases[x][n]
    BY <1>0, <2>1, EndRunKeepsVouched DEF PeopleInv
  <2>3. LoadedVouched' /\ BuiltVouched'
    BY <2>1, <2>2 DEF PeopleInv, LoadedVouched, BuiltVouched
  <2>4. DraftVouched' /\ DraftRemembers'
    BY <2>1 DEF PeopleInv, DraftVouched, DraftRemembers
  <2>5. QED
    BY <1>0, <2>1, <2>3, <2>4 DEF PeopleInv, OnlyPeopleSettle
<1>7. ASSUME NEW d \in Desk, NEW k \in Key, SelectCase(d, k) \/ NoSuchCase(d, k)
      PROVE  PeopleInv'
  <2>1. UNCHANGED <<caseFile, caseEvent, lock, draftFile, draftEvent, previous, cases>>
    BY <1>7 DEF SelectCase, NoSuchCase
  <2>2. QED
    BY <1>0, <2>1 DEF PeopleInv, OnlyPeopleSettle, LoadedVouched, BuiltVouched,
                      DraftVouched, DraftRemembers
<1>8. ASSUME NEW d \in Desk, FailSettle(d) PROVE PeopleInv'
  <2>1. UNCHANGED <<caseFile, caseEvent, lock, draftFile, draftEvent, previous, cases>>
    BY <1>8 DEF FailSettle
  <2>2. QED
    BY <1>0, <2>1 DEF PeopleInv, OnlyPeopleSettle, LoadedVouched, BuiltVouched,
                      DraftVouched, DraftRemembers
<1>9. CASE UNCHANGED vars
  BY <1>0, <1>9 DEF vars, PeopleInv, OnlyPeopleSettle, LoadedVouched, BuiltVouched,
                    DraftVouched, DraftRemembers
<1>10. QED
  BY <1>1, <1>2, <1>3, <1>4, <1>5, <1>6, <1>7, <1>8, <1>9, SettleKeepsVouched
  DEF Next, RunStep, DeskStep

\* Only people settle cases, however runs and resolves overlap, whatever a run
\* loaded before somebody settled the case and whichever detectors repeat
\* themselves: a row that reads resolved names a resolve whose line is in the
\* history (casefile.build_cases, persist and resolve).
THEOREM PeopleSettle == Spec => []OnlyPeopleSettle
<1>1. PeopleInv => OnlyPeopleSettle
  BY DEF PeopleInv
<1>2. QED
  BY <1>1, PeopleInvInit, PeopleInvStep, PTL DEF Spec
=============================================================================
