--------------------------- MODULE UserSyncProofs ---------------------------
(***************************************************************************)
(* Theorems about UserSync, for every value of its constants.              *)
(***************************************************************************)
EXTENDS UserSync, TLAPS

-----------------------------------------------------------------------------
(* The inductive invariant.                                                *)

\* A call that is at work holds the flag.
WorkHoldsFlag == ~overridden => \A s \in Syncs : Active(s) => isSyncing

\* Where each call is, and what it may rely on, for each name it handles: an
\* account or a row that was read once is still there.
StageOK(s, n) ==
    LET at == job[s][n].at
    IN  /\ at \in PullStages => pc[s] = "pull" /\ job[s][n].data \in Data /\ kc[n] # None
        /\ at \in PushStages => pc[s] = "push" /\ job[s][n].data \in Data /\ pg[n].stored
        /\ at \in {"update", "remap", "map"} => pg[n].stored
        /\ at \in {"map", "record"} => pg[n].linked
        /\ at \in {"link", "record"} => kc[n] # None

StagesOK == \A s \in Syncs, n \in Names : StageOK(s, n)

\* Between writing a row and writing its mapping, the row has what was written.
RowHolds ==
    \A s \in Syncs, n \in Names :
        /\ ~overridden /\ n \notin touched \cup torn
        /\ job[s][n].at \in {"remap", "map"}
        => Carries(pg[n].data, Digest(job[s][n].data))

IInv == /\ TypeOK
        /\ OneAtATime /\ WorkHoldsFlag /\ FlagTells
        /\ StagesOK /\ NoOrphans
        /\ RowHolds /\ HashTellsRow


LEMMA DigestType == \A d \in Data : Digest(d) \in Core
  BY DEF Data, Digest

\* Data written over a row is data, and the row then has all of it that is not
\* cleared.
LEMMA MergedData ==
    ASSUME NEW d \in Data, NEW old \in Data
    PROVE  Merged(d, old) \in Data /\ Carries(Merged(d, old), Digest(d))
<1>1. d[1] \in Core /\ d[2] \in Custom /\ old[1] \in Core /\ old[2] \in Custom
  BY DEF Data
<1>2. [c \in Columns |-> IF d[1][c] = Cleared THEN old[1][c] ELSE d[1][c]] \in Core
  BY <1>1 DEF Core
<1>3. (IF d[2] = Cleared THEN old[2] ELSE d[2]) \in Custom
  BY <1>1
<1>4. Merged(d, old) \in Data
  BY <1>2, <1>3 DEF Data, Merged
<1>5. Carries(Merged(d, old), Digest(d))
  BY DEF Carries, Merged, Digest
<1>q. QED BY <1>4, <1>5

\* Data has what it holds itself.
LEMMA CarriesOwn == \A d : Carries(d, Digest(d))
  BY DEF Carries, Digest

LEMMA Constants ==
    /\ None \notin Data /\ None \notin Core /\ None # RowHash /\ RowHash \notin Core
    /\ MaxEdits \in Nat /\ MaxFaults \in Nat
  BY NoneAssumption, RowHashAssumption, BoundsAssumption DEF Data

\* Names of places, stages, statuses and modes are among those declared.
LEMMA Words ==
    /\ {"idle", "wiped", "ended", "log", "fetch", "pull", "rows", "push", "close", "broken",
        "finally"} \subseteq PCs
    /\ {"find", "row", "update", "remap", "create", "map", "push", "link", "record",
        "none", "done"} \subseteq Stages
    /\ {"none", "running", "completed", "failed", "cancelled"} \subseteq Statuses
    /\ {"plain", "dry", "force", "rebuild"} \subseteq Modes
  BY DEF PCs, Running, Stages, PullStages, PushStages, Statuses, Modes

StoredRows == [stored : {TRUE}, data : Data, linked : BOOLEAN, recent : BOOLEAN]

LEMMA RowTypes ==
    /\ \A d \in Data, linked, recent \in BOOLEAN : Row(d, linked, recent) \in Rows
    /\ \A x \in Rows : x.stored \/ x.recent \/ x.linked => x \in StoredRows
    /\ \A x \in Rows : x.linked \in BOOLEAN /\ (x.linked => x.stored)
    /\ \A x \in StoredRows : x \in Rows /\ x.data \in Data
<1>1. \A d \in Data, linked, recent \in BOOLEAN : Row(d, linked, recent) \in Rows
  BY DEF Row, Rows
<1>2. \A x \in Rows : x = NoRow \/ x \in StoredRows
  BY DEF Rows, StoredRows
<1>3. ~NoRow.stored /\ ~NoRow.recent /\ ~NoRow.linked /\ NoRow.linked \in BOOLEAN
  BY DEF NoRow
<1>4. \A x \in StoredRows : x \in Rows /\ x.data \in Data /\ x.linked \in BOOLEAN /\ x.stored
  BY DEF Rows, StoredRows
<1>q. QED BY <1>1, <1>2, <1>3, <1>4

\* Writing columns of a row leaves a row.
LEMMA RowWrites ==
    ASSUME NEW x \in StoredRows
    PROVE  /\ [x EXCEPT !.linked = TRUE, !.recent = TRUE] \in Rows
           /\ [x EXCEPT !.recent = FALSE] \in Rows
           /\ \A d \in Data : [x EXCEPT !.data = d, !.recent = TRUE] \in Rows
<1>1. /\ [x EXCEPT !.linked = TRUE, !.recent = TRUE] \in StoredRows
      /\ [x EXCEPT !.recent = FALSE] \in StoredRows
      /\ \A d \in Data : [x EXCEPT !.data = d, !.recent = TRUE] \in StoredRows
  BY DEF StoredRows
<1>q. QED BY <1>1, RowTypes

LEMMA JobTypes ==
    /\ NoJob \in Jobs
    /\ \A st \in Stages, d \in Data : [NoJob EXCEPT !.at = st, !.data = d] \in Jobs
    /\ \A st \in Stages, fine \in BOOLEAN : [NoJob EXCEPT !.at = st, !.fine = fine] \in Jobs
    /\ \A j \in Jobs : j.fine \in BOOLEAN
    /\ \A j \in Jobs, st \in Stages : [j EXCEPT !.at = st] \in Jobs
    /\ \A j \in Jobs, st \in Stages, d \in Data, linked \in BOOLEAN :
          [j EXCEPT !.at = st, !.data = d, !.linked = linked] \in Jobs
  BY Words DEF Jobs, NoJob

\* What the steps of a call are made of keeps the types.
LEMMA GotoType == ASSUME TypeOK, NEW s, NEW to \in PCs, Goto(s, to) PROVE TypeOfCalls'
  BY DEF TypeOK, TypeOfCalls, Goto

LEMMA AwaitType ==
    ASSUME TypeOK, NEW s \in Syncs, NEW n \in Names, NEW st \in Stages, Await(s, n, st)
    PROVE  TypeOfCalls'
<1>1. [job[s][n] EXCEPT !.at = st] \in Jobs
  BY JobTypes DEF TypeOK, TypeOfCalls
<1>q. QED BY <1>1 DEF TypeOK, TypeOfCalls, Await

LEMMA FinishType ==
    ASSUME TypeOK, NEW s \in Syncs, NEW n \in Names, NEW fine \in BOOLEAN, Finish(s, n, fine)
    PROVE  TypeOfCalls'
<1>1. [NoJob EXCEPT !.at = "done", !.fine = fine] \in Jobs
  BY JobTypes, Words
<1>q. QED BY <1>1 DEF TypeOK, TypeOfCalls, Finish

LEMMA SettleType ==
    ASSUME TypeOK, NEW s \in Syncs, NEW n \in Names, Resolve(s, n) \/ Reject(s, n)
    PROVE  TypeOfCalls'
<1>1. job[s][n].fine \in BOOLEAN
  BY JobTypes DEF TypeOK, TypeOfCalls
<1>q. QED BY <1>1, FinishType DEF Resolve, Reject

LEMMA ProceedType ==
    ASSUME TypeOK, NEW s \in Syncs, NEW n \in Names, NEW st \in Stages, Proceed(s, n, st)
    PROVE  TypeOfCalls'
  BY AwaitType, SettleType DEF Proceed

LEMMA FaultType == ASSUME TypeOK, Works \/ Fails PROVE faults' \in 0 .. MaxFaults
  BY Constants DEF TypeOK, TypeOfBounds, Works, Fails

LEMMA DisturbType ==
    ASSUME TypeOK, NEW s, NEW n, Disturb(s, n) PROVE quiet' \in [Syncs -> SUBSET Names]
  BY DEF TypeOK, TypeOfMarks, Disturb

\* What a call holds of a name it handles is data.
LEMMA StageData ==
    ASSUME StagesOK, NEW s \in Syncs, NEW n \in Names,
           job[s][n].at \in {"find", "row", "update", "remap", "create", "map",
                            "push", "link", "record"}
    PROVE  job[s][n].data \in Data /\ Digest(job[s][n].data) \in Core
  BY DigestType DEF StagesOK, StageOK, PullStages, PushStages

\* What an update makes of a row.
LEMMA StageMerge ==
    ASSUME TypeOK, StagesOK, NEW s \in Syncs, NEW n \in Names, job[s][n].at = "update"
    PROVE  LET new == Merged(job[s][n].data, pg[n].data)
           IN  new \in Data /\ Carries(new, Digest(job[s][n].data))
<1>1. job[s][n].data \in Data /\ pg[n].stored /\ pg[n] \in Rows
  BY StageData DEF StagesOK, StageOK, TypeOK, TypeOfStores
<1>2. pg[n].data \in Data
  BY <1>1, RowTypes
<1>q. QED BY <1>1, <1>2, MergedData

LEMMA StoresStep ==
    ASSUME TypeOK, StagesOK, [Next]_vars PROVE TypeOfStores'
<1>1. ASSUME NEW s \in Syncs,
             \/ Wipe(s) \/ Refuse(s) \/ Begin(s) \/ CreateSyncLog(s)
      PROVE  TypeOfStores'
  BY <1>1 DEF Wipe, Refuse, Begin, CreateSyncLog, TypeOK, TypeOfStores, stores
<1>2. ASSUME NEW s \in Syncs,
             \/ Fetch(s) \/ Pulled(s) \/ FindRows(s) \/ Pushed(s)
      PROVE  TypeOfStores'
  BY <1>2 DEF Fetch, Pulled, FindRows, Pushed, TypeOK, TypeOfStores, stores
<1>3. ASSUME NEW s \in Syncs,
             \/ Close(s) \/ Catch(s) \/ Finally(s)
      PROVE  TypeOfStores'
  BY <1>3 DEF Close, Catch, Finally, TypeOK, TypeOfStores, stores
<1>4. ASSUME NEW s \in Syncs, NEW n \in Names,
             \/ FindMapping(s, n) \/ FindRow(s, n)
      PROVE  TypeOfStores'
  BY <1>4 DEF FindMapping, FindRow, TypeOK, TypeOfStores, stores
<1>5. ASSUME NEW s \in Syncs, NEW n \in Names, UpdateExistingUser(s, n) PROVE TypeOfStores'
  <2>1. Row(Merged(job[s][n].data, pg[n].data), TRUE, TRUE) \in Rows
    BY <1>5, StageMerge, RowTypes DEF UpdateExistingUser
  <2>2. pg' \in [Names -> Rows]
    BY <1>5, <2>1 DEF TypeOK, TypeOfStores, UpdateExistingUser
  <2>q. QED BY <1>5, <2>2 DEF TypeOK, TypeOfStores, UpdateExistingUser
<1>6. ASSUME NEW s \in Syncs, NEW n \in Names, UpdateMapping(s, n) PROVE TypeOfStores'
  <2>1. Digest(job[s][n].data) \in Core
    BY <1>6, StageData DEF UpdateMapping
  <2>2. mapping' \in [Names -> Core \cup {RowHash, None}]
    BY <1>6, <2>1 DEF TypeOK, TypeOfStores, UpdateMapping
  <2>q. QED BY <1>6, <2>2 DEF TypeOK, TypeOfStores, UpdateMapping
<1>7. ASSUME NEW s \in Syncs, NEW n \in Names, CreateNewUser(s, n) PROVE TypeOfStores'
  <2>1. Row(job[s][n].data, TRUE, TRUE) \in Rows
    BY <1>7, StageData, RowTypes DEF CreateNewUser
  <2>2. pg' \in [Names -> Rows]
    BY <1>7, <2>1 DEF TypeOK, TypeOfStores, CreateNewUser
  <2>q. QED BY <1>7, <2>2 DEF TypeOK, TypeOfStores, CreateNewUser
<1>8. ASSUME NEW s \in Syncs, NEW n \in Names, CreateMapping(s, n) PROVE TypeOfStores'
  <2>1. Digest(job[s][n].data) \in Core
    BY <1>8, StageData DEF CreateMapping
  <2>2. mapping' \in [Names -> Core \cup {RowHash, None}]
    BY <1>8, <2>1 DEF TypeOK, TypeOfStores, CreateMapping
  <2>q. QED BY <1>8, <2>2 DEF TypeOK, TypeOfStores, CreateMapping
<1>9. ASSUME NEW s \in Syncs, NEW n \in Names, Push(s, n) PROVE TypeOfStores'
  <2>1. job[s][n].data \in Data
    BY <1>9, StageData DEF Push
  <2>2. kc' \in [Names -> Data \cup {None}]
    BY <1>9, <2>1 DEF TypeOK, TypeOfStores, Push
  <2>q. QED BY <1>9, <2>2 DEF TypeOK, TypeOfStores, Push
<1>10. ASSUME NEW s \in Syncs, NEW n \in Names, Link(s, n) PROVE TypeOfStores'
  <2>1. pg[n].stored /\ pg[n] \in Rows
    BY <1>10 DEF TypeOK, TypeOfStores, Link, StagesOK, StageOK, PushStages
  <2>2. [pg[n] EXCEPT !.linked = TRUE, !.recent = TRUE] \in Rows
    BY <2>1, RowTypes, RowWrites
  <2>3. pg' \in [Names -> Rows]
    BY <1>10, <2>2 DEF TypeOK, TypeOfStores, Link
  <2>q. QED BY <1>10, <2>3 DEF TypeOK, TypeOfStores, Link
<1>11. ASSUME
             \/ AskCancel \/ MarkCancelled \/ ClearFlag \/ Restart
      PROVE  TypeOfStores'
  BY <1>11 DEF AskCancel, MarkCancelled, ClearFlag, Restart, TypeOK, TypeOfStores, stores
<1>12. ASSUME NEW n \in Names, WriteAccount(n) PROVE TypeOfStores'
  <2>1. kc' \in [Names -> Data \cup {None}]
    BY <1>12 DEF TypeOK, TypeOfStores, WriteAccount
  <2>q. QED BY <1>12, <2>1 DEF TypeOK, TypeOfStores, WriteAccount
<1>13. ASSUME NEW n \in Names, StartAdoption(n) \/ DeleteMapping(n) PROVE TypeOfStores'
  BY <1>13 DEF StartAdoption, DeleteMapping, TypeOK, TypeOfStores, stores
<1>14. ASSUME NEW n \in Names, Adopt(n) PROVE TypeOfStores'
  <2>1. pg' \in [Names -> Rows]
    <3>1. CASE UNCHANGED pg
      BY <3>1 DEF TypeOK, TypeOfStores
    <3>2. CASE ~UNCHANGED pg
      <4>1. PICK d \in Data : pg' = [pg EXCEPT ![n] = Row(d, TRUE, TRUE)]
        BY <1>14, <3>2 DEF Adopt
      <4>2. Row(d, TRUE, TRUE) \in Rows
        BY RowTypes
      <4>q. QED BY <4>1, <4>2 DEF TypeOK, TypeOfStores
    <3>q. QED BY <3>1, <3>2
  <2>q. QED BY <1>14, <2>1 DEF TypeOK, TypeOfStores, Adopt
<1>15. ASSUME NEW n \in Names, CreateUser(n) PROVE TypeOfStores'
  <2>1. PICK d \in Data : pg' = [pg EXCEPT ![n] = Row(d, FALSE, TRUE)]
    BY <1>15 DEF CreateUser
  <2>2. Row(d, FALSE, TRUE) \in Rows
    BY RowTypes
  <2>q. QED BY <1>15, <2>1, <2>2 DEF TypeOK, TypeOfStores, CreateUser
<1>16. ASSUME NEW n \in Names, UpdateUser(n) PROVE TypeOfStores'
  <2>1. PICK d \in Data : pg' = [pg EXCEPT ![n].data = d, ![n].recent = TRUE]
    BY <1>16 DEF UpdateUser
  <2>2. pg[n].stored /\ pg[n] \in Rows
    BY <1>16 DEF TypeOK, TypeOfStores, UpdateUser
  <2>3. [pg[n] EXCEPT !.data = d, !.recent = TRUE] \in Rows
    BY <2>2, RowTypes, RowWrites
  <2>q. QED BY <1>16, <2>1, <2>3 DEF TypeOK, TypeOfStores, UpdateUser
<1>17. ASSUME NEW n \in Names, HourPasses(n) PROVE TypeOfStores'
  <2>1. [pg[n] EXCEPT !.recent = FALSE] \in Rows
    BY <1>17, RowTypes, RowWrites DEF TypeOK, TypeOfStores, HourPasses
  <2>q. QED BY <1>17, <2>1 DEF TypeOK, TypeOfStores, HourPasses
<1>u. ASSUME UNCHANGED vars PROVE TypeOfStores'
  BY <1>u DEF TypeOK, TypeOfStores, vars, stores
<1>q. QED
  BY <1>1, <1>2, <1>3, <1>4, <1>5, <1>6, <1>7, <1>8, <1>9, <1>10, <1>11, <1>12, <1>13, <1>14,
    <1>15, <1>16, <1>17, <1>u DEF Next, Step, Pull, Outside

LEMMA CallsStep ==
    ASSUME TypeOK, StagesOK, [Next]_vars PROVE TypeOfCalls'
<1>1. ASSUME NEW s \in Syncs,
             \/ Wipe(s) \/ Refuse(s) \/ CreateSyncLog(s) \/ Pulled(s)
      PROVE  TypeOfCalls'
  BY <1>1, GotoType, Words DEF Wipe, Refuse, CreateSyncLog, Pulled, TypeOK, TypeOfCalls
<1>2. ASSUME NEW s \in Syncs, Begin(s) PROVE TypeOfCalls'
  <2>1. mode' \in [Syncs -> Modes]
    BY <1>2, Words DEF TypeOK, TypeOfCalls, Begin
  <2>2. pc' \in [Syncs -> PCs] /\ UNCHANGED job
    BY <1>2, Words DEF TypeOK, TypeOfCalls, Begin
  <2>q. QED BY <2>1, <2>2 DEF TypeOK, TypeOfCalls
<1>3. ASSUME NEW s \in Syncs, Fetch(s) PROVE TypeOfCalls'
  <2>1. \A n \in Names : (IF kc[n] = None THEN NoJob
                         ELSE [NoJob EXCEPT !.at = "find", !.data = kc[n]]) \in Jobs
    BY JobTypes, Words DEF TypeOK, TypeOfStores
  <2>2. CASE Goto(s, "broken")
    BY <2>2, GotoType, Words
  <2>3. CASE ~Goto(s, "broken")
    <3>1. /\ pc' = [pc EXCEPT ![s] = "pull"]
          /\ UNCHANGED mode
          /\ job' = [job EXCEPT ![s] =
                       [n \in Names |-> IF kc[n] = None THEN NoJob
                                        ELSE [NoJob EXCEPT !.at = "find", !.data = kc[n]]]]
      BY <1>3, <2>3 DEF Fetch
    <3>q. QED BY <2>1, <3>1, Words DEF TypeOK, TypeOfCalls
  <2>q. QED BY <2>2, <2>3
<1>4. ASSUME NEW s \in Syncs, FindRows(s) PROVE TypeOfCalls'
  <2> DEFINE read(n) ==
        IF pg[n].stored /\ (~pg[n].linked \/ pg[n].recent)
        THEN [job[s][n] EXCEPT !.at = "push", !.data = pg[n].data, !.linked = pg[n].linked]
        ELSE [job[s][n] EXCEPT !.at = "none"]
  <2>1. \A n \in Names : read(n) \in Jobs
    <3>1. TAKE n \in Names
    <3>2. job[s][n] \in Jobs /\ pg[n] \in Rows
      BY DEF TypeOK, TypeOfCalls, TypeOfStores
    <3>3. CASE pg[n].stored
      <4>1. pg[n].data \in Data /\ pg[n].linked \in BOOLEAN
        BY <3>2, <3>3, RowTypes
      <4>q. QED BY <3>2, <4>1, JobTypes, Words
    <3>4. CASE ~pg[n].stored
      BY <3>2, <3>4, JobTypes, Words
    <3>q. QED BY <3>3, <3>4
  <2>2. CASE Goto(s, "broken")
    BY <2>2, GotoType, Words
  <2>3. CASE ~Goto(s, "broken")
    <3>1. /\ pc' = [pc EXCEPT ![s] = "push"]
          /\ UNCHANGED mode
          /\ job' = [job EXCEPT ![s] = [n \in Names |-> read(n)]]
      BY <1>4, <2>3 DEF FindRows, TypeOK, TypeOfCalls
    <3> HIDE DEF read
    <3>q. QED BY <2>1, <3>1, Words DEF TypeOK, TypeOfCalls
  <2>q. QED BY <2>2, <2>3
<1>5. ASSUME NEW s \in Syncs,
             \/ Pushed(s) \/ Close(s) \/ Catch(s)
      PROVE  TypeOfCalls'
  BY <1>5, GotoType, Words DEF Pushed, Close, Catch, TypeOK, TypeOfCalls
<1>6. ASSUME NEW s \in Syncs, Finally(s) PROVE TypeOfCalls'
  BY <1>6, JobTypes, Words DEF Finally, TypeOK, TypeOfCalls
<1>7. ASSUME NEW s \in Syncs, NEW n \in Names, FindMapping(s, n) PROVE TypeOfCalls'
  BY <1>7, AwaitType, Words, ProceedType, SettleType DEF FindMapping, TypeOK, TypeOfCalls
<1>8. ASSUME NEW s \in Syncs, NEW n \in Names, FindRow(s, n) PROVE TypeOfCalls'
  BY <1>8, ProceedType, Words, SettleType DEF FindRow, TypeOK, TypeOfCalls
<1>9. ASSUME NEW s \in Syncs, NEW n \in Names,
             \/ UpdateExistingUser(s, n) \/ CreateNewUser(s, n) \/ Push(s, n)
             \/ Link(s, n)
      PROVE  TypeOfCalls'
  BY <1>9, AwaitType, Words, SettleType DEF UpdateExistingUser, CreateNewUser, Push, Link,
    TypeOK, TypeOfCalls
<1>10. ASSUME NEW s \in Syncs, NEW n \in Names,
             \/ UpdateMapping(s, n) \/ CreateMapping(s, n)
      PROVE  TypeOfCalls'
  BY <1>10, SettleType DEF UpdateMapping, CreateMapping, TypeOK, TypeOfCalls
<1>11. ASSUME
             \/ AskCancel \/ MarkCancelled \/ ClearFlag
      PROVE  TypeOfCalls'
  BY <1>11 DEF AskCancel, MarkCancelled, ClearFlag, TypeOK, TypeOfCalls, calls
<1>12. ASSUME NEW n \in Names,
             \/ WriteAccount(n) \/ StartAdoption(n) \/ Adopt(n) \/ CreateUser(n)
      PROVE  TypeOfCalls'
  BY <1>12 DEF WriteAccount, StartAdoption, Adopt, CreateUser, TypeOK, TypeOfCalls, calls
<1>13. ASSUME NEW n \in Names,
             \/ UpdateUser(n) \/ DeleteMapping(n) \/ HourPasses(n)
      PROVE  TypeOfCalls'
  BY <1>13 DEF UpdateUser, DeleteMapping, HourPasses, TypeOK, TypeOfCalls, calls
<1>14. ASSUME Restart PROVE TypeOfCalls'
  BY <1>14, JobTypes, Words DEF Restart, TypeOK, TypeOfCalls
<1>u. ASSUME UNCHANGED vars PROVE TypeOfCalls'
  BY <1>u DEF TypeOK, TypeOfCalls, vars, calls
<1>q. QED
  BY <1>1, <1>2, <1>3, <1>4, <1>5, <1>6, <1>7, <1>8, <1>9, <1>10, <1>11, <1>12, <1>13, <1>14,
    <1>u DEF Next, Step, Pull, Outside

LEMMA FlagsStep ==
    ASSUME TypeOK, StagesOK, [Next]_vars PROVE TypeOfFlags'
<1>1. ASSUME NEW s \in Syncs,
             \/ Wipe(s) \/ Refuse(s) \/ Begin(s) \/ Fetch(s)
      PROVE  TypeOfFlags'
  BY <1>1 DEF Wipe, Refuse, Begin, Fetch, TypeOK, TypeOfFlags, flags
<1>2. ASSUME NEW s \in Syncs,
             \/ CreateSyncLog(s) \/ Close(s) \/ Catch(s)
      PROVE  TypeOfFlags'
  BY <1>2, Words DEF CreateSyncLog, Close, Catch, TypeOK, TypeOfFlags
<1>3. ASSUME NEW s \in Syncs,
             \/ Pulled(s) \/ FindRows(s) \/ Pushed(s) \/ Finally(s)
      PROVE  TypeOfFlags'
  BY <1>3 DEF Pulled, FindRows, Pushed, Finally, TypeOK, TypeOfFlags, flags
<1>4. ASSUME NEW s \in Syncs, NEW n \in Names,
             \/ FindMapping(s, n) \/ FindRow(s, n) \/ UpdateExistingUser(s, n)
             \/ UpdateMapping(s, n)
      PROVE  TypeOfFlags'
  BY <1>4 DEF FindMapping, FindRow, UpdateExistingUser, UpdateMapping, TypeOK, TypeOfFlags,
    flags
<1>5. ASSUME NEW s \in Syncs, NEW n \in Names,
             \/ CreateNewUser(s, n) \/ CreateMapping(s, n) \/ Push(s, n)
             \/ Link(s, n)
      PROVE  TypeOfFlags'
  BY <1>5 DEF CreateNewUser, CreateMapping, Push, Link, TypeOK, TypeOfFlags, flags
<1>6. ASSUME
             \/ AskCancel \/ ClearFlag \/ Restart
      PROVE  TypeOfFlags'
  BY <1>6 DEF AskCancel, ClearFlag, Restart, TypeOK, TypeOfFlags
<1>7. ASSUME MarkCancelled PROVE TypeOfFlags'
  BY <1>7, Words DEF MarkCancelled, TypeOK, TypeOfFlags
<1>8. ASSUME NEW n \in Names,
             \/ WriteAccount(n) \/ StartAdoption(n) \/ Adopt(n) \/ CreateUser(n)
      PROVE  TypeOfFlags'
  BY <1>8 DEF WriteAccount, StartAdoption, Adopt, CreateUser, TypeOK, TypeOfFlags, flags
<1>9. ASSUME NEW n \in Names,
             \/ UpdateUser(n) \/ DeleteMapping(n) \/ HourPasses(n)
      PROVE  TypeOfFlags'
  BY <1>9 DEF UpdateUser, DeleteMapping, HourPasses, TypeOK, TypeOfFlags, flags
<1>u. ASSUME UNCHANGED vars PROVE TypeOfFlags'
  BY <1>u DEF TypeOK, TypeOfFlags, vars, flags
<1>q. QED
  BY <1>1, <1>2, <1>3, <1>4, <1>5, <1>6, <1>7, <1>8, <1>9, <1>u DEF Next, Step, Pull, Outside

LEMMA MarksTypeStep ==
    ASSUME TypeOK, StagesOK, [Next]_vars PROVE TypeOfMarks'
<1>1. ASSUME NEW s \in Syncs,
             \/ Wipe(s) \/ Refuse(s) \/ Begin(s) \/ CreateSyncLog(s)
      PROVE  TypeOfMarks'
  BY <1>1 DEF Wipe, Refuse, Begin, CreateSyncLog, TypeOK, TypeOfMarks, marks
<1>2. ASSUME NEW s \in Syncs,
             \/ Fetch(s) \/ Pulled(s) \/ FindRows(s) \/ Pushed(s)
      PROVE  TypeOfMarks'
  BY <1>2 DEF Fetch, Pulled, FindRows, Pushed, TypeOK, TypeOfMarks, marks
<1>3. ASSUME NEW s \in Syncs,
             \/ Close(s) \/ Catch(s) \/ Finally(s)
      PROVE  TypeOfMarks'
  BY <1>3 DEF Close, Catch, Finally, TypeOK, TypeOfMarks, marks
<1>4. ASSUME NEW s \in Syncs, NEW n \in Names,
             \/ FindMapping(s, n) \/ FindRow(s, n) \/ UpdateMapping(s, n)
             \/ CreateMapping(s, n)
      PROVE  TypeOfMarks'
  BY <1>4 DEF FindMapping, FindRow, UpdateMapping, CreateMapping, TypeOK, TypeOfMarks, marks
<1>5. ASSUME NEW s \in Syncs, NEW n \in Names,
             \/ UpdateExistingUser(s, n) \/ CreateNewUser(s, n) \/ Push(s, n)
             \/ Link(s, n)
      PROVE  TypeOfMarks'
  BY <1>5, DisturbType DEF UpdateExistingUser, CreateNewUser, Push, Link, TypeOK, TypeOfMarks
<1>6. ASSUME
             \/ AskCancel \/ MarkCancelled \/ ClearFlag \/ Restart
      PROVE  TypeOfMarks'
  BY <1>6 DEF AskCancel, MarkCancelled, ClearFlag, Restart, TypeOK, TypeOfMarks, marks
<1>7. ASSUME NEW n \in Names,
             \/ WriteAccount(n) \/ Adopt(n) \/ CreateUser(n) \/ UpdateUser(n)
      PROVE  TypeOfMarks'
  BY <1>7, DisturbType DEF WriteAccount, Adopt, CreateUser, UpdateUser, TypeOK, TypeOfMarks
<1>8. ASSUME NEW n \in Names, StartAdoption(n) \/ HourPasses(n) PROVE TypeOfMarks'
  BY <1>8 DEF StartAdoption, HourPasses, TypeOK, TypeOfMarks, marks
<1>9. ASSUME NEW n \in Names, DeleteMapping(n) PROVE TypeOfMarks'
  BY <1>9, DisturbType DEF DeleteMapping, TypeOK, TypeOfMarks
<1>u. ASSUME UNCHANGED vars PROVE TypeOfMarks'
  BY <1>u DEF TypeOK, TypeOfMarks, vars, marks
<1>q. QED
  BY <1>1, <1>2, <1>3, <1>4, <1>5, <1>6, <1>7, <1>8, <1>9, <1>u DEF Next, Step, Pull, Outside

LEMMA BoundsStep ==
    ASSUME TypeOK, StagesOK, [Next]_vars PROVE TypeOfBounds'
<1>1. ASSUME NEW s \in Syncs, Wipe(s) PROVE TypeOfBounds'
  BY <1>1, FaultType DEF Wipe, TypeOK, TypeOfBounds
<1>2. ASSUME NEW s \in Syncs, Refuse(s) PROVE TypeOfBounds'
  BY <1>2, FaultType DEF Refuse, TypeOK, TypeOfBounds
<1>3. ASSUME NEW s \in Syncs, Begin(s) PROVE TypeOfBounds'
  BY <1>3, FaultType DEF Begin, TypeOK, TypeOfBounds
<1>4. ASSUME NEW s \in Syncs, CreateSyncLog(s) PROVE TypeOfBounds'
  BY <1>4, FaultType DEF CreateSyncLog, TypeOK, TypeOfBounds
<1>5. ASSUME NEW s \in Syncs, Fetch(s) PROVE TypeOfBounds'
  BY <1>5, FaultType DEF Fetch, TypeOK, TypeOfBounds
<1>6. ASSUME NEW s \in Syncs, Pulled(s) PROVE TypeOfBounds'
  BY <1>6, FaultType DEF Pulled, TypeOK, TypeOfBounds
<1>7. ASSUME NEW s \in Syncs, FindRows(s) PROVE TypeOfBounds'
  BY <1>7, FaultType DEF FindRows, TypeOK, TypeOfBounds
<1>8. ASSUME NEW s \in Syncs, Pushed(s) PROVE TypeOfBounds'
  BY <1>8, FaultType DEF Pushed, TypeOK, TypeOfBounds
<1>9. ASSUME NEW s \in Syncs, Close(s) PROVE TypeOfBounds'
  BY <1>9, FaultType DEF Close, TypeOK, TypeOfBounds
<1>10. ASSUME NEW s \in Syncs, Catch(s) PROVE TypeOfBounds'
  BY <1>10, FaultType DEF Catch, TypeOK, TypeOfBounds
<1>11. ASSUME NEW s \in Syncs, Finally(s) PROVE TypeOfBounds'
  BY <1>11, FaultType DEF Finally, TypeOK, TypeOfBounds
<1>12. ASSUME NEW s \in Syncs, NEW n \in Names, FindMapping(s, n) PROVE TypeOfBounds'
  BY <1>12, FaultType DEF FindMapping, TypeOK, TypeOfBounds
<1>13. ASSUME NEW s \in Syncs, NEW n \in Names, FindRow(s, n) PROVE TypeOfBounds'
  BY <1>13, FaultType DEF FindRow, TypeOK, TypeOfBounds
<1>14. ASSUME NEW s \in Syncs, NEW n \in Names, UpdateExistingUser(s, n) PROVE TypeOfBounds'
  BY <1>14, FaultType DEF UpdateExistingUser, TypeOK, TypeOfBounds
<1>15. ASSUME NEW s \in Syncs, NEW n \in Names, UpdateMapping(s, n) PROVE TypeOfBounds'
  BY <1>15, FaultType DEF UpdateMapping, TypeOK, TypeOfBounds
<1>16. ASSUME NEW s \in Syncs, NEW n \in Names, CreateNewUser(s, n) PROVE TypeOfBounds'
  BY <1>16, FaultType DEF CreateNewUser, TypeOK, TypeOfBounds
<1>17. ASSUME NEW s \in Syncs, NEW n \in Names, CreateMapping(s, n) PROVE TypeOfBounds'
  BY <1>17, FaultType DEF CreateMapping, TypeOK, TypeOfBounds
<1>18. ASSUME NEW s \in Syncs, NEW n \in Names, Push(s, n) PROVE TypeOfBounds'
  BY <1>18, FaultType DEF Push, TypeOK, TypeOfBounds
<1>19. ASSUME NEW s \in Syncs, NEW n \in Names, Link(s, n) PROVE TypeOfBounds'
  BY <1>19, FaultType DEF Link, TypeOK, TypeOfBounds
<1>20. ASSUME AskCancel PROVE TypeOfBounds'
  BY <1>20, FaultType, Constants DEF AskCancel, TypeOK, TypeOfBounds
<1>21. ASSUME MarkCancelled PROVE TypeOfBounds'
  BY <1>21, FaultType DEF MarkCancelled, TypeOK, TypeOfBounds
<1>22. ASSUME ClearFlag PROVE TypeOfBounds'
  BY <1>22, FaultType DEF ClearFlag, TypeOK, TypeOfBounds
<1>23. ASSUME NEW n \in Names, WriteAccount(n) PROVE TypeOfBounds'
  BY <1>23, FaultType, Constants DEF WriteAccount, TypeOK, TypeOfBounds
<1>24. ASSUME NEW n \in Names, StartAdoption(n) PROVE TypeOfBounds'
  BY <1>24, FaultType, Constants DEF StartAdoption, TypeOK, TypeOfBounds
<1>25. ASSUME NEW n \in Names, Adopt(n) PROVE TypeOfBounds'
  BY <1>25, FaultType DEF Adopt, TypeOK, TypeOfBounds
<1>26. ASSUME NEW n \in Names, CreateUser(n) PROVE TypeOfBounds'
  BY <1>26, FaultType, Constants DEF CreateUser, TypeOK, TypeOfBounds
<1>27. ASSUME NEW n \in Names, UpdateUser(n) PROVE TypeOfBounds'
  BY <1>27, FaultType, Constants DEF UpdateUser, TypeOK, TypeOfBounds
<1>28. ASSUME NEW n \in Names, DeleteMapping(n) PROVE TypeOfBounds'
  BY <1>28, FaultType, Constants DEF DeleteMapping, TypeOK, TypeOfBounds
<1>29. ASSUME NEW n \in Names, HourPasses(n) PROVE TypeOfBounds'
  BY <1>29, FaultType DEF HourPasses, TypeOK, TypeOfBounds
<1>30. ASSUME Restart PROVE TypeOfBounds'
  BY <1>30, FaultType DEF Restart, TypeOK, TypeOfBounds
<1>u. ASSUME UNCHANGED vars PROVE TypeOfBounds'
  BY <1>u DEF TypeOK, TypeOfBounds, vars
<1>q. QED
  BY <1>1, <1>2, <1>3, <1>4, <1>5, <1>6, <1>7, <1>8, <1>9, <1>10, <1>11, <1>12, <1>13, <1>14,
    <1>15, <1>16, <1>17, <1>18, <1>19, <1>20, <1>21, <1>22, <1>23, <1>24, <1>25, <1>26, <1>27,
    <1>28, <1>29, <1>30, <1>u DEF Next, Step, Pull, Outside

LEMMA TypeStep == ASSUME TypeOK, StagesOK, [Next]_vars PROVE TypeOK'
  BY StoresStep, CallsStep, FlagsStep, MarksTypeStep, BoundsStep DEF TypeOK

-----------------------------------------------------------------------------
(* The flag.                                                               *)

FlagInv == OneAtATime /\ WorkHoldsFlag /\ FlagTells

\* A step that starts and ends no call and leaves the flag alone.
LEMMA FlagSame ==
    ASSUME FlagInv, \A s \in Syncs : Active(s)' <=> Active(s),
           UNCHANGED <<isSyncing, overridden, leaked>>
    PROVE  FlagInv'
  BY DEF FlagInv, OneAtATime, WorkHoldsFlag, FlagTells

\* A place a call is moved to decides whether it is at work.
LEMMA GotoActive ==
    ASSUME TypeOK, NEW s \in Syncs, NEW to, pc' = [pc EXCEPT ![s] = to]
    PROVE  /\ Active(s)' <=> to \in Running
           /\ \A t \in Syncs \ {s} : Active(t)' <=> Active(t)
  BY DEF TypeOK, TypeOfCalls, Active

LEMMA FlagStep == ASSUME TypeOK, FlagInv, [Next]_vars PROVE FlagInv'
<1>1. ASSUME NEW s \in Syncs, Wipe(s) PROVE FlagInv'
  <2>1. ~Active(s)
    BY <1>1 DEF Wipe, Active, Running
  <2>2. PICK to \in {"ended", "wiped"} : pc' = [pc EXCEPT ![s] = to]
    BY <1>1 DEF Wipe, Goto
  <2>3. to \notin Running
    BY DEF Running
  <2>4. \A t \in Syncs : Active(t)' <=> Active(t)
    BY <2>1, <2>2, <2>3, GotoActive
  <2>q. QED BY <1>1, <2>4, FlagSame DEF Wipe, flags
<1>2. ASSUME NEW s \in Syncs, Refuse(s) PROVE FlagInv'
  <2>1. ~Active(s)
    BY <1>2 DEF Refuse, Active, Running
  <2>2. PICK to \in {"ended", "wiped"} : pc' = [pc EXCEPT ![s] = to]
    BY <1>2 DEF Refuse, Goto
  <2>3. to \notin Running
    BY DEF Running
  <2>4. \A t \in Syncs : Active(t)' <=> Active(t)
    BY <2>1, <2>2, <2>3, GotoActive
  <2>q. QED BY <1>2, <2>4, FlagSame DEF Refuse, flags
<1>3. ASSUME NEW s \in Syncs, Begin(s) PROVE FlagInv'
  <2>1. ~isSyncing /\ isSyncing' /\ UNCHANGED <<overridden, leaked>>
    BY <1>3 DEF Begin
  <2>2. Active(s)' /\ \A t \in Syncs \ {s} : Active(t)' <=> Active(t)
    BY <1>3, GotoActive DEF Begin, Running
  <2>3. ~overridden => \A t \in Syncs : ~Active(t)
    BY <2>1 DEF FlagInv, WorkHoldsFlag
  <2>q. QED BY <2>1, <2>2, <2>3 DEF FlagInv, OneAtATime, WorkHoldsFlag, FlagTells
<1>4. ASSUME NEW s \in Syncs, CreateSyncLog(s) PROVE FlagInv'
  <2>1. UNCHANGED <<isSyncing, overridden>> /\ Active(s)
    BY <1>4 DEF CreateSyncLog, Active, Running
  <2>2. \A t \in Syncs \ {s} : Active(t)' <=> Active(t)
    <3>1. PICK to : pc' = [pc EXCEPT ![s] = to]
      BY <1>4 DEF CreateSyncLog, Goto
    <3>q. QED BY <3>1, GotoActive
  <2>3. (Active(s)' /\ leaked' = leaked) \/ (~Active(s)' /\ leaked')
    <3>1. CASE Goto(s, "fetch") /\ UNCHANGED leaked
      <4>1. "fetch" \in Running
        BY DEF Running
      <4>q. QED BY <3>1, <4>1, GotoActive DEF Goto
    <3>2. CASE Goto(s, "ended") /\ leaked'
      <4>1. "ended" \notin Running
        BY DEF Running
      <4>q. QED BY <3>2, <4>1, GotoActive DEF Goto
    <3>q. QED BY <1>4, <3>1, <3>2 DEF CreateSyncLog
  <2>4. CASE Active(s)' /\ leaked' = leaked
    BY <2>1, <2>2, <2>4, FlagSame
  <2>5. CASE ~Active(s)' /\ leaked'
    BY <2>1, <2>2, <2>5 DEF FlagInv, OneAtATime, WorkHoldsFlag, FlagTells
  <2>q. QED BY <2>3, <2>4, <2>5
<1>5. ASSUME NEW s \in Syncs, Fetch(s) PROVE FlagInv'
  <2>1. Active(s)
    BY <1>5 DEF Fetch, Active, Running
  <2>2. \A t \in Syncs : Active(t)' <=> Active(t)
    BY <1>5, <2>1, GotoActive DEF Fetch, Goto, Running
  <2>q. QED BY <1>5, <2>2, FlagSame DEF Fetch, flags
<1>6. ASSUME NEW s \in Syncs, Pulled(s) PROVE FlagInv'
  <2>1. Active(s)
    BY <1>6 DEF Pulled, Active, Running
  <2>2. \A t \in Syncs : Active(t)' <=> Active(t)
    BY <1>6, <2>1, GotoActive DEF Pulled, Goto, Running
  <2>q. QED BY <1>6, <2>2, FlagSame DEF Pulled, flags
<1>7. ASSUME NEW s \in Syncs, FindRows(s) PROVE FlagInv'
  <2>1. Active(s)
    BY <1>7 DEF FindRows, Active, Running
  <2>2. \A t \in Syncs : Active(t)' <=> Active(t)
    BY <1>7, <2>1, GotoActive DEF FindRows, Goto, Running
  <2>q. QED BY <1>7, <2>2, FlagSame DEF FindRows, flags
<1>8. ASSUME NEW s \in Syncs, Pushed(s) PROVE FlagInv'
  <2>1. Active(s)
    BY <1>8 DEF Pushed, Active, Running
  <2>2. \A t \in Syncs : Active(t)' <=> Active(t)
    BY <1>8, <2>1, GotoActive DEF Pushed, Goto, Running
  <2>q. QED BY <1>8, <2>2, FlagSame DEF Pushed, flags
<1>9. ASSUME NEW s \in Syncs, Close(s) PROVE FlagInv'
  <2>1. Active(s)
    BY <1>9 DEF Close, Active, Running
  <2>2. \A t \in Syncs : Active(t)' <=> Active(t)
    BY <1>9, <2>1, GotoActive DEF Close, Goto, Running
  <2>q. QED BY <1>9, <2>2, FlagSame DEF Close, flags
<1>10. ASSUME NEW s \in Syncs, Catch(s) PROVE FlagInv'
  <2>1. Active(s)
    BY <1>10 DEF Catch, Active, Running
  <2>2. \A t \in Syncs : Active(t)' <=> Active(t)
    BY <1>10, <2>1, GotoActive DEF Catch, Goto, Running
  <2>q. QED BY <1>10, <2>2, FlagSame DEF Catch, flags
<1>11. ASSUME NEW s \in Syncs, Finally(s) PROVE FlagInv'
  <2>1. Active(s) /\ ~isSyncing' /\ UNCHANGED <<overridden, leaked>>
    BY <1>11 DEF Finally, Active, Running
  <2>2. ~Active(s)' /\ \A t \in Syncs \ {s} : Active(t)' <=> Active(t)
    <3>1. pc' = [pc EXCEPT ![s] = "ended"]
      BY <1>11 DEF Finally
    <3>2. "ended" \notin Running
      BY DEF Running
    <3>q. QED BY <3>1, <3>2, GotoActive
  <2>3. ~overridden => \A t \in Syncs : ~Active(t)'
    BY <2>1, <2>2 DEF FlagInv, OneAtATime
  <2>q. QED BY <2>1, <2>3 DEF FlagInv, OneAtATime, WorkHoldsFlag, FlagTells
<1>12. ASSUME NEW s \in Syncs, NEW n \in Names,
             \/ FindMapping(s, n) \/ FindRow(s, n) \/ UpdateExistingUser(s, n)
             \/ UpdateMapping(s, n)
      PROVE  FlagInv'
  BY <1>12, FlagSame DEF FindMapping, FindRow, UpdateExistingUser, UpdateMapping, Await,
    Proceed, Resolve, Reject, Finish, flags, Active
<1>13. ASSUME NEW s \in Syncs, NEW n \in Names,
             \/ CreateNewUser(s, n) \/ CreateMapping(s, n) \/ Push(s, n)
             \/ Link(s, n)
      PROVE  FlagInv'
  BY <1>13, FlagSame DEF CreateNewUser, CreateMapping, Push, Link, Await, Reject, Finish,
    flags, Active, Resolve
<1>14. ASSUME AskCancel \/ MarkCancelled PROVE FlagInv'
  BY <1>14, FlagSame DEF AskCancel, MarkCancelled, flags, Active, calls
<1>15. ASSUME ClearFlag PROVE FlagInv'
  BY <1>15 DEF ClearFlag, FlagInv, OneAtATime, WorkHoldsFlag, FlagTells
<1>16. ASSUME NEW n \in Names,
             \/ WriteAccount(n) \/ StartAdoption(n) \/ Adopt(n) \/ CreateUser(n)
      PROVE  FlagInv'
  BY <1>16, FlagSame DEF WriteAccount, StartAdoption, Adopt, CreateUser, flags, Active, calls
<1>17. ASSUME NEW n \in Names,
             \/ UpdateUser(n) \/ DeleteMapping(n) \/ HourPasses(n)
      PROVE  FlagInv'
  BY <1>17, FlagSame DEF UpdateUser, DeleteMapping, HourPasses, flags, Active, calls
<1>18. ASSUME Restart PROVE FlagInv'
  <2>1. \A s \in Syncs : ~Active(s)'
    BY <1>18 DEF Restart, Active, Running, TypeOK, TypeOfCalls
  <2>2. ~isSyncing'
    BY <1>18 DEF Restart
  <2>q. QED BY <2>1, <2>2 DEF FlagInv, OneAtATime, WorkHoldsFlag, FlagTells
<1>u. ASSUME UNCHANGED vars PROVE FlagInv'
  BY <1>u, FlagSame DEF vars, flags, calls, Active
<1>q. QED
  BY <1>1, <1>2, <1>3, <1>4, <1>5, <1>6, <1>7, <1>8, <1>9, <1>10, <1>11, <1>12, <1>13, <1>14,
    <1>15, <1>16, <1>17, <1>18, <1>u DEF Next, Step, Pull, Outside

-----------------------------------------------------------------------------
(* Accounts, rows and links stay.                                          *)

Stays(m) == /\ kc[m] # None => kc'[m] # None
            /\ pg[m].stored => pg'[m].stored
            /\ pg[m].linked => pg'[m].linked

LEMMA StoresGrow ==
    ASSUME TypeOK, StagesOK, [Next]_vars, NEW m \in Names PROVE Stays(m)
<1>1. ASSUME NEW s \in Syncs,
             \/ Wipe(s) \/ Refuse(s) \/ Begin(s) \/ CreateSyncLog(s)
      PROVE  Stays(m)
  BY <1>1 DEF Wipe, Refuse, Begin, CreateSyncLog, Stays, stores
<1>2. ASSUME NEW s \in Syncs,
             \/ Fetch(s) \/ Pulled(s) \/ FindRows(s) \/ Pushed(s)
      PROVE  Stays(m)
  BY <1>2 DEF Fetch, Pulled, FindRows, Pushed, Stays, stores
<1>3. ASSUME NEW s \in Syncs,
             \/ Close(s) \/ Catch(s) \/ Finally(s)
      PROVE  Stays(m)
  BY <1>3 DEF Close, Catch, Finally, Stays, stores
<1>4. ASSUME NEW s \in Syncs, NEW n \in Names,
             \/ FindMapping(s, n) \/ FindRow(s, n) \/ UpdateExistingUser(s, n)
             \/ UpdateMapping(s, n)
      PROVE  Stays(m)
  BY <1>4 DEF FindMapping, FindRow, UpdateExistingUser, UpdateMapping, Stays, stores, Row,
    TypeOK, TypeOfStores
<1>5. ASSUME NEW s \in Syncs, NEW n \in Names,
             \/ CreateNewUser(s, n) \/ CreateMapping(s, n)
      PROVE  Stays(m)
  BY <1>5 DEF CreateNewUser, CreateMapping, Stays, Row, TypeOK, TypeOfStores, stores
<1>6. ASSUME NEW s \in Syncs, NEW n \in Names, Push(s, n) PROVE Stays(m)
  <2>1. job[s][n].data \in Data
    BY <1>6, StageData DEF Push
  <2>q. QED BY <1>6, <2>1, Constants DEF Push, Stays, TypeOK, TypeOfStores
<1>7. ASSUME NEW s \in Syncs, NEW n \in Names, Link(s, n) PROVE Stays(m)
  <2>1. pg[n].stored /\ pg[n] \in StoredRows
    BY <1>7, RowTypes DEF Link, TypeOK, TypeOfStores, StagesOK, StageOK, PushStages
  <2>q. QED BY <1>7, <2>1 DEF Link, Stays, TypeOK, TypeOfStores, StoredRows
<1>8. ASSUME
             \/ AskCancel \/ MarkCancelled \/ ClearFlag \/ Restart
      PROVE  Stays(m)
  BY <1>8 DEF AskCancel, MarkCancelled, ClearFlag, Restart, Stays, stores
<1>9. ASSUME NEW n \in Names, WriteAccount(n) PROVE Stays(m)
  BY <1>9, Constants DEF WriteAccount, Stays, TypeOK, TypeOfStores
<1>10. ASSUME NEW n \in Names, StartAdoption(n) \/ DeleteMapping(n) PROVE Stays(m)
  BY <1>10 DEF StartAdoption, DeleteMapping, Stays, stores
<1>11. ASSUME NEW n \in Names, Adopt(n) PROVE Stays(m)
  <2>1. ~pg[n].stored \/ UNCHANGED pg
    BY <1>11 DEF Adopt, Taken
  <2>2. ~pg[n].stored => ~pg[n].linked
    BY RowTypes DEF TypeOK, TypeOfStores
  <2>q. QED BY <1>11, <2>1, <2>2 DEF Adopt, Stays, TypeOK, TypeOfStores
<1>12. ASSUME NEW n \in Names, CreateUser(n) PROVE Stays(m)
  <2>1. ~pg[n].stored \/ UNCHANGED pg
    BY <1>12 DEF CreateUser, Taken
  <2>2. ~pg[n].stored => ~pg[n].linked
    BY RowTypes DEF TypeOK, TypeOfStores
  <2>q. QED BY <1>12, <2>1, <2>2 DEF CreateUser, Stays, TypeOK, TypeOfStores
<1>13. ASSUME NEW n \in Names, UpdateUser(n) PROVE Stays(m)
  <2>1. pg[n] \in StoredRows
    BY <1>13, RowTypes DEF UpdateUser, TypeOK, TypeOfStores
  <2>q. QED BY <1>13, <2>1 DEF UpdateUser, Stays, TypeOK, TypeOfStores, StoredRows
<1>14. ASSUME NEW n \in Names, HourPasses(n) PROVE Stays(m)
  <2>1. pg[n] \in StoredRows
    BY <1>14, RowTypes DEF HourPasses, TypeOK, TypeOfStores
  <2>q. QED BY <1>14, <2>1 DEF HourPasses, Stays, TypeOK, TypeOfStores, StoredRows
<1>u. ASSUME UNCHANGED vars PROVE Stays(m)
  BY <1>u DEF vars, stores, Stays
<1>q. QED
  BY <1>1, <1>2, <1>3, <1>4, <1>5, <1>6, <1>7, <1>8, <1>9, <1>10, <1>11, <1>12, <1>13, <1>14,
    <1>u DEF Next, Step, Pull, Outside

-----------------------------------------------------------------------------
(* What a call relies on.                                                  *)

LEMMA StageCarries ==
    ASSUME NEW t, NEW m, StageOK(t, m), Stays(m), job'[t][m] = job[t][m], pc'[t] = pc[t]
    PROVE  StageOK(t, m)'
  BY DEF StageOK, Stays

LEMMA StageOver ==
    ASSUME NEW t, NEW m, job'[t][m].at \in {"none", "done"} PROVE StageOK(t, m)'
  BY DEF StageOK, PullStages, PushStages

\* A name no call is busy with asks for nothing.
LEMMA StageFree ==
    ASSUME NEW t, NEW m, job'[t][m] = job[t][m],
           job[t][m].at \notin PullStages, job[t][m].at \notin PushStages
    PROVE  StageOK(t, m)'
  BY DEF StageOK, PullStages, PushStages

\* Everything a call does not do of name n.
Elsewhere(s, n) ==
    \A t \in Syncs, m \in Names : t # s \/ m # n => job'[t][m] = job[t][m]

USE DEF Elsewhere

\* Moving a call on one name leaves its other names and the other calls alone.
LEMMA AwaitJob ==
    ASSUME TypeOK, NEW s \in Syncs, NEW n \in Names, NEW stage \in Stages,
           Await(s, n, stage)
    PROVE  /\ UNCHANGED pc
           /\ job'[s][n].at = stage /\ job'[s][n].data = job[s][n].data
           /\ Elsewhere(s, n)
<1>1. job[s][n] \in Jobs
  BY DEF TypeOK, TypeOfCalls
<1>2. job'[s][n] = [job[s][n] EXCEPT !.at = stage]
  BY DEF TypeOK, TypeOfCalls, Await
<1>q. QED BY <1>1, <1>2 DEF TypeOK, TypeOfCalls, Await, Jobs

LEMMA SettleJob ==
    ASSUME TypeOK, NEW s \in Syncs, NEW n \in Names, Resolve(s, n) \/ Reject(s, n)
    PROVE  /\ UNCHANGED pc
           /\ job'[s][n].at = "done"
           /\ Elsewhere(s, n)
<1>1. PICK fine : Finish(s, n, fine)
  BY DEF Resolve, Reject
<1>q. QED BY <1>1 DEF TypeOK, TypeOfCalls, Finish, NoJob

LEMMA StagesStep == ASSUME TypeOK, StagesOK, [Next]_vars PROVE StagesOK'
<1>g. \A m \in Names : Stays(m)
  BY StoresGrow
<1>h. ASSUME NEW s \in Syncs, NEW n \in Names, UNCHANGED pc, StageOK(s, n)',
             Elsewhere(s, n)
      PROVE  StagesOK'
  BY <1>g, <1>h, StageCarries DEF StagesOK
<1>1. ASSUME NEW s \in Syncs, Wipe(s) PROVE StagesOK'
  <2>1. pc[s] \notin {"pull", "push"} /\ UNCHANGED job
    BY <1>1 DEF Wipe, Goto
  <2>2. \A t \in Syncs : t # s => pc'[t] = pc[t]
    BY <1>1 DEF Wipe, Goto, TypeOK, TypeOfCalls
  <2>3. \A m \in Names : job[s][m].at \notin PullStages /\ job[s][m].at \notin PushStages
    BY <2>1 DEF StagesOK, StageOK
  <2>q. QED BY <1>g, <2>1, <2>2, <2>3, StageCarries, StageFree DEF StagesOK
<1>2. ASSUME NEW s \in Syncs, Refuse(s) PROVE StagesOK'
  <2>1. pc[s] \notin {"pull", "push"} /\ UNCHANGED job
    BY <1>2 DEF Refuse, Goto
  <2>2. \A t \in Syncs : t # s => pc'[t] = pc[t]
    BY <1>2 DEF Refuse, Goto, TypeOK, TypeOfCalls
  <2>3. \A m \in Names : job[s][m].at \notin PullStages /\ job[s][m].at \notin PushStages
    BY <2>1 DEF StagesOK, StageOK
  <2>q. QED BY <1>g, <2>1, <2>2, <2>3, StageCarries, StageFree DEF StagesOK
<1>3. ASSUME NEW s \in Syncs, Begin(s) PROVE StagesOK'
  <2>1. pc[s] \notin {"pull", "push"} /\ UNCHANGED job
    BY <1>3 DEF Begin, Goto
  <2>2. \A t \in Syncs : t # s => pc'[t] = pc[t]
    BY <1>3 DEF Begin, Goto, TypeOK, TypeOfCalls
  <2>3. \A m \in Names : job[s][m].at \notin PullStages /\ job[s][m].at \notin PushStages
    BY <2>1 DEF StagesOK, StageOK
  <2>q. QED BY <1>g, <2>1, <2>2, <2>3, StageCarries, StageFree DEF StagesOK
<1>4. ASSUME NEW s \in Syncs, CreateSyncLog(s) PROVE StagesOK'
  <2>1. pc[s] \notin {"pull", "push"} /\ UNCHANGED job
    BY <1>4 DEF CreateSyncLog, Goto
  <2>2. \A t \in Syncs : t # s => pc'[t] = pc[t]
    BY <1>4 DEF CreateSyncLog, Goto, TypeOK, TypeOfCalls
  <2>3. \A m \in Names : job[s][m].at \notin PullStages /\ job[s][m].at \notin PushStages
    BY <2>1 DEF StagesOK, StageOK
  <2>q. QED BY <1>g, <2>1, <2>2, <2>3, StageCarries, StageFree DEF StagesOK
<1>5. ASSUME NEW s \in Syncs, Fetch(s) PROVE StagesOK'
  <2>1. \A t \in Syncs : t # s => pc'[t] = pc[t] /\ \A m \in Names : job'[t][m] = job[t][m]
    BY <1>5 DEF Fetch, Goto, TypeOK, TypeOfCalls
  <2>2. CASE Goto(s, "broken")
    <3>1. UNCHANGED job
      BY <2>2 DEF Goto
    <3>2. \A m \in Names : job[s][m].at \notin PullStages /\ job[s][m].at \notin PushStages
      BY <1>5 DEF Fetch, StagesOK, StageOK
    <3>q. QED BY <1>g, <2>1, <3>1, <3>2, StageFree, StageCarries DEF StagesOK
  <2>3. CASE ~Goto(s, "broken")
    <3>1. /\ pc' = [pc EXCEPT ![s] = "pull"]
          /\ job' = [job EXCEPT ![s] =
                       [n \in Names |-> IF kc[n] = None THEN NoJob
                                        ELSE [NoJob EXCEPT !.at = "find", !.data = kc[n]]]]
      BY <1>5, <2>3 DEF Fetch
    <3>2. \A m \in Names : StageOK(s, m)'
      <4>1. TAKE m \in Names
      <4>2. CASE kc[m] = None
        <5>1. job'[s][m].at = "none"
          BY <3>1, <4>2 DEF NoJob, TypeOK, TypeOfCalls
        <5>q. QED BY <5>1, StageOver
      <4>3. CASE kc[m] # None
        <5>1. job'[s][m].at = "find" /\ job'[s][m].data = kc[m]
          BY <3>1, <4>3 DEF NoJob, TypeOK, TypeOfCalls
        <5>2. kc[m] \in Data /\ kc'[m] # None
          BY <1>g, <4>3 DEF Stays, TypeOK, TypeOfStores
        <5>3. kc'[m] # None /\ pc'[s] = "pull"
          BY <3>1, <5>2 DEF TypeOK, TypeOfCalls
        <5>q. QED BY <5>1, <5>2, <5>3 DEF StageOK, PullStages, PushStages
      <4>q. QED BY <4>2, <4>3
    <3>q. QED BY <1>g, <2>1, <3>2, StageCarries DEF StagesOK
  <2>q. QED BY <2>2, <2>3
<1>6. ASSUME NEW s \in Syncs, Pulled(s) PROVE StagesOK'
  <2>1. pc[s] # "push" /\ UNCHANGED job
    BY <1>6 DEF Pulled, Goto
  <2>2. \A t \in Syncs : t # s => pc'[t] = pc[t]
    BY <1>6 DEF Pulled, Goto, TypeOK, TypeOfCalls
  <2>3. \A m \in Names : job[s][m].at \notin PullStages /\ job[s][m].at \notin PushStages
    BY <1>6, <2>1 DEF Pulled, Settled, StagesOK, StageOK
  <2>q. QED BY <1>g, <2>1, <2>2, <2>3, StageCarries, StageFree DEF StagesOK
<1>7. ASSUME NEW s \in Syncs, FindRows(s) PROVE StagesOK'
  <2>1. \A t \in Syncs : t # s => pc'[t] = pc[t] /\ \A m \in Names : job'[t][m] = job[t][m]
    BY <1>7 DEF FindRows, Goto, TypeOK, TypeOfCalls
  <2>2. CASE Goto(s, "broken")
    <3>1. UNCHANGED job
      BY <2>2 DEF Goto
    <3>2. \A m \in Names : job[s][m].at \notin PullStages /\ job[s][m].at \notin PushStages
      BY <1>7 DEF FindRows, StagesOK, StageOK
    <3>q. QED BY <1>g, <2>1, <3>1, <3>2, StageFree, StageCarries DEF StagesOK
  <2>3. CASE ~Goto(s, "broken")
    <3> DEFINE read(n) ==
          IF pg[n].stored /\ (~pg[n].linked \/ pg[n].recent)
          THEN [job[s][n] EXCEPT !.at = "push", !.data = pg[n].data, !.linked = pg[n].linked]
          ELSE [job[s][n] EXCEPT !.at = "none"]
    <3>1. /\ pc' = [pc EXCEPT ![s] = "push"]
          /\ job' = [job EXCEPT ![s] = [n \in Names |-> read(n)]]
      BY <1>7, <2>3 DEF FindRows, TypeOK, TypeOfCalls
    <3>2. \A m \in Names : StageOK(s, m)'
      <4>1. TAKE m \in Names
      <4>2. job[s][m] \in Jobs /\ pc'[s] = "push" /\ job'[s][m] = read(m)
        BY <3>1 DEF TypeOK, TypeOfCalls
      <4>3. CASE pg[m].stored /\ (~pg[m].linked \/ pg[m].recent)
        <5>1. job'[s][m].at = "push" /\ job'[s][m].data = pg[m].data
          BY <4>2, <4>3 DEF Jobs
        <5>2. pg[m].data \in Data /\ pg'[m].stored
          BY <1>g, <4>3, RowTypes DEF Stays, TypeOK, TypeOfStores
        <5>3. pg'[m].stored /\ job'[s][m].data \in Data
          BY <5>1, <5>2
        <5>q. QED BY <4>2, <5>1, <5>3 DEF StageOK, PullStages, PushStages
      <4>4. CASE ~(pg[m].stored /\ (~pg[m].linked \/ pg[m].recent))
        <5>1. job'[s][m].at = "none"
          BY <4>2, <4>4 DEF Jobs
        <5>q. QED BY <5>1, StageOver
      <4>q. QED BY <4>3, <4>4
    <3>q. QED BY <1>g, <2>1, <3>2, StageCarries DEF StagesOK
  <2>q. QED BY <2>2, <2>3
<1>8. ASSUME NEW s \in Syncs, Pushed(s) PROVE StagesOK'
  <2>1. pc[s] # "pull" /\ UNCHANGED job
    BY <1>8 DEF Pushed, Goto
  <2>2. \A t \in Syncs : t # s => pc'[t] = pc[t]
    BY <1>8 DEF Pushed, Goto, TypeOK, TypeOfCalls
  <2>3. \A m \in Names : job[s][m].at \notin PullStages /\ job[s][m].at \notin PushStages
    BY <1>8, <2>1 DEF Pushed, Settled, StagesOK, StageOK
  <2>q. QED BY <1>g, <2>1, <2>2, <2>3, StageCarries, StageFree DEF StagesOK
<1>9. ASSUME NEW s \in Syncs, Close(s) PROVE StagesOK'
  <2>1. pc[s] \notin {"pull", "push"} /\ UNCHANGED job
    BY <1>9 DEF Close, Goto
  <2>2. \A t \in Syncs : t # s => pc'[t] = pc[t]
    BY <1>9 DEF Close, Goto, TypeOK, TypeOfCalls
  <2>3. \A m \in Names : job[s][m].at \notin PullStages /\ job[s][m].at \notin PushStages
    BY <2>1 DEF StagesOK, StageOK
  <2>q. QED BY <1>g, <2>1, <2>2, <2>3, StageCarries, StageFree DEF StagesOK
<1>10. ASSUME NEW s \in Syncs, Catch(s) PROVE StagesOK'
  <2>1. pc[s] \notin {"pull", "push"} /\ UNCHANGED job
    BY <1>10 DEF Catch, Goto
  <2>2. \A t \in Syncs : t # s => pc'[t] = pc[t]
    BY <1>10 DEF Catch, Goto, TypeOK, TypeOfCalls
  <2>3. \A m \in Names : job[s][m].at \notin PullStages /\ job[s][m].at \notin PushStages
    BY <2>1 DEF StagesOK, StageOK
  <2>q. QED BY <1>g, <2>1, <2>2, <2>3, StageCarries, StageFree DEF StagesOK
<1>11. ASSUME NEW s \in Syncs, Finally(s) PROVE StagesOK'
  <2>1. \A m \in Names : job'[s][m].at = "none"
    BY <1>11 DEF Finally, NoJob, TypeOK, TypeOfCalls
  <2>2. \A t \in Syncs, m \in Names : t # s => job'[t][m] = job[t][m] /\ pc'[t] = pc[t]
    BY <1>11 DEF Finally, TypeOK, TypeOfCalls
  <2>q. QED BY <1>g, <2>1, <2>2, StageOver, StageCarries DEF StagesOK
<1>12. ASSUME NEW s \in Syncs, NEW n \in Names, FindMapping(s, n) PROVE StagesOK'
  <2>1. \/ Await(s, n, "create") \/ Await(s, n, "row")
        \/ Resolve(s, n) \/ Reject(s, n)
    BY <1>12 DEF FindMapping, Proceed
  <2>2. StageOK(s, n) /\ job[s][n].at = "find" /\ Stays(n)
    BY <1>12, <1>g DEF FindMapping, StagesOK
  <2>3. CASE Await(s, n, "create") \/ Await(s, n, "row")
    <3>1. UNCHANGED pc /\ job'[s][n].at \in {"create", "row"} /\ job'[s][n].data = job[s][n].data
      BY <2>3, AwaitJob, Words
    <3>2. StageOK(s, n)'
      BY <2>2, <3>1 DEF StageOK, Stays, PullStages, PushStages
    <3>q. QED BY <1>h, <2>3, <3>2, AwaitJob, Words
  <2>4. CASE Resolve(s, n) \/ Reject(s, n)
    BY <1>h, <2>4, SettleJob, StageOver
  <2>q. QED BY <2>1, <2>3, <2>4
<1>13. ASSUME NEW s \in Syncs, NEW n \in Names, FindRow(s, n) PROVE StagesOK'
  <2>1. \/ Await(s, n, "create") \/ (Await(s, n, "update") /\ pg[n].stored)
        \/ Resolve(s, n) \/ Reject(s, n)
    BY <1>13 DEF FindRow, Proceed
  <2>2. StageOK(s, n) /\ job[s][n].at = "row" /\ Stays(n)
    BY <1>13, <1>g DEF FindRow, StagesOK
  <2>3. CASE Await(s, n, "create")
    <3>5. UNCHANGED pc /\ job'[s][n].at = "create" /\ job'[s][n].data = job[s][n].data
      BY <2>3, AwaitJob, Words
    <3>6. StageOK(s, n)'
      BY <2>2, <3>5 DEF StageOK, Stays, PullStages, PushStages
    <3>q. QED BY <1>h, <2>3, <3>6, AwaitJob, Words
  <2>4. CASE Await(s, n, "update") /\ pg[n].stored
    <3>5. UNCHANGED pc /\ job'[s][n].at = "update" /\ job'[s][n].data = job[s][n].data
      BY <2>4, AwaitJob, Words
    <3>6. StageOK(s, n)'
      BY <2>2, <2>4, <3>5 DEF StageOK, Stays, PullStages, PushStages
    <3>q. QED BY <1>h, <2>4, <3>6, AwaitJob, Words
  <2>5. CASE Resolve(s, n) \/ Reject(s, n)
    BY <1>h, <2>5, SettleJob, StageOver
  <2>q. QED BY <2>1, <2>3, <2>4, <2>5
<1>14. ASSUME NEW s \in Syncs, NEW n \in Names, UpdateExistingUser(s, n) PROVE StagesOK'
  <2>1. Await(s, n, "remap") \/ Resolve(s, n) \/ Reject(s, n)
    BY <1>14 DEF UpdateExistingUser
  <2>2. StageOK(s, n) /\ job[s][n].at = "update" /\ Stays(n)
    BY <1>14, <1>g DEF UpdateExistingUser, StagesOK
  <2>3. CASE Await(s, n, "remap")
    <3>1. UNCHANGED pc /\ job'[s][n].at \in {"remap"} /\ job'[s][n].data = job[s][n].data
      BY <2>3, AwaitJob, Words
    <3>2. pg'[n].stored /\ pg'[n].linked
      <4>1. pg' = [pg EXCEPT ![n] = Row(Merged(job[s][n].data, pg[n].data), TRUE, TRUE)]
        BY <1>14, <3>1, SettleJob DEF UpdateExistingUser
      <4>q. QED BY <4>1 DEF Row, TypeOK, TypeOfStores
    <3>3. StageOK(s, n)'
      BY <2>2, <3>1, <3>2 DEF StageOK, Stays, PullStages, PushStages
    <3>q. QED BY <1>h, <2>3, <3>3, AwaitJob, Words
  <2>4. CASE Resolve(s, n) \/ Reject(s, n)
    BY <1>h, <2>4, SettleJob, StageOver
  <2>q. QED BY <2>1, <2>3, <2>4
<1>15. ASSUME NEW s \in Syncs, NEW n \in Names, UpdateMapping(s, n) PROVE StagesOK'
  <2>1. Resolve(s, n) \/ Reject(s, n)
    BY <1>15 DEF UpdateMapping
  <2>q. QED BY <1>h, <2>1, SettleJob, StageOver
<1>16. ASSUME NEW s \in Syncs, NEW n \in Names, CreateNewUser(s, n) PROVE StagesOK'
  <2>1. \/ Await(s, n, "map") /\ pg' = [pg EXCEPT ![n] = Row(job[s][n].data, TRUE, TRUE)]
        \/ Reject(s, n)
    BY <1>16 DEF CreateNewUser
  <2>2. StageOK(s, n) /\ job[s][n].at = "create" /\ Stays(n)
    BY <1>16, <1>g DEF CreateNewUser, StagesOK
  <2>3. CASE Await(s, n, "map") /\ pg' = [pg EXCEPT ![n] = Row(job[s][n].data, TRUE, TRUE)]
    <3>1. pg'[n].stored /\ pg'[n].linked
      BY <2>3 DEF Row, TypeOK, TypeOfStores
    <3>5. UNCHANGED pc /\ job'[s][n].at = "map" /\ job'[s][n].data = job[s][n].data
      BY <2>3, AwaitJob, Words
    <3>6. StageOK(s, n)'
      BY <2>2, <3>1, <3>5 DEF StageOK, Stays, PullStages, PushStages
    <3>q. QED BY <1>h, <2>3, <3>6, AwaitJob, Words
  <2>4. CASE Reject(s, n)
    BY <1>h, <2>4, SettleJob, StageOver
  <2>q. QED BY <2>1, <2>3, <2>4
<1>17. ASSUME NEW s \in Syncs, NEW n \in Names, CreateMapping(s, n) PROVE StagesOK'
  <2>1. Resolve(s, n) \/ Reject(s, n)
    BY <1>17 DEF CreateMapping
  <2>q. QED BY <1>h, <2>1, SettleJob, StageOver
<1>18. ASSUME NEW s \in Syncs, NEW n \in Names, Push(s, n) PROVE StagesOK'
  <2>1. \/ Await(s, n, "link") /\ kc' = [kc EXCEPT ![n] = job[s][n].data]
        \/ Resolve(s, n) \/ Reject(s, n)
    BY <1>18 DEF Push
  <2>2. StageOK(s, n) /\ job[s][n].at = "push" /\ Stays(n)
    BY <1>18, <1>g DEF Push, StagesOK
  <2>3. CASE Await(s, n, "link") /\ kc' = [kc EXCEPT ![n] = job[s][n].data]
    <3>1. kc'[n] # None
      BY <2>2, <2>3, Constants DEF StageOK, PushStages, TypeOK, TypeOfStores
    <3>5. UNCHANGED pc /\ job'[s][n].at = "link" /\ job'[s][n].data = job[s][n].data
      BY <2>3, AwaitJob, Words
    <3>6. StageOK(s, n)'
      BY <2>2, <3>1, <3>5 DEF StageOK, Stays, PullStages, PushStages
    <3>q. QED BY <1>h, <2>3, <3>6, AwaitJob, Words
  <2>4. CASE Resolve(s, n) \/ Reject(s, n)
    BY <1>h, <2>4, SettleJob, StageOver
  <2>q. QED BY <2>1, <2>3, <2>4
<1>19. ASSUME NEW s \in Syncs, NEW n \in Names, Link(s, n) PROVE StagesOK'
  <2>1. \/ Await(s, n, "record") /\ pg' = [pg EXCEPT ![n].linked = TRUE, ![n].recent = TRUE]
        \/ Reject(s, n)
    BY <1>19 DEF Link
  <2>2. StageOK(s, n) /\ job[s][n].at = "link" /\ Stays(n)
    BY <1>19, <1>g DEF Link, StagesOK
  <2>3. CASE Await(s, n, "record") /\ pg' = [pg EXCEPT ![n].linked = TRUE, ![n].recent = TRUE]
    <3>1. pg[n] \in StoredRows
      BY <2>2, RowTypes DEF StageOK, PushStages, TypeOK, TypeOfStores
    <3>2. pg'[n].linked
      BY <2>3, <3>1 DEF StoredRows, TypeOK, TypeOfStores
    <3>5. UNCHANGED pc /\ job'[s][n].at = "record" /\ job'[s][n].data = job[s][n].data
      BY <2>3, AwaitJob, Words
    <3>6. StageOK(s, n)'
      BY <2>2, <3>2, <3>5 DEF StageOK, Stays, PullStages, PushStages
    <3>q. QED BY <1>h, <2>3, <3>6, AwaitJob, Words
  <2>4. CASE Reject(s, n)
    BY <1>h, <2>4, SettleJob, StageOver
  <2>q. QED BY <2>1, <2>3, <2>4
<1>20. ASSUME
             \/ AskCancel \/ MarkCancelled \/ ClearFlag
      PROVE  StagesOK'
  BY <1>20, <1>g, StageCarries DEF AskCancel, MarkCancelled, ClearFlag, calls, StagesOK
<1>21. ASSUME NEW n \in Names,
             \/ WriteAccount(n) \/ StartAdoption(n) \/ Adopt(n) \/ CreateUser(n)
      PROVE  StagesOK'
  BY <1>21, <1>g, StageCarries DEF WriteAccount, StartAdoption, Adopt, CreateUser, calls,
    StagesOK
<1>22. ASSUME NEW n \in Names,
             \/ UpdateUser(n) \/ DeleteMapping(n) \/ HourPasses(n)
      PROVE  StagesOK'
  BY <1>22, <1>g, StageCarries DEF UpdateUser, DeleteMapping, HourPasses, calls, StagesOK
<1>23. ASSUME Restart PROVE StagesOK'
  <2>1. \A t \in Syncs, m \in Names : job'[t][m].at = "none"
    BY <1>23 DEF Restart, NoJob
  <2>q. QED BY <2>1, StageOver DEF StagesOK
<1>u. ASSUME UNCHANGED vars PROVE StagesOK'
  BY <1>g, <1>u, StageCarries DEF vars, calls, StagesOK
<1>q. QED
  BY <1>1, <1>2, <1>3, <1>4, <1>5, <1>6, <1>7, <1>8, <1>9, <1>10, <1>11, <1>12, <1>13, <1>14,
    <1>15, <1>16, <1>17, <1>18, <1>19, <1>20, <1>21, <1>22, <1>23, <1>u DEF Next, Step, Pull,
    Outside

-----------------------------------------------------------------------------
(* Mappings point at something.                                            *)

LEMMA NoOrphansStep == ASSUME TypeOK, StagesOK, NoOrphans, [Next]_vars PROVE NoOrphans'
<1>g. \A m \in Names : Stays(m)
  BY StoresGrow
<1>h. ASSUME \A m \in Names : mapping'[m] # None => mapping[m] # None
      PROVE  NoOrphans'
  BY <1>g, <1>h DEF NoOrphans, Stays
<1>1. ASSUME NEW s \in Syncs, Wipe(s) PROVE NoOrphans'
  BY <1>1, <1>h DEF Wipe
<1>2. ASSUME NEW s \in Syncs,
             \/ Refuse(s) \/ Begin(s) \/ CreateSyncLog(s) \/ Fetch(s)
      PROVE  NoOrphans'
  BY <1>2, <1>h DEF Refuse, Begin, CreateSyncLog, Fetch, stores
<1>3. ASSUME NEW s \in Syncs,
             \/ Pulled(s) \/ FindRows(s) \/ Pushed(s) \/ Close(s)
      PROVE  NoOrphans'
  BY <1>3, <1>h DEF Pulled, FindRows, Pushed, Close, stores
<1>4. ASSUME NEW s \in Syncs, Catch(s) \/ Finally(s) PROVE NoOrphans'
  BY <1>4, <1>h DEF Catch, Finally, stores
<1>5. ASSUME NEW s \in Syncs, NEW n \in Names,
             \/ FindMapping(s, n) \/ FindRow(s, n) \/ UpdateExistingUser(s, n)
             \/ CreateNewUser(s, n)
      PROVE  NoOrphans'
  BY <1>5, <1>h DEF FindMapping, FindRow, UpdateExistingUser, CreateNewUser, stores
<1>6. ASSUME NEW s \in Syncs, NEW n \in Names, UpdateMapping(s, n) PROVE NoOrphans'
  BY <1>6, <1>h DEF UpdateMapping, TypeOK, TypeOfStores
<1>7. ASSUME NEW s \in Syncs, NEW n \in Names, CreateMapping(s, n) PROVE NoOrphans'
  <2>1. kc[n] # None /\ pg[n].stored /\ pg[n].linked
    <3>1. StageOK(s, n) /\ job[s][n].at \in {"map", "record"}
      BY <1>7 DEF CreateMapping, StagesOK
    <3>q. QED BY <3>1 DEF StageOK, PullStages, PushStages
  <2>2. \A m \in Names : m # n => mapping'[m] = mapping[m]
    BY <1>7 DEF CreateMapping, TypeOK, TypeOfStores
  <2>q. QED BY <1>g, <2>1, <2>2 DEF NoOrphans, Stays
<1>8. ASSUME NEW s \in Syncs, NEW n \in Names, Push(s, n) \/ Link(s, n) PROVE NoOrphans'
  BY <1>8, <1>h DEF Push, Link, stores
<1>9. ASSUME
             \/ AskCancel \/ MarkCancelled \/ ClearFlag \/ Restart
      PROVE  NoOrphans'
  BY <1>9, <1>h DEF AskCancel, MarkCancelled, ClearFlag, Restart, stores
<1>10. ASSUME NEW n \in Names,
             \/ WriteAccount(n) \/ StartAdoption(n) \/ Adopt(n) \/ CreateUser(n)
      PROVE  NoOrphans'
  BY <1>10, <1>h DEF WriteAccount, StartAdoption, Adopt, CreateUser, stores
<1>11. ASSUME NEW n \in Names, UpdateUser(n) \/ HourPasses(n) PROVE NoOrphans'
  BY <1>11, <1>h DEF UpdateUser, HourPasses, stores
<1>12. ASSUME NEW n \in Names, DeleteMapping(n) PROVE NoOrphans'
  BY <1>12, <1>h DEF DeleteMapping, TypeOK, TypeOfStores
<1>u. ASSUME UNCHANGED vars PROVE NoOrphans'
  BY <1>u, <1>h DEF vars, stores
<1>q. QED
  BY <1>1, <1>2, <1>3, <1>4, <1>5, <1>6, <1>7, <1>8, <1>9, <1>10, <1>11, <1>12, <1>u DEF Next,
    Step, Pull, Outside

-----------------------------------------------------------------------------
(* What a mapping tells of its row.                                        *)

\* RowHolds and HashTellsRow, of one name.
Holds(t, m) ==
    /\ ~overridden /\ m \notin touched \cup torn
    /\ job[t][m].at \in {"remap", "map"}
    => Carries(pg[m].data, Digest(job[t][m].data))

Tells(m) ==
    /\ mapping[m] \in Core /\ ~overridden
    /\ m \notin touched \cup torn
    /\ \A s \in Syncs : job[s][m].at # "remap"
    => Carries(pg[m].data, mapping[m])

DataInv == RowHolds /\ HashTellsRow

LEMMA DataParts ==
    /\ DataInv <=> /\ \A t \in Syncs, m \in Names : Holds(t, m)
                  /\ \A m \in Names : Tells(m)
    /\ DataInv' <=> /\ \A t \in Syncs, m \in Names : Holds(t, m)'
                   /\ \A m \in Names : Tells(m)'
  BY DEF DataInv, RowHolds, HashTellsRow, Holds, Tells

MarksGrow == (overridden => overridden') /\ touched \subseteq touched' /\ torn \subseteq torn'

\* The step does not take call t between the two updates of name m.
Aside(t, m) == job'[t][m] = job[t][m] \/ job'[t][m].at \notin {"remap", "map"}

\* Nor does it take the call from there, unless it is cut off.
Apart(t, m) == Aside(t, m) /\ (job[t][m].at = "remap" => job'[t][m].at = "remap" \/ m \in torn')

LEMMA HoldsCarries ==
    ASSUME MarksGrow, NEW t, NEW m, Holds(t, m), Aside(t, m), pg'[m].data = pg[m].data
    PROVE  Holds(t, m)'
  BY DEF Holds, MarksGrow, Aside

LEMMA TellsCarries ==
    ASSUME MarksGrow, NEW m, Tells(m), \A t \in Syncs : Apart(t, m),
           pg'[m].data = pg[m].data, mapping'[m] = mapping[m] \/ mapping'[m] \notin Core
    PROVE  Tells(m)'
  BY DEF Tells, MarksGrow, Apart

LEMMA MarksStep == ASSUME [Next]_vars PROVE MarksGrow
<1>1. ASSUME NEW s \in Syncs, Wipe(s) PROVE MarksGrow
  BY <1>1 DEF Wipe, MarksGrow, flags, marks
<1>2. ASSUME NEW s \in Syncs, Refuse(s) PROVE MarksGrow
  BY <1>2 DEF Refuse, MarksGrow, flags, marks
<1>3. ASSUME NEW s \in Syncs, Begin(s) PROVE MarksGrow
  BY <1>3 DEF Begin, MarksGrow, flags, marks
<1>4. ASSUME NEW s \in Syncs, CreateSyncLog(s) PROVE MarksGrow
  BY <1>4 DEF CreateSyncLog, MarksGrow, flags, marks
<1>5. ASSUME NEW s \in Syncs, Fetch(s) PROVE MarksGrow
  BY <1>5 DEF Fetch, MarksGrow, flags, marks
<1>6. ASSUME NEW s \in Syncs, Pulled(s) PROVE MarksGrow
  BY <1>6 DEF Pulled, MarksGrow, flags, marks
<1>7. ASSUME NEW s \in Syncs, FindRows(s) PROVE MarksGrow
  BY <1>7 DEF FindRows, MarksGrow, flags, marks
<1>8. ASSUME NEW s \in Syncs, Pushed(s) PROVE MarksGrow
  BY <1>8 DEF Pushed, MarksGrow, flags, marks
<1>9. ASSUME NEW s \in Syncs, Close(s) PROVE MarksGrow
  BY <1>9 DEF Close, MarksGrow, flags, marks
<1>10. ASSUME NEW s \in Syncs, Catch(s) PROVE MarksGrow
  BY <1>10 DEF Catch, MarksGrow, flags, marks
<1>11. ASSUME NEW s \in Syncs, Finally(s) PROVE MarksGrow
  BY <1>11 DEF Finally, MarksGrow, flags, marks
<1>12. ASSUME NEW s \in Syncs, NEW n \in Names, FindMapping(s, n) PROVE MarksGrow
  BY <1>12 DEF FindMapping, MarksGrow, flags, marks
<1>13. ASSUME NEW s \in Syncs, NEW n \in Names, FindRow(s, n) PROVE MarksGrow
  BY <1>13 DEF FindRow, MarksGrow, flags, marks
<1>14. ASSUME NEW s \in Syncs, NEW n \in Names, UpdateExistingUser(s, n) PROVE MarksGrow
  BY <1>14 DEF UpdateExistingUser, MarksGrow, flags, marks
<1>15. ASSUME NEW s \in Syncs, NEW n \in Names, UpdateMapping(s, n) PROVE MarksGrow
  BY <1>15 DEF UpdateMapping, MarksGrow, flags, marks
<1>16. ASSUME NEW s \in Syncs, NEW n \in Names, CreateNewUser(s, n) PROVE MarksGrow
  BY <1>16 DEF CreateNewUser, MarksGrow, flags, marks
<1>17. ASSUME NEW s \in Syncs, NEW n \in Names, CreateMapping(s, n) PROVE MarksGrow
  BY <1>17 DEF CreateMapping, MarksGrow, flags, marks
<1>18. ASSUME NEW s \in Syncs, NEW n \in Names, Push(s, n) PROVE MarksGrow
  BY <1>18 DEF Push, MarksGrow, flags, marks
<1>19. ASSUME NEW s \in Syncs, NEW n \in Names, Link(s, n) PROVE MarksGrow
  BY <1>19 DEF Link, MarksGrow, flags, marks
<1>20. ASSUME AskCancel PROVE MarksGrow
  BY <1>20 DEF AskCancel, MarksGrow, flags, marks
<1>21. ASSUME MarkCancelled PROVE MarksGrow
  BY <1>21 DEF MarkCancelled, MarksGrow, flags, marks
<1>22. ASSUME ClearFlag PROVE MarksGrow
  BY <1>22 DEF ClearFlag, MarksGrow, flags, marks
<1>23. ASSUME NEW n \in Names, WriteAccount(n) PROVE MarksGrow
  BY <1>23 DEF WriteAccount, MarksGrow, flags, marks
<1>24. ASSUME NEW n \in Names, StartAdoption(n) PROVE MarksGrow
  BY <1>24 DEF StartAdoption, MarksGrow, flags, marks
<1>25. ASSUME NEW n \in Names, Adopt(n) PROVE MarksGrow
  BY <1>25 DEF Adopt, MarksGrow, flags, marks
<1>26. ASSUME NEW n \in Names, CreateUser(n) PROVE MarksGrow
  BY <1>26 DEF CreateUser, MarksGrow, flags, marks
<1>27. ASSUME NEW n \in Names, UpdateUser(n) PROVE MarksGrow
  BY <1>27 DEF UpdateUser, MarksGrow, flags, marks
<1>28. ASSUME NEW n \in Names, DeleteMapping(n) PROVE MarksGrow
  BY <1>28 DEF DeleteMapping, MarksGrow, flags, marks
<1>29. ASSUME NEW n \in Names, HourPasses(n) PROVE MarksGrow
  BY <1>29 DEF HourPasses, MarksGrow, flags, marks
<1>30. ASSUME Restart PROVE MarksGrow
  BY <1>30 DEF Restart, MarksGrow, flags, marks
<1>u. ASSUME UNCHANGED vars PROVE MarksGrow
  BY <1>u DEF vars, flags, marks, MarksGrow
<1>q. QED
  BY <1>1, <1>2, <1>3, <1>4, <1>5, <1>6, <1>7, <1>8, <1>9, <1>10, <1>11, <1>12, <1>13, <1>14,
    <1>15, <1>16, <1>17, <1>18, <1>19, <1>20, <1>21, <1>22, <1>23, <1>24, <1>25, <1>26, <1>27,
    <1>28, <1>29, <1>30, <1>u DEF Next, Step, Pull, Outside

LEMMA DataStep ==
    ASSUME TypeOK, FlagInv, StagesOK, NoOrphans, DataInv, [Next]_vars PROVE DataInv'
<1>m. MarksGrow
  BY MarksStep
<1>i. /\ \A t \in Syncs, m \in Names : Holds(t, m)
      /\ \A m \in Names : Tells(m)
  BY DataParts
<1>h. ASSUME \A t \in Syncs, m \in Names : Apart(t, m),
             \A m \in Names : pg'[m].data = pg[m].data,
             \A m \in Names : mapping'[m] = mapping[m] \/ mapping'[m] \notin Core
      PROVE  DataInv'
  BY <1>h, <1>m, <1>i, HoldsCarries, TellsCarries, DataParts DEF Apart
\* A row that is written is written by the only call there is.
<1>o. ASSUME NEW s \in Syncs, NEW t \in Syncs, NEW n \in Names, ~overridden,
             job[s][n].at \in PullStages, job[t][n].at \in PullStages
      PROVE  s = t
  <2>1. pc[s] = "pull" /\ pc[t] = "pull"
    BY <1>o DEF StagesOK, StageOK
  <2>q. QED BY <1>o, <2>1 DEF FlagInv, OneAtATime, Active, Running
\* A name without a row is asked nothing of, and has no mapping.
<1>v. ASSUME NEW n \in Names, ~pg[n].stored
      PROVE  mapping[n] \notin Core /\ \A t \in Syncs : job[t][n].at \notin {"remap", "map"}
  BY <1>v, Constants DEF NoOrphans, StagesOK, StageOK, PullStages
<1>1. ASSUME NEW s \in Syncs, Wipe(s) PROVE DataInv'
  BY <1>1, <1>h, Constants DEF Wipe, Goto, Apart, Aside
<1>2. ASSUME NEW s \in Syncs,
             \/ Refuse(s) \/ Begin(s) \/ CreateSyncLog(s) \/ Pulled(s)
      PROVE  DataInv'
  BY <1>2, <1>h DEF Refuse, Begin, CreateSyncLog, Pulled, Goto, stores, Apart, Aside
<1>3. ASSUME NEW s \in Syncs, Fetch(s) PROVE DataInv'
  <2>1. \A t \in Syncs : t # s => job'[t] = job[t]
    BY <1>3 DEF Fetch, Goto, TypeOK, TypeOfCalls
  <2>2. \A m \in Names : job[s][m].at # "remap"
    BY <1>3 DEF Fetch, StagesOK, StageOK, PullStages
  <2>3. \A m \in Names : Aside(s, m)
    <3>1. CASE Goto(s, "broken")
      BY <3>1 DEF Goto, Aside
    <3>2. CASE ~Goto(s, "broken")
      <4>1. job' = [job EXCEPT ![s] =
                     [n \in Names |-> IF kc[n] = None THEN NoJob
                                      ELSE [NoJob EXCEPT !.at = "find", !.data = kc[n]]]]
        BY <1>3, <3>2 DEF Fetch
      <4>2. \A m \in Names : job'[s][m].at \in {"none", "find"}
        BY <4>1 DEF NoJob, TypeOK, TypeOfCalls
      <4>q. QED BY <4>2 DEF Aside
    <3>q. QED BY <3>1, <3>2
  <2>q. QED BY <1>3, <1>h, <2>1, <2>2, <2>3 DEF Fetch, stores, Apart, Aside
<1>4. ASSUME NEW s \in Syncs, FindRows(s) PROVE DataInv'
  <2>1. \A t \in Syncs : t # s => job'[t] = job[t]
    BY <1>4 DEF FindRows, Goto, TypeOK, TypeOfCalls
  <2>2. \A m \in Names : job[s][m].at # "remap"
    BY <1>4 DEF FindRows, StagesOK, StageOK, PullStages
  <2>3. \A m \in Names : Aside(s, m)
    <3>1. CASE Goto(s, "broken")
      BY <3>1 DEF Goto, Aside
    <3>2. CASE ~Goto(s, "broken")
      <4> DEFINE read(n) ==
            IF pg[n].stored /\ (~pg[n].linked \/ pg[n].recent)
            THEN [job[s][n] EXCEPT !.at = "push", !.data = pg[n].data, !.linked = pg[n].linked]
            ELSE [job[s][n] EXCEPT !.at = "none"]
      <4>1. job' = [job EXCEPT ![s] = [n \in Names |-> read(n)]]
        BY <1>4, <3>2 DEF FindRows, TypeOK, TypeOfCalls
      <4>2. \A m \in Names : read(m).at \in {"none", "push"}
        BY DEF Jobs, TypeOK, TypeOfCalls
      <4> HIDE DEF read
      <4>3. \A m \in Names : job'[s][m].at \in {"none", "push"}
        BY <4>1, <4>2 DEF TypeOK, TypeOfCalls
      <4>q. QED BY <4>3 DEF Aside
    <3>q. QED BY <3>1, <3>2
  <2>q. QED BY <1>4, <1>h, <2>1, <2>2, <2>3 DEF FindRows, stores, Apart, Aside
<1>5. ASSUME NEW s \in Syncs,
             \/ Pushed(s) \/ Close(s) \/ Catch(s)
      PROVE  DataInv'
  BY <1>5, <1>h DEF Pushed, Close, Catch, Goto, stores, Apart, Aside
<1>6. ASSUME NEW s \in Syncs, Finally(s) PROVE DataInv'
  <2>1. \A t \in Syncs : t # s => job'[t] = job[t]
    BY <1>6 DEF Finally, Goto, TypeOK, TypeOfCalls
  <2>2. \A m \in Names : job[s][m].at # "remap"
    BY <1>6 DEF Finally, StagesOK, StageOK, PullStages
  <2>3. \A m \in Names : Aside(s, m)
    BY <1>6 DEF Finally, Aside, NoJob, TypeOK, TypeOfCalls
  <2>q. QED BY <1>6, <1>h, <2>1, <2>2, <2>3 DEF Finally, stores, Apart, Aside
<1>7. ASSUME NEW s \in Syncs, NEW n \in Names, FindMapping(s, n) PROVE DataInv'
  <2>1. Await(s, n, "create") \/ Await(s, n, "row") \/ Resolve(s, n) \/ Reject(s, n)
    BY <1>7 DEF FindMapping, Proceed
  <2>2. \A t \in Syncs, m \in Names : Apart(t, m)
    <3>1. job[s][n].at = "find" /\ job'[s][n].at \in {"create", "row", "done"}
      BY <1>7, <2>1, AwaitJob, SettleJob, Words DEF FindMapping
    <3>2. Elsewhere(s, n)
      BY <2>1, AwaitJob, SettleJob, Words
    <3>q. QED BY <3>1, <3>2 DEF Apart, Aside
  <2>q. QED BY <1>7, <1>h, <2>2 DEF FindMapping, stores
<1>8. ASSUME NEW s \in Syncs, NEW n \in Names, FindRow(s, n) PROVE DataInv'
  <2>1. Await(s, n, "create") \/ Await(s, n, "update") \/ Resolve(s, n) \/ Reject(s, n)
    BY <1>8 DEF FindRow, Proceed
  <2>2. \A t \in Syncs, m \in Names : Apart(t, m)
    <3>1. job[s][n].at = "row" /\ job'[s][n].at \in {"create", "update", "done"}
      BY <1>8, <2>1, AwaitJob, SettleJob, Words DEF FindRow
    <3>2. Elsewhere(s, n)
      BY <2>1, AwaitJob, SettleJob, Words
    <3>q. QED BY <3>1, <3>2 DEF Apart, Aside
  <2>q. QED BY <1>8, <1>h, <2>2 DEF FindRow, stores
<1>9. ASSUME NEW s \in Syncs, NEW n \in Names, UpdateExistingUser(s, n) PROVE DataInv'
  <2>1. job[s][n].at = "update" /\ UNCHANGED <<mapping, overridden>>
    BY <1>9 DEF UpdateExistingUser, flags
  <2>2. CASE Reject(s, n) /\ UNCHANGED pg
    <3>1. job'[s][n].at = "done" /\ Elsewhere(s, n)
      BY <2>2, SettleJob
    <3>2. \A t \in Syncs, m \in Names : Apart(t, m)
      BY <2>1, <3>1 DEF Apart, Aside
    <3>q. QED BY <1>h, <2>1, <2>2, <3>2
  <2>3. CASE /\ Await(s, n, "remap")
             /\ pg' = [pg EXCEPT ![n] = Row(Merged(job[s][n].data, pg[n].data), TRUE, TRUE)]
    <3>1. /\ job'[s][n].at = "remap" /\ job'[s][n].data = job[s][n].data
          /\ Elsewhere(s, n)
      BY <2>3, AwaitJob, Words
    <3>2. /\ pg'[n].data = Merged(job[s][n].data, pg[n].data)
          /\ \A m \in Names : m # n => pg'[m] = pg[m]
      BY <2>3, <3>1 DEF Row, TypeOK, TypeOfStores
    <3>7. Carries(pg'[n].data, Digest(job'[s][n].data))
      BY <2>1, <3>1, <3>2, StageMerge
    <3>3. \A t \in Syncs, m \in Names : m # n => Holds(t, m)'
      BY <1>m, <1>i, <3>1, <3>2, HoldsCarries DEF Aside
    <3>4. \A t \in Syncs : Holds(t, n)'
      BY <1>o, <2>1, <3>1, <3>7 DEF Holds, PullStages
    <3>5. \A m \in Names : m # n => Tells(m)'
      BY <1>m, <1>i, <2>1, <3>1, <3>2, TellsCarries DEF Apart, Aside
    <3>6. Tells(n)'
      BY <3>1 DEF Tells
    <3>q. QED BY <3>3, <3>4, <3>5, <3>6, DataParts
  <2>q. QED BY <1>9, <2>2, <2>3 DEF UpdateExistingUser
<1>10. ASSUME NEW s \in Syncs, NEW n \in Names, UpdateMapping(s, n) PROVE DataInv'
  <2>1. job[s][n].at = "remap" /\ UNCHANGED <<pg, overridden, touched>>
    BY <1>10 DEF UpdateMapping, flags
  <2>2. job'[s][n].at = "done" /\ Elsewhere(s, n)
    BY <1>10, SettleJob DEF UpdateMapping
  <2>3. \A t \in Syncs, m \in Names : Holds(t, m)'
    BY <1>m, <1>i, <2>1, <2>2, HoldsCarries DEF Aside
  <2>4. \A m \in Names : m # n => mapping'[m] = mapping[m]
    BY <1>10 DEF UpdateMapping, TypeOK, TypeOfStores
  <2>5. \A m \in Names : m # n => Tells(m)'
    BY <1>m, <1>i, <2>1, <2>2, <2>4, TellsCarries DEF Apart, Aside
  <2>6. n \in torn' \/ (mapping'[n] = Digest(job[s][n].data) /\ torn' = torn)
    BY <1>10 DEF UpdateMapping, TypeOK, TypeOfStores
  <2>7. Tells(n)'
    BY <1>i, <2>1, <2>6 DEF Tells, Holds
  <2>q. QED BY <2>3, <2>5, <2>7, DataParts
<1>11. ASSUME NEW s \in Syncs, NEW n \in Names, CreateNewUser(s, n) PROVE DataInv'
  <2>1. job[s][n].at = "create" /\ UNCHANGED <<mapping, overridden>>
    BY <1>11 DEF CreateNewUser, flags
  <2>2. CASE Reject(s, n) /\ UNCHANGED pg
    <3>1. job'[s][n].at = "done" /\ Elsewhere(s, n)
      BY <2>2, SettleJob
    <3>2. \A t \in Syncs, m \in Names : Apart(t, m)
      BY <2>1, <3>1 DEF Apart, Aside
    <3>q. QED BY <1>h, <2>1, <2>2, <3>2
  <2>3. CASE Await(s, n, "map") /\ pg' = [pg EXCEPT ![n] = Row(job[s][n].data, TRUE, TRUE)]
    <3>1. /\ job'[s][n].at = "map" /\ job'[s][n].data = job[s][n].data
          /\ Elsewhere(s, n)
      BY <2>3, AwaitJob, Words
    <3>2. /\ pg'[n].data = job'[s][n].data
          /\ \A m \in Names : m # n => pg'[m] = pg[m]
      BY <2>3, <3>1 DEF Row, TypeOK, TypeOfStores
    <3>3. \A t \in Syncs, m \in Names : m # n => Holds(t, m)'
      BY <1>m, <1>i, <3>1, <3>2, HoldsCarries DEF Aside
    <3>4. \A t \in Syncs : Holds(t, n)'
      BY <1>o, <2>1, <3>1, <3>2, CarriesOwn DEF Holds, PullStages
    <3>5. \A m \in Names : m # n => Tells(m)'
      BY <1>m, <1>i, <2>1, <3>1, <3>2, TellsCarries DEF Apart, Aside
    <3>7. ~pg[n].stored
      <4>1. ~Taken(n)
        BY <1>11, <2>3, <3>1, SettleJob DEF CreateNewUser
      <4>q. QED BY <4>1 DEF Taken
    <3>6. Tells(n)'
      BY <1>11, <1>v, <2>1, <3>7 DEF Tells
    <3>q. QED BY <3>3, <3>4, <3>5, <3>6, DataParts
  <2>q. QED BY <1>11, <2>2, <2>3 DEF CreateNewUser
<1>12. ASSUME NEW s \in Syncs, NEW n \in Names, CreateMapping(s, n) PROVE DataInv'
  <2>1. job[s][n].at \in {"map", "record"} /\ UNCHANGED <<pg, overridden, touched, torn>>
    BY <1>12 DEF CreateMapping, flags, marks
  <2>2. job'[s][n].at = "done" /\ Elsewhere(s, n)
    BY <1>12, SettleJob DEF CreateMapping
  <2>3. \A t \in Syncs, m \in Names : Apart(t, m)
    BY <2>1, <2>2 DEF Apart, Aside
  <2>4. \A t \in Syncs, m \in Names : Holds(t, m)'
    BY <1>m, <1>i, <2>1, <2>3, HoldsCarries DEF Apart
  <2>5. \A m \in Names : m # n => mapping'[m] = mapping[m]
    BY <1>12 DEF CreateMapping, TypeOK, TypeOfStores
  <2>6. \A m \in Names : m # n => Tells(m)'
    BY <1>m, <1>i, <2>1, <2>3, <2>5, TellsCarries
  <2>7. CASE UNCHANGED mapping
    BY <1>h, <2>1, <2>3, <2>7
  <2>8. CASE ~UNCHANGED mapping
    <3>1. mapping'[n] = IF job[s][n].at = "map" THEN Digest(job[s][n].data) ELSE RowHash
      BY <1>12, <2>8 DEF CreateMapping, TypeOK, TypeOfStores
    <3>2. Tells(n)'
      BY <1>i, <2>1, <3>1, Constants DEF Tells, Holds
    <3>q. QED BY <2>4, <2>6, <3>2, DataParts
  <2>q. QED BY <2>7, <2>8
<1>13. ASSUME NEW s \in Syncs, NEW n \in Names, Push(s, n) PROVE DataInv'
  <2>1. Await(s, n, "link") \/ Resolve(s, n) \/ Reject(s, n)
    BY <1>13 DEF Push
  <2>2. \A t \in Syncs, m \in Names : Apart(t, m)
    <3>1. job[s][n].at = "push" /\ job'[s][n].at \in {"link", "done"}
      BY <1>13, <2>1, AwaitJob, SettleJob, Words DEF Push
    <3>2. Elsewhere(s, n)
      BY <2>1, AwaitJob, SettleJob, Words
    <3>q. QED BY <3>1, <3>2 DEF Apart, Aside
  <2>q. QED BY <1>13, <1>h, <2>2 DEF Push, stores
<1>14. ASSUME NEW s \in Syncs, NEW n \in Names, Link(s, n) PROVE DataInv'
  <2>1. pg[n] \in StoredRows /\ job[s][n].at = "link"
    BY <1>14, RowTypes DEF Link, StagesOK, StageOK, PushStages, TypeOK, TypeOfStores
  <2>2. \A m \in Names : pg'[m].data = pg[m].data
    BY <1>14, <2>1 DEF Link, StoredRows, TypeOK, TypeOfStores
  <2>3. Await(s, n, "record") \/ Reject(s, n)
    BY <1>14 DEF Link
  <2>4. job'[s][n].at \in {"record", "done"}
    BY <2>3, AwaitJob, SettleJob, Words
  <2>5. Elsewhere(s, n)
    BY <2>3, AwaitJob, SettleJob, Words
  <2>6. \A t \in Syncs, m \in Names : Apart(t, m)
    BY <2>1, <2>4, <2>5 DEF Apart, Aside
  <2>q. QED BY <1>14, <1>h, <2>2, <2>6 DEF Link
<1>15. ASSUME
             \/ AskCancel \/ MarkCancelled \/ ClearFlag
      PROVE  DataInv'
  BY <1>15, <1>h DEF AskCancel, MarkCancelled, ClearFlag, stores, calls, Apart, Aside
<1>16. ASSUME NEW n \in Names, WriteAccount(n) \/ StartAdoption(n) PROVE DataInv'
  BY <1>16, <1>h DEF WriteAccount, StartAdoption, stores, calls, Apart, Aside
<1>17. ASSUME NEW n \in Names, Adopt(n) PROVE DataInv'
  <2>1. UNCHANGED <<mapping, job>>
    BY <1>17 DEF Adopt, calls
  <2>2. CASE UNCHANGED pg
    BY <1>h, <2>1, <2>2 DEF Apart, Aside
  <2>3. CASE ~UNCHANGED pg
    <3>1. ~pg[n].stored /\ \A m \in Names : m # n => pg'[m] = pg[m]
      BY <1>17, <2>3 DEF Adopt, Taken, TypeOK, TypeOfStores
    <3>2. \A t \in Syncs, m \in Names : Holds(t, m)'
      BY <1>m, <1>i, <1>v, <2>1, <3>1, HoldsCarries DEF Aside, Holds
    <3>3. \A m \in Names : Tells(m)'
      BY <1>m, <1>i, <1>v, <2>1, <3>1, TellsCarries DEF Apart, Aside, Tells
    <3>q. QED BY <3>2, <3>3, DataParts
  <2>q. QED BY <2>2, <2>3
<1>18. ASSUME NEW n \in Names, CreateUser(n) PROVE DataInv'
  <2>1. UNCHANGED <<mapping, job>>
    BY <1>18 DEF CreateUser, calls
  <2>2. CASE UNCHANGED pg
    BY <1>h, <2>1, <2>2 DEF Apart, Aside
  <2>3. CASE ~UNCHANGED pg
    <3>1. ~pg[n].stored /\ \A m \in Names : m # n => pg'[m] = pg[m]
      BY <1>18, <2>3 DEF CreateUser, Taken, TypeOK, TypeOfStores
    <3>2. \A t \in Syncs, m \in Names : Holds(t, m)'
      BY <1>m, <1>i, <1>v, <2>1, <3>1, HoldsCarries DEF Aside, Holds
    <3>3. \A m \in Names : Tells(m)'
      BY <1>m, <1>i, <1>v, <2>1, <3>1, TellsCarries DEF Apart, Aside, Tells
    <3>q. QED BY <3>2, <3>3, DataParts
  <2>q. QED BY <2>2, <2>3
<1>19. ASSUME NEW n \in Names, UpdateUser(n) PROVE DataInv'
  <2>1. UNCHANGED <<mapping, job>> /\ n \in touched'
    BY <1>19 DEF UpdateUser, calls
  <2>2. \A m \in Names : m # n => pg'[m] = pg[m]
    BY <1>19 DEF UpdateUser, TypeOK, TypeOfStores
  <2>3. \A t \in Syncs, m \in Names : Holds(t, m)'
    BY <1>m, <1>i, <2>1, <2>2, HoldsCarries DEF Aside, Holds
  <2>4. \A m \in Names : Tells(m)'
    BY <1>m, <1>i, <2>1, <2>2, TellsCarries DEF Apart, Aside, Tells
  <2>q. QED BY <2>3, <2>4, DataParts
<1>20. ASSUME NEW n \in Names, DeleteMapping(n) PROVE DataInv'
  BY <1>20, <1>h, Constants DEF DeleteMapping, calls, Apart, Aside, TypeOK, TypeOfStores
<1>21. ASSUME NEW n \in Names, HourPasses(n) PROVE DataInv'
  <2>1. \A m \in Names : pg'[m].data = pg[m].data
    <3>1. pg[n] \in StoredRows /\ pg' = [pg EXCEPT ![n].recent = FALSE]
      BY <1>21, RowTypes DEF HourPasses, TypeOK, TypeOfStores
    <3>q. QED BY <3>1 DEF StoredRows, TypeOK, TypeOfStores
  <2>q. QED BY <1>21, <1>h, <2>1 DEF HourPasses, calls, Apart, Aside
<1>22. ASSUME Restart PROVE DataInv'
  <2>1. \A t \in Syncs, m \in Names : job'[t][m].at = "none"
    BY <1>22 DEF Restart, NoJob
  <2>2. \A t \in Syncs, m \in Names : job[t][m].at = "remap" => m \in torn'
    BY <1>22 DEF Restart
  <2>q. QED BY <1>22, <1>h, <2>1, <2>2 DEF Restart, stores, Apart, Aside
<1>u. ASSUME UNCHANGED vars PROVE DataInv'
  BY <1>u, <1>h DEF vars, stores, calls, Apart, Aside
<1>q. QED
  BY <1>1, <1>2, <1>3, <1>4, <1>5, <1>6, <1>7, <1>8, <1>9, <1>10, <1>11, <1>12, <1>13, <1>14,
    <1>15, <1>16, <1>17, <1>18, <1>19, <1>20, <1>21, <1>22, <1>u DEF Next, Step, Pull, Outside

-----------------------------------------------------------------------------
(* The theorems.                                                           *)

LEMMA Initially == Init => IInv
<1> SUFFICES ASSUME Init PROVE IInv
  OBVIOUS
<1>1. \A s \in Syncs, n \in Names : job[s][n] = NoJob
  BY DEF Init
<1>2. NoJob \in Jobs /\ NoJob.at = "none"
  BY JobTypes DEF NoJob
<1>3. TypeOK
  <2>1. TypeOfStores
    <3>1. \A d \in Data : Row(d, FALSE, FALSE) \in Rows
      BY RowTypes
    <3>2. NoRow \in Rows
      BY DEF Rows
    <3>3. {NoRow} \cup {Row(d, FALSE, FALSE) : d \in Data} \subseteq Rows
      BY <3>1, <3>2
    <3>4. pg \in [Names -> Rows]
      <4>1. pg \in [Names -> {NoRow} \cup {Row(d, FALSE, FALSE) : d \in Data}]
        BY DEF Init
      <4>q. QED BY <3>3, <4>1
    <3>q. QED BY <3>4 DEF Init, TypeOfStores
  <2>2. TypeOfCalls
    BY <1>2, Words DEF Init, TypeOfCalls
  <2>3. TypeOfFlags /\ TypeOfMarks
    BY Words DEF Init, TypeOfFlags, TypeOfMarks
  <2>4. TypeOfBounds
    BY Constants DEF Init, TypeOfBounds
  <2>q. QED BY <2>1, <2>2, <2>3, <2>4 DEF TypeOK
<1>4. \A s \in Syncs : ~Active(s)
  BY DEF Init, Active, Running
<1>5. OneAtATime /\ WorkHoldsFlag /\ FlagTells
  BY <1>4 DEF Init, OneAtATime, WorkHoldsFlag, FlagTells
<1>6. StagesOK
  BY <1>1, <1>2 DEF StagesOK, StageOK, PullStages, PushStages
<1>7. NoOrphans /\ RowHolds /\ HashTellsRow
  BY <1>1, <1>2, Constants DEF Init, NoOrphans, RowHolds, HashTellsRow
<1>q. QED BY <1>3, <1>5, <1>6, <1>7 DEF IInv

LEMMA InvarianceStep == ASSUME IInv, [Next]_vars PROVE IInv'
<1>1. TypeOK' /\ StagesOK' /\ NoOrphans'
  BY TypeStep, StagesStep, NoOrphansStep DEF IInv
<1>2. OneAtATime' /\ WorkHoldsFlag' /\ FlagTells'
  BY FlagStep DEF IInv, FlagInv
<1>3. RowHolds' /\ HashTellsRow'
  BY DataStep DEF IInv, FlagInv, DataInv
<1>q. QED BY <1>1, <1>2, <1>3 DEF IInv

LEMMA Invariance == Spec => []IInv
<1>1. IInv /\ [Next]_vars => IInv'
  BY InvarianceStep
<1>q. QED BY Initially, <1>1, PTL DEF Spec

\* The variables keep their types.
THEOREM TypesHold == Spec => []TypeOK
<1>1. IInv => TypeOK
  BY DEF IInv
<1>q. QED BY Invariance, <1>1, PTL

\* However many calls there are, and whatever fails, two of them are never at
\* work at once while nobody has cancelled one (performFullSync, lines 73-77
\* and 112-114).
THEOREM OneSyncAtATime == Spec => []OneAtATime
<1>1. IInv => OneAtATime
  BY DEF IInv
<1>q. QED BY Invariance, <1>1, PTL

\* The flag isSyncing is up exactly while a call is at work, unless one was
\* cancelled or could not enter itself in the log (lines 77-78).
THEOREM FlagIsRight == Spec => []FlagTells
<1>1. IInv => FlagTells
  BY DEF IInv
<1>q. QED BY Invariance, <1>1, PTL

\* A mapping's account and row exist and are linked at every instant, for any
\* number of names, calls, cancellations and failures.
THEOREM MappingsPointAtUsers == Spec => []NoOrphans
<1>1. IInv => NoOrphans
  BY DEF IInv
<1>q. QED BY Invariance, <1>1, PTL

\* The hash of a mapping is that of its row, which is what lets a call pass
\* over an account that has not changed (syncKeycloakUserToPostgres, line 233).
THEOREM HashesTellRows == Spec => []HashTellsRow
<1>1. IInv => HashTellsRow
  BY DEF IInv
<1>q. QED BY Invariance, <1>1, PTL

-----------------------------------------------------------------------------
(* What a call has seen of a name that nobody else writes.                 *)

\* An account that is linked to, or about to be, exists.
Linked == \A n \in Names : pg[n].linked \/ n \in adopting => kc[n] # None

\* The account and the row of n are there and equal as far as the hash can see.
Synced(n) == kc[n] # None /\ pg[n].stored /\ Digest(kc[n]) = Digest(pg[n].data)

\* They are there, and the row has what the account has not cleared.
Carried(n) == kc[n] # None /\ pg[n].stored /\ Carries(pg[n].data, Digest(kc[n]))

LEMMA SyncedCarries == \A n : Synced(n) => Carried(n)
  BY CarriesOwn DEF Synced, Carried

\* Call s has met no error on name n and nobody else has written it.
Undisturbed(s, n) ==
    ~overridden /\ n \in quiet[s] /\ mode[s] # "dry" /\ job[s][n].fine

\* What is known of such a name on the way from Keycloak to PostgreSQL, and on
\* the way back.
Pulls(s, n) ==
    /\ job[s][n].at \in PullStages => job[s][n].data = kc[n]
    /\ job[s][n].at = "none" => kc[n] = None
    /\ job[s][n].at = "done" /\ n \notin touched \cup torn => Carried(n)

Pushes(s, n) ==
    /\ job[s][n].at = "push" => /\ job[s][n].data = pg[n].data
                                /\ job[s][n].linked = pg[n].linked
    /\ job[s][n].at \in {"link", "record"} => kc[n] = pg[n].data
    /\ job[s][n].at = "done" => Synced(n)
    /\ job[s][n].at = "none" /\ n \notin touched \cup torn /\ (kc[n] # None \/ pg[n].stored)
       => Carried(n)

Follows(s, n) ==
    Undisturbed(s, n) => /\ pc[s] \in {"pull", "rows"} => Pulls(s, n)
                         /\ pc[s] \in {"push", "close"} => Pushes(s, n)

AllFollow == \A s \in Syncs, n \in Names : Follows(s, n)

SyncInv == IInv /\ Linked /\ AllFollow

SameRow(n) == /\ pg'[n].stored = pg[n].stored /\ pg'[n].data = pg[n].data
              /\ pg'[n].linked = pg[n].linked

Kept(n) == kc'[n] = kc[n] /\ SameRow(n)

\* Nothing that call s knows of name n has changed, or it is disturbed.
LEMMA FollowCarries ==
    ASSUME MarksGrow, NEW s \in Syncs, NEW n \in Names, Follows(s, n),
           job'[s][n] = job[s][n], pc'[s] = pc[s], mode'[s] = mode[s],
           n \in quiet'[s] => n \in quiet[s] /\ Kept(n)
    PROVE  Follows(s, n)'
<1> SUFFICES ASSUME Undisturbed(s, n)'
             PROVE  /\ pc[s] \in {"pull", "rows"} => Pulls(s, n)'
                    /\ pc[s] \in {"push", "close"} => Pushes(s, n)'
  BY DEF Follows
<1>1. Undisturbed(s, n) /\ Kept(n)
  BY DEF Undisturbed, MarksGrow
<1>2. (Synced(n) => Synced(n)') /\ (Carried(n) => Carried(n)')
  BY <1>1 DEF Synced, Carried, Kept, SameRow
<1>3. n \notin (touched \cup torn)' => n \notin touched \cup torn
  BY DEF MarksGrow
<1>4. pc[s] \in {"pull", "rows"} => Pulls(s, n)'
  BY <1>1, <1>2, <1>3 DEF Follows, Pulls, Kept
<1>5. pc[s] \in {"push", "close"} => Pushes(s, n)'
  BY <1>1, <1>2, <1>3 DEF Follows, Pushes, Kept, SameRow
<1>q. QED BY <1>4, <1>5

\* A call that is not on its way, or has been disturbed, claims nothing.
LEMMA FollowVoid ==
    ASSUME NEW s \in Syncs, NEW n \in Names,
           \/ pc'[s] \notin {"pull", "rows", "push", "close"}
           \/ n \notin quiet'[s] \/ overridden' \/ mode'[s] = "dry" \/ ~job'[s][n].fine
    PROVE  Follows(s, n)'
  BY DEF Follows, Undisturbed

\* A step of call s on name n: what is left is what it does of that name.
LEMMA FollowElsewhere ==
    ASSUME MarksGrow, AllFollow, NEW s \in Syncs, NEW n \in Names, Elsewhere(s, n),
           UNCHANGED <<pc, mode>>,
           \A m \in Names : m # n => Kept(m),
           \A t \in Syncs : quiet'[t] \subseteq quiet[t],
           \A t \in Syncs : t # s /\ n \in quiet'[t] => Kept(n),
           Follows(s, n)'
    PROVE  AllFollow'
<1>1. ASSUME NEW t \in Syncs, NEW m \in Names, t # s \/ m # n
      PROVE  Follows(t, m)'
  <2>1. job'[t][m] = job[t][m] /\ pc'[t] = pc[t] /\ mode'[t] = mode[t]
    BY <1>1 DEF Elsewhere
  <2>2. m \in quiet'[t] => m \in quiet[t] /\ Kept(m)
    BY <1>1
  <2>q. QED BY <2>1, <2>2, FollowCarries DEF AllFollow
<1>q. QED BY <1>1 DEF AllFollow

\* A step of call s between phases.
LEMMA FollowOthers ==
    ASSUME MarksGrow, AllFollow, NEW s \in Syncs,
           \A t \in Syncs : t # s =>
              /\ job'[t] = job[t] /\ pc'[t] = pc[t] /\ mode'[t] = mode[t]
              /\ quiet'[t] = quiet[t],
           \A m \in Names : Kept(m) /\ Follows(s, m)'
    PROVE  AllFollow'
<1>1. ASSUME NEW t \in Syncs, NEW m \in Names, t # s
      PROVE  Follows(t, m)'
  BY <1>1, FollowCarries DEF AllFollow
<1>q. QED BY <1>1 DEF AllFollow

LEMMA AwaitKeeps ==
    ASSUME TypeOK, NEW s \in Syncs, NEW n \in Names, NEW stage \in Stages,
           Await(s, n, stage)
    PROVE  /\ UNCHANGED <<pc, mode>> /\ Elsewhere(s, n)
           /\ job'[s][n].at = stage /\ job'[s][n].data = job[s][n].data
           /\ job'[s][n].linked = job[s][n].linked /\ job'[s][n].fine = job[s][n].fine
<1>1. job[s][n] \in Jobs
  BY DEF TypeOK, TypeOfCalls
<1>2. job'[s][n] = [job[s][n] EXCEPT !.at = stage]
  BY DEF TypeOK, TypeOfCalls, Await
<1>q. QED BY <1>1, <1>2, AwaitJob DEF Await, Jobs, Elsewhere

LEMMA ResolveKeeps ==
    ASSUME TypeOK, NEW s \in Syncs, NEW n \in Names, Resolve(s, n)
    PROVE  /\ UNCHANGED <<pc, mode>> /\ Elsewhere(s, n)
           /\ job'[s][n].at = "done" /\ job'[s][n].fine = job[s][n].fine
<1>1. job'[s][n] = [NoJob EXCEPT !.at = "done", !.fine = job[s][n].fine]
  BY DEF TypeOK, TypeOfCalls, Resolve, Finish
<1>2. \A fine \in BOOLEAN : LET j == [NoJob EXCEPT !.at = "done", !.fine = fine]
                          IN  j.at = "done" /\ j.fine = fine
  BY DEF NoJob
<1>3. job[s][n].fine \in BOOLEAN
  BY JobTypes DEF TypeOK, TypeOfCalls
<1>4. job'[s][n].at = "done" /\ job'[s][n].fine = job[s][n].fine
  BY <1>1, <1>2, <1>3
<1>q. QED BY <1>4, SettleJob DEF Resolve, Finish, Elsewhere

LEMMA RejectKeeps ==
    ASSUME TypeOK, NEW s \in Syncs, NEW n \in Names, Reject(s, n)
    PROVE  /\ UNCHANGED <<pc, mode>> /\ Elsewhere(s, n)
           /\ job'[s][n].at = "done" /\ ~job'[s][n].fine
<1>1. job'[s][n] = [NoJob EXCEPT !.at = "done", !.fine = FALSE]
  BY DEF TypeOK, TypeOfCalls, Reject, Finish
<1>q. QED BY <1>1, SettleJob DEF Reject, Finish, NoJob, Elsewhere

\* Beginning, ending and counting a call: nothing is written.
LEMMA FollowPhases ==
    ASSUME IInv, MarksGrow, AllFollow, NEW s \in Syncs,
           \/ Wipe(s) \/ Refuse(s) \/ Begin(s) \/ CreateSyncLog(s) \/ Close(s) \/ Catch(s)
           \/ Finally(s)
    PROVE  AllFollow'
<1>1. TypeOK
  BY DEF IInv
<1>2. CASE Wipe(s)
  <2>1. CASE \A t \in Syncs : quiet'[t] = {}
    BY <2>1, FollowVoid DEF AllFollow
  <2>2. CASE UNCHANGED quiet /\ Goto(s, "ended")
    <3>1. \A m \in Names : Follows(s, m)'
      BY <1>1, <2>2, FollowVoid DEF Goto, TypeOK, TypeOfCalls
    <3>q. QED BY <1>1, <1>2, <2>2, <3>1, FollowOthers
              DEF Wipe, Goto, Kept, SameRow, TypeOK, TypeOfCalls
  <2>3. quiet' = [t \in Syncs |-> {}] \/ (UNCHANGED quiet /\ Goto(s, "ended"))
    BY <1>2 DEF Wipe
  <2>q. QED BY <2>1, <2>2, <2>3
<1>3. CASE Refuse(s) \/ CreateSyncLog(s) \/ Close(s) \/ Catch(s)
  <2>1. pc'[s] \notin {"pull", "rows", "push", "close"}
    BY <1>1, <1>3 DEF Refuse, CreateSyncLog, Close, Catch, Goto, TypeOK, TypeOfCalls
  <2>2. \A t \in Syncs : t # s => pc'[t] = pc[t]
    BY <1>1, <1>3 DEF Refuse, CreateSyncLog, Close, Catch, Goto, TypeOK, TypeOfCalls
  <2>3. UNCHANGED <<kc, pg, job, mode, quiet>>
    BY <1>3 DEF Refuse, CreateSyncLog, Close, Catch, Goto, stores, marks
  <2>4. \A m \in Names : Follows(s, m)'
    BY <2>1, FollowVoid
  <2>q. QED BY <2>2, <2>3, <2>4, FollowOthers DEF Kept, SameRow
<1>4. CASE Begin(s)
  <2>1. \A m \in Names : Follows(s, m)'
    BY <1>1, <1>4, FollowVoid DEF Begin, TypeOK, TypeOfCalls
  <2>2. \A t \in Syncs : t # s => pc'[t] = pc[t] /\ mode'[t] = mode[t] /\ quiet'[t] = quiet[t]
    BY <1>1, <1>4 DEF Begin, TypeOK, TypeOfCalls, TypeOfMarks
  <2>q. QED BY <1>4, <2>1, <2>2, FollowOthers DEF Begin, stores, Kept, SameRow
<1>5. CASE Finally(s)
  <2>1. \A m \in Names : Follows(s, m)'
    BY <1>1, <1>5, FollowVoid DEF Finally, TypeOK, TypeOfCalls
  <2>2. \A t \in Syncs : t # s => /\ pc'[t] = pc[t] /\ mode'[t] = mode[t] /\ job'[t] = job[t]
                                      /\ quiet'[t] = quiet[t]
    BY <1>1, <1>5 DEF Finally, TypeOK, TypeOfCalls, TypeOfMarks
  <2>q. QED BY <1>5, <2>1, <2>2, FollowOthers DEF Finally, stores, Kept, SameRow
<1>q. QED BY <1>2, <1>3, <1>4, <1>5

\* The phases of a call: what it reads, and where it is then.
LEMMA FollowReads ==
    ASSUME IInv, Linked, MarksGrow, AllFollow, NEW s \in Syncs,
           Fetch(s) \/ Pulled(s) \/ FindRows(s) \/ Pushed(s)
    PROVE  AllFollow'
<1>1. TypeOK /\ StagesOK
  BY DEF IInv
<1>2. UNCHANGED <<kc, pg, mode, quiet>>
  BY DEF Fetch, Pulled, FindRows, Pushed, Goto, stores, marks
<1>3. \A t \in Syncs : t # s => pc'[t] = pc[t] /\ job'[t] = job[t]
  BY <1>1 DEF Fetch, Pulled, FindRows, Pushed, Goto, TypeOK, TypeOfCalls
<1>4. ASSUME NEW m \in Names PROVE Follows(s, m)'
  <2>1. CASE Fetch(s)
    <3>1. CASE Goto(s, "broken")
      BY <1>1, <3>1, FollowVoid DEF Goto, TypeOK, TypeOfCalls
    <3>2. CASE ~Goto(s, "broken")
      <4>1. job' = [job EXCEPT ![s] =
                     [n \in Names |-> IF kc[n] = None THEN NoJob
                                      ELSE [NoJob EXCEPT !.at = "find", !.data = kc[n]]]]
            /\ pc' = [pc EXCEPT ![s] = "pull"]
        BY <2>1, <3>2 DEF Fetch
      <4>2. job'[s][m] = IF kc[m] = None THEN NoJob
                         ELSE [NoJob EXCEPT !.at = "find", !.data = kc[m]]
        BY <1>1, <4>1 DEF TypeOK, TypeOfCalls
      <4>3. \/ job'[s][m].at = "none" /\ kc[m] = None
            \/ job'[s][m].at = "find" /\ job'[s][m].data = kc[m]
        BY <4>2 DEF NoJob
      <4>4. pc'[s] = "pull"
        BY <1>1, <4>1 DEF TypeOK, TypeOfCalls
      <4>5. Pulls(s, m)'
        BY <1>2, <4>3 DEF Pulls, PullStages
      <4>q. QED BY <4>4, <4>5 DEF Follows
    <3>q. QED BY <3>1, <3>2
  <2>2. CASE Pulled(s)
    <3>1. pc[s] = "pull" /\ pc'[s] = "rows" /\ UNCHANGED job
      BY <1>1, <2>2 DEF Pulled, Goto, TypeOK, TypeOfCalls
    <3>2. UNCHANGED <<overridden, touched, torn>>
      BY <2>2 DEF Pulled, flags, marks
    <3>3. Follows(s, m)
      BY DEF AllFollow
    <3>q. QED BY <1>2, <3>1, <3>2, <3>3 DEF Follows, Undisturbed, Pulls, Carried
  <2>3. CASE Pushed(s)
    <3>1. pc[s] = "push" /\ pc'[s] = "close" /\ UNCHANGED job
      BY <1>1, <2>3 DEF Pushed, Goto, TypeOK, TypeOfCalls
    <3>2. UNCHANGED <<overridden, touched, torn>>
      BY <2>3 DEF Pushed, flags, marks
    <3>3. Follows(s, m)
      BY DEF AllFollow
    <3>q. QED BY <1>2, <3>1, <3>2, <3>3 DEF Follows, Undisturbed, Pushes, Synced, Carried
  <2>4. CASE FindRows(s)
    <3>1. CASE Goto(s, "broken")
      BY <1>1, <3>1, FollowVoid DEF Goto, TypeOK, TypeOfCalls
    <3>2. CASE ~Goto(s, "broken")
      <4> DEFINE read(n) ==
            IF pg[n].stored /\ (~pg[n].linked \/ pg[n].recent)
            THEN [job[s][n] EXCEPT !.at = "push", !.data = pg[n].data, !.linked = pg[n].linked]
            ELSE [job[s][n] EXCEPT !.at = "none"]
      <4>1. job' = [job EXCEPT ![s] = [n \in Names |-> read(n)]]
            /\ pc' = [pc EXCEPT ![s] = "push"]
        BY <1>1, <2>4, <3>2 DEF FindRows, TypeOK, TypeOfCalls
      <4>2. job[s][m] \in Jobs
        BY <1>1 DEF TypeOK, TypeOfCalls
      <4>3. /\ read(m).fine = job[s][m].fine
            /\ \/ read(m).at = "push" /\ read(m).data = pg[m].data /\ read(m).linked = pg[m].linked
               \/ read(m).at = "none" /\ (pg[m].stored => pg[m].linked)
        BY <4>2 DEF Jobs
      <4> HIDE DEF read
      <4>4. job'[s][m] = read(m) /\ pc'[s] = "push"
        BY <1>1, <4>1 DEF TypeOK, TypeOfCalls
      <4>5. SUFFICES ASSUME Undisturbed(s, m)' PROVE Pushes(s, m)'
        BY <4>4 DEF Follows
      <4>6. Pulls(s, m)
        <5>1. Undisturbed(s, m)
          BY <1>2, <4>3, <4>4, <4>5 DEF Undisturbed, MarksGrow
        <5>q. QED BY <2>4, <5>1 DEF AllFollow, Follows, FindRows
      <4>7. job[s][m].at \in {"none", "done"}
        <5>1. job[s][m].at \notin PullStages \cup PushStages
          BY <1>1, <2>4 DEF StagesOK, StageOK, FindRows
        <5>q. QED BY <4>2, <5>1 DEF Jobs, Stages
      <4>8. ASSUME read(m).at = "none", m \notin touched \cup torn, kc[m] # None \/ pg[m].stored
            PROVE  Carried(m)
        <5>1. kc[m] # None
          BY <4>3, <4>8 DEF Linked
        <5>q. QED BY <4>6, <4>7, <4>8, <5>1 DEF Pulls
      <4>9. UNCHANGED <<touched, torn>>
        BY <2>4 DEF FindRows, marks
      <4>q. QED BY <1>2, <4>3, <4>4, <4>8, <4>9 DEF Pushes, Synced, Carried
    <3>q. QED BY <3>1, <3>2
  <2>q. QED BY <2>1, <2>2, <2>3, <2>4
<1>q. QED BY <1>2, <1>3, <1>4, FollowOthers DEF Kept, SameRow

\* The steps of a call on one name, on the way from Keycloak.
LEMMA FollowPull ==
    ASSUME IInv, Linked, MarksGrow, AllFollow, NEW s \in Syncs, NEW n \in Names, Pull(s, n)
    PROVE  AllFollow'
<1>1. /\ TypeOK /\ StageOK(s, n) /\ job[s][n] \in Jobs
      /\ Follows(s, n)
  BY DEF IInv, StagesOK, AllFollow, TypeOK, TypeOfCalls
\* A name that is handled is handled by the only call there is.
<1>o. ASSUME NEW t \in Syncs, ~overridden, job[s][n].at \in PullStages,
             job[t][n].at \in PullStages
      PROVE  t = s
  <2>1. pc[s] = "pull" /\ pc[t] = "pull"
    BY <1>o DEF IInv, StagesOK, StageOK
  <2>q. QED BY <1>o, <2>1 DEF IInv, OneAtATime, Active, Running
<1>2. CASE FindMapping(s, n)
  <2>1. job[s][n].at = "find" /\ pc[s] = "pull" /\ job[s][n].data \in Data
    BY <1>1, <1>2 DEF FindMapping, StageOK, PullStages
  <2>2. UNCHANGED <<kc, pg, mapping, quiet, overridden, touched, torn>>
    BY <1>2 DEF FindMapping, stores, flags, marks
  <2>3. \/ Await(s, n, "create") \/ Await(s, n, "row") \/ Reject(s, n)
        \/ Resolve(s, n) /\ (mode[s] = "dry" \/ mapping[n] = Digest(job[s][n].data))
    BY <1>2 DEF FindMapping, Proceed
  <2>4. UNCHANGED <<pc, mode>> /\ Elsewhere(s, n)
    BY <1>1, <2>3, AwaitKeeps, ResolveKeeps, RejectKeeps, Words
  <2>5. CASE Await(s, n, "create") \/ Await(s, n, "row")
    <3>1. /\ job'[s][n].at \in {"create", "row"} /\ job'[s][n].data = job[s][n].data
          /\ job'[s][n].fine = job[s][n].fine
      BY <1>1, <2>5, AwaitKeeps, Words
    <3>2. Follows(s, n)'
      BY <1>1, <2>1, <2>2, <2>4, <3>1 DEF Follows, Undisturbed, Pulls, PullStages
    <3>q. QED BY <2>2, <2>4, <3>2, FollowElsewhere DEF Kept, SameRow
  <2>6. CASE Reject(s, n) \/ mode[s] = "dry"
    <3>1. Follows(s, n)'
      BY <1>1, <2>4, <2>6, RejectKeeps, FollowVoid
    <3>q. QED BY <2>2, <2>4, <3>1, FollowElsewhere DEF Kept, SameRow
  <2>7. CASE Resolve(s, n) /\ mapping[n] = Digest(job[s][n].data)
    <3>1. job'[s][n].at = "done" /\ job'[s][n].fine = job[s][n].fine
      BY <1>1, <2>7, ResolveKeeps
    <3>2. ASSUME Undisturbed(s, n)', n \notin (touched \cup torn)'
          PROVE  Carried(n)'
      <4>1. ~overridden /\ job[s][n].data = kc[n]
        BY <1>1, <2>1, <2>2, <2>4, <3>1, <3>2 DEF Follows, Undisturbed, Pulls, PullStages
      <4>2. mapping[n] \in Core /\ mapping[n] # None
        BY <2>1, <2>7, DigestType, Constants
      <4>3. kc[n] # None /\ pg[n].stored
        BY <4>2 DEF IInv, NoOrphans
      <4>4. \A t \in Syncs : job[t][n].at # "remap"
        <5>1. ASSUME NEW t \in Syncs, job[t][n].at = "remap"
              PROVE  FALSE
          <6>1. t = s
            BY <1>o, <2>1, <4>1, <5>1 DEF PullStages
          <6>q. QED BY <2>1, <5>1, <6>1
        <5>q. QED BY <5>1
      <4>5. Carries(pg[n].data, mapping[n])
        BY <2>2, <3>2, <4>1, <4>2, <4>4 DEF IInv, HashTellsRow
      <4>q. QED BY <2>2, <2>7, <4>1, <4>3, <4>5 DEF Carried
    <3>3. Follows(s, n)'
      BY <2>1, <2>4, <3>1, <3>2 DEF Follows, Pulls, PullStages
    <3>q. QED BY <2>2, <2>4, <3>3, FollowElsewhere DEF Kept, SameRow
  <2>q. QED BY <2>3, <2>5, <2>6, <2>7
<1>3. CASE FindRow(s, n)
  <2>1. job[s][n].at = "row" /\ pc[s] = "pull"
    BY <1>1, <1>3 DEF FindRow, StageOK, PullStages
  <2>2. UNCHANGED <<kc, pg, quiet, overridden>>
    BY <1>3 DEF FindRow, stores, flags, marks
  <2>3. \/ Await(s, n, "create") \/ Await(s, n, "update") \/ Reject(s, n)
        \/ Resolve(s, n) /\ mode[s] = "dry"
    BY <1>3 DEF FindRow, Proceed
  <2>4. UNCHANGED <<pc, mode>> /\ Elsewhere(s, n)
    BY <1>1, <2>3, AwaitKeeps, ResolveKeeps, RejectKeeps, Words
  <2>5. CASE Await(s, n, "create") \/ Await(s, n, "update")
    <3>1. /\ job'[s][n].at \in {"create", "update"} /\ job'[s][n].data = job[s][n].data
          /\ job'[s][n].fine = job[s][n].fine
      BY <1>1, <2>5, AwaitKeeps, Words
    <3>2. Follows(s, n)'
      BY <1>1, <2>1, <2>2, <2>4, <3>1 DEF Follows, Undisturbed, Pulls, PullStages
    <3>q. QED BY <2>2, <2>4, <3>2, FollowElsewhere DEF Kept, SameRow
  <2>6. CASE Reject(s, n) \/ mode[s] = "dry"
    <3>1. Follows(s, n)'
      BY <1>1, <2>4, <2>6, RejectKeeps, FollowVoid
    <3>q. QED BY <2>2, <2>4, <3>1, FollowElsewhere DEF Kept, SameRow
  <2>q. QED BY <2>3, <2>5, <2>6
<1>4. CASE UpdateExistingUser(s, n) \/ CreateNewUser(s, n)
  <2>1. job[s][n].at \in {"update", "create"} /\ pc[s] = "pull"
    BY <1>1, <1>4 DEF UpdateExistingUser, CreateNewUser, StageOK, PullStages
  <2>2. UNCHANGED <<kc, overridden>>
    BY <1>4 DEF UpdateExistingUser, CreateNewUser, flags
  <2>3. \/ Reject(s, n) /\ UNCHANGED <<pg, quiet>>
        \/ /\ Await(s, n, "remap") \/ Await(s, n, "map")
           /\ \E d \in Data : pg' = [pg EXCEPT ![n] = Row(d, TRUE, TRUE)]
           /\ Disturb(s, n)
    <3>1. job[s][n].data \in Data
      BY <1>1, <2>1 DEF StageOK, PullStages
    <3>2. job[s][n].at = "update" => Merged(job[s][n].data, pg[n].data) \in Data
      BY StageMerge DEF IInv
    <3>q. QED BY <1>4, <3>1, <3>2 DEF UpdateExistingUser, CreateNewUser
  <2>4. CASE Reject(s, n) /\ UNCHANGED <<pg, quiet>>
    <3>1. Follows(s, n)'
      BY <1>1, <2>4, RejectKeeps, FollowVoid
    <3>q. QED BY <1>1, <2>2, <2>4, <3>1, RejectKeeps, FollowElsewhere DEF Kept, SameRow
  <2>5. CASE /\ Await(s, n, "remap") \/ Await(s, n, "map")
             /\ \E d \in Data : pg' = [pg EXCEPT ![n] = Row(d, TRUE, TRUE)]
             /\ Disturb(s, n)
    <3>1. /\ job'[s][n].at \in {"remap", "map"} /\ job'[s][n].data = job[s][n].data
          /\ job'[s][n].fine = job[s][n].fine
          /\ UNCHANGED <<pc, mode>> /\ Elsewhere(s, n)
      BY <1>1, <2>5, AwaitKeeps, Words
    <3>2. \A t \in Syncs : quiet'[t] \subseteq quiet[t] /\ (t # s => n \notin quiet'[t])
      BY <1>1, <2>5 DEF Disturb
    <3>3. \A m \in Names : m # n => pg'[m] = pg[m]
      BY <1>1, <2>5 DEF TypeOK, TypeOfStores
    <3>4. Follows(s, n)'
      BY <1>1, <2>1, <2>2, <3>1, <3>2 DEF Follows, Undisturbed, Pulls, PullStages
    <3>q. QED BY <2>2, <3>1, <3>2, <3>3, <3>4, FollowElsewhere DEF Kept, SameRow
  <2>q. QED BY <2>3, <2>4, <2>5
<1>5. CASE UpdateMapping(s, n)
  <2>1. job[s][n].at = "remap" /\ pc[s] = "pull" /\ kc[n] # None /\ pg[n].stored
    BY <1>1, <1>5 DEF UpdateMapping, StageOK, PullStages
  <2>2. UNCHANGED <<kc, pg, quiet, overridden, touched>> /\ torn \subseteq torn'
    BY <1>5 DEF UpdateMapping, flags
  <2>3. Reject(s, n) \/ Resolve(s, n)
    BY <1>5 DEF UpdateMapping
  <2>4. UNCHANGED <<pc, mode>> /\ Elsewhere(s, n)
    BY <1>1, <2>3, ResolveKeeps, RejectKeeps
  <2>5. Follows(s, n)'
    <3>1. CASE Reject(s, n)
      BY <1>1, <3>1, RejectKeeps, FollowVoid
    <3>2. CASE Resolve(s, n)
      <4>1. job'[s][n].at = "done" /\ job'[s][n].fine = job[s][n].fine
        BY <1>1, <3>2, ResolveKeeps
      <4>2. ASSUME Undisturbed(s, n)', n \notin (touched \cup torn)'
            PROVE  Carried(n)'
        <5>1. ~overridden /\ job[s][n].data = kc[n]
          BY <1>1, <2>1, <2>2, <2>4, <4>1, <4>2 DEF Follows, Undisturbed, Pulls, PullStages
        <5>2. Carries(pg[n].data, Digest(job[s][n].data))
          BY <2>1, <2>2, <4>2, <5>1 DEF IInv, RowHolds
        <5>q. QED BY <2>1, <2>2, <5>1, <5>2 DEF Carried
      <4>q. QED BY <2>1, <2>4, <4>1, <4>2 DEF Follows, Pulls, PullStages
    <3>q. QED BY <2>3, <3>1, <3>2
  <2>q. QED BY <2>2, <2>4, <2>5, FollowElsewhere DEF Kept, SameRow
<1>q. QED BY <1>2, <1>3, <1>4, <1>5 DEF Pull

\* And those on the way back, with the mapping of either way.
LEMMA FollowPush ==
    ASSUME IInv, Linked, MarksGrow, AllFollow, NEW s \in Syncs, NEW n \in Names,
           CreateMapping(s, n) \/ Push(s, n) \/ Link(s, n)
    PROVE  AllFollow'
<1>1. /\ TypeOK /\ StageOK(s, n) /\ job[s][n] \in Jobs
      /\ Follows(s, n)
  BY DEF IInv, StagesOK, AllFollow, TypeOK, TypeOfCalls
<1>2. CASE CreateMapping(s, n)
  <2>1. /\ kc[n] # None /\ pg[n].stored
        /\ \/ job[s][n].at = "map" /\ pc[s] = "pull"
           \/ job[s][n].at = "record" /\ pc[s] = "push"
    BY <1>1, <1>2 DEF CreateMapping, StageOK, PullStages, PushStages
  <2>2. UNCHANGED <<kc, pg, quiet, overridden, touched, torn>>
    BY <1>2 DEF CreateMapping, flags, marks
  <2>3. Reject(s, n) \/ Resolve(s, n)
    BY <1>2 DEF CreateMapping
  <2>4. UNCHANGED <<pc, mode>> /\ Elsewhere(s, n)
    BY <1>1, <2>3, ResolveKeeps, RejectKeeps
  <2>5. Follows(s, n)'
    <3>1. CASE Reject(s, n)
      BY <1>1, <3>1, RejectKeeps, FollowVoid
    <3>2. CASE Resolve(s, n)
      <4>1. job'[s][n].at = "done" /\ job'[s][n].fine = job[s][n].fine
        BY <1>1, <3>2, ResolveKeeps
      <4>2. ASSUME Undisturbed(s, n)'
            PROVE  Undisturbed(s, n) /\ ~overridden
        BY <2>2, <2>4, <4>1, <4>2 DEF Undisturbed
      <4>3. CASE job[s][n].at = "map" /\ pc[s] = "pull"
        <5>1. ASSUME Undisturbed(s, n)', n \notin (touched \cup torn)'
              PROVE  Carried(n)'
          <6>1. job[s][n].data = kc[n]
            BY <1>1, <4>2, <4>3, <5>1 DEF Follows, Pulls, PullStages
          <6>2. Carries(pg[n].data, Digest(job[s][n].data))
            BY <2>2, <4>2, <4>3, <5>1 DEF IInv, RowHolds
          <6>q. QED BY <2>1, <2>2, <6>1, <6>2 DEF Carried
        <5>q. QED BY <2>4, <4>1, <4>3, <5>1 DEF Follows, Pulls, PullStages
      <4>4. CASE job[s][n].at = "record" /\ pc[s] = "push"
        <5>1. ASSUME Undisturbed(s, n)'
              PROVE  Synced(n)'
          <6>1. kc[n] = pg[n].data
            BY <1>1, <4>2, <4>4, <5>1 DEF Follows, Pushes
          <6>q. QED BY <2>1, <2>2, <6>1 DEF Synced
        <5>q. QED BY <2>4, <4>1, <4>4, <5>1 DEF Follows, Pushes
      <4>q. QED BY <2>1, <4>3, <4>4
    <3>q. QED BY <2>3, <3>1, <3>2
  <2>q. QED BY <2>2, <2>4, <2>5, FollowElsewhere DEF Kept, SameRow
<1>3. CASE Push(s, n)
  <2>1. /\ job[s][n].at = "push" /\ pc[s] = "push" /\ pg[n].stored /\ job[s][n].data \in Data
    BY <1>1, <1>3 DEF Push, StageOK, PushStages
  <2>2. UNCHANGED <<pg, overridden>>
    BY <1>3 DEF Push, flags
  <2>3. \/ (Reject(s, n) \/ (Resolve(s, n) /\ mode[s] = "dry")) /\ UNCHANGED <<kc, quiet>>
        \/ /\ Resolve(s, n) \/ Await(s, n, "link")
           /\ kc' = [kc EXCEPT ![n] = job[s][n].data]
           /\ Disturb(s, n)
    BY <1>3 DEF Push
  <2>4. CASE (Reject(s, n) \/ (Resolve(s, n) /\ mode[s] = "dry")) /\ UNCHANGED <<kc, quiet>>
    <3>1. UNCHANGED <<pc, mode>> /\ Elsewhere(s, n)
      BY <1>1, <2>4, ResolveKeeps, RejectKeeps
    <3>2. Follows(s, n)'
      BY <1>1, <2>4, <3>1, RejectKeeps, FollowVoid
    <3>q. QED BY <2>2, <2>4, <3>1, <3>2, FollowElsewhere DEF Kept, SameRow
  <2>5. CASE /\ Resolve(s, n) \/ Await(s, n, "link")
             /\ kc' = [kc EXCEPT ![n] = job[s][n].data]
             /\ Disturb(s, n)
    <3>1. /\ job'[s][n].at \in {"done", "link"} /\ job'[s][n].fine = job[s][n].fine
          /\ UNCHANGED <<pc, mode>> /\ Elsewhere(s, n)
      BY <1>1, <2>5, AwaitKeeps, ResolveKeeps, Words
    <3>2. \A t \in Syncs : quiet'[t] \subseteq quiet[t] /\ (t # s => n \notin quiet'[t])
      BY <1>1, <2>5 DEF Disturb
    <3>3. kc'[n] = job[s][n].data /\ \A m \in Names : m # n => kc'[m] = kc[m]
      BY <1>1, <2>5 DEF TypeOK, TypeOfStores
    <3>4. ASSUME Undisturbed(s, n)'
          PROVE  kc'[n] = pg'[n].data /\ Synced(n)'
      <4>1. Undisturbed(s, n)
        BY <2>2, <3>1, <3>2, <3>4 DEF Undisturbed
      <4>2. job[s][n].data = pg[n].data
        BY <1>1, <2>1, <4>1 DEF Follows, Pushes
      <4>3. job[s][n].data # None
        BY <2>1, Constants
      <4>q. QED BY <2>1, <2>2, <3>3, <4>2, <4>3 DEF Synced
    <3>5. Follows(s, n)'
      BY <2>1, <3>1, <3>4 DEF Follows, Pushes
    <3>q. QED BY <2>2, <3>1, <3>2, <3>3, <3>5, FollowElsewhere DEF Kept, SameRow
  <2>q. QED BY <2>3, <2>4, <2>5
<1>4. CASE Link(s, n)
  <2>1. job[s][n].at = "link" /\ pc[s] = "push" /\ pg[n].stored
    BY <1>1, <1>4 DEF Link, StageOK, PushStages
  <2>2. UNCHANGED <<kc, overridden>>
    BY <1>4 DEF Link, flags
  <2>3. \/ Reject(s, n) /\ UNCHANGED <<pg, quiet>>
        \/ /\ Await(s, n, "record")
           /\ pg' = [pg EXCEPT ![n].linked = TRUE, ![n].recent = TRUE]
           /\ Disturb(s, n)
    BY <1>4 DEF Link
  <2>4. CASE Reject(s, n) /\ UNCHANGED <<pg, quiet>>
    <3>1. Follows(s, n)'
      BY <1>1, <2>4, RejectKeeps, FollowVoid
    <3>q. QED BY <1>1, <2>2, <2>4, <3>1, RejectKeeps, FollowElsewhere DEF Kept, SameRow
  <2>5. CASE /\ Await(s, n, "record")
             /\ pg' = [pg EXCEPT ![n].linked = TRUE, ![n].recent = TRUE]
             /\ Disturb(s, n)
    <3>1. /\ job'[s][n].at = "record" /\ job'[s][n].fine = job[s][n].fine
          /\ UNCHANGED <<pc, mode>> /\ Elsewhere(s, n)
      BY <1>1, <2>5, AwaitKeeps, Words
    <3>2. \A t \in Syncs : quiet'[t] \subseteq quiet[t] /\ (t # s => n \notin quiet'[t])
      BY <1>1, <2>5 DEF Disturb
    <3>3. pg'[n].data = pg[n].data /\ \A m \in Names : m # n => pg'[m] = pg[m]
      <4>1. pg[n] \in StoredRows
        BY <1>1, <2>1, RowTypes DEF TypeOK, TypeOfStores
      <4>q. QED BY <1>1, <2>5, <4>1 DEF TypeOK, TypeOfStores, StoredRows
    <3>4. Follows(s, n)'
      BY <1>1, <2>1, <2>2, <3>1, <3>2, <3>3 DEF Follows, Undisturbed, Pushes
    <3>q. QED BY <2>2, <3>1, <3>2, <3>3, <3>4, FollowElsewhere DEF Kept, SameRow
  <2>q. QED BY <2>3, <2>4, <2>5
<1>q. QED BY <1>2, <1>3, <1>4

\* Whoever else writes a name disturbs every call on it.
LEMMA FollowOutside ==
    ASSUME IInv, MarksGrow, AllFollow, Outside
    PROVE  AllFollow'
<1>1. TypeOK
  BY DEF IInv
<1>h. ASSUME UNCHANGED <<pc, mode, job>>,
             \A t \in Syncs, m \in Names : m \in quiet'[t] => m \in quiet[t] /\ Kept(m)
      PROVE  AllFollow'
  BY <1>h, FollowCarries DEF AllFollow
<1>d. ASSUME NEW n \in Names, Disturb(None, n), \A m \in Names : m # n => Kept(m)
      PROVE  \A t \in Syncs, m \in Names : m \in quiet'[t] => m \in quiet[t] /\ Kept(m)
  <2>1. \A t \in Syncs : quiet'[t] = quiet[t] \ {n}
    BY <1>d, NoneAssumption DEF Disturb
  <2>q. QED BY <1>d, <2>1
<1>2. CASE AskCancel \/ MarkCancelled
  BY <1>2, <1>h DEF AskCancel, MarkCancelled, stores, calls, marks, Kept, SameRow
<1>3. CASE ClearFlag
  BY <1>3, FollowVoid DEF ClearFlag, AllFollow
<1>4. CASE Restart
  <2>1. \A t \in Syncs : quiet'[t] = {}
    BY <1>4 DEF Restart
  <2>q. QED BY <2>1, FollowVoid DEF AllFollow
<1>5. ASSUME NEW n \in Names, StartAdoption(n)
      PROVE  AllFollow'
  BY <1>5, <1>h DEF StartAdoption, stores, calls, marks, Kept, SameRow
<1>6. ASSUME NEW n \in Names, HourPasses(n)
      PROVE  AllFollow'
  <2>1. pg[n] \in StoredRows
    BY <1>1, <1>6, RowTypes DEF HourPasses, TypeOK, TypeOfStores
  <2>2. \A m \in Names : Kept(m)
    BY <1>1, <1>6, <2>1 DEF HourPasses, TypeOK, TypeOfStores, StoredRows, Kept, SameRow
  <2>q. QED BY <1>6, <1>h, <2>2 DEF HourPasses, calls, marks
<1>7. ASSUME NEW n \in Names, WriteAccount(n) \/ CreateUser(n) \/ UpdateUser(n) \/ DeleteMapping(n)
      PROVE  AllFollow'
  <2>1. Disturb(None, n) /\ UNCHANGED <<pc, mode, job>>
    BY <1>7 DEF WriteAccount, CreateUser, UpdateUser, DeleteMapping, calls
  <2>2. \A m \in Names : m # n => Kept(m)
    BY <1>1, <1>7 DEF WriteAccount, CreateUser, UpdateUser, DeleteMapping, TypeOK, TypeOfStores,
                      Kept, SameRow
  <2>q. QED BY <1>d, <1>h, <2>1, <2>2
<1>8. ASSUME NEW n \in Names, Adopt(n)
      PROVE  AllFollow'
  <2>1. CASE UNCHANGED <<pg, quiet>>
    BY <1>8, <1>h, <2>1 DEF Adopt, calls, Kept, SameRow
  <2>2. CASE (\E d \in Data : pg' = [pg EXCEPT ![n] = Row(d, TRUE, TRUE)]) /\ Disturb(None, n)
    <3>1. \A m \in Names : m # n => Kept(m)
      BY <1>1, <1>8, <2>2 DEF Adopt, TypeOK, TypeOfStores, Kept, SameRow
    <3>q. QED BY <1>8, <1>d, <1>h, <2>2, <3>1 DEF Adopt, calls
  <2>q. QED BY <1>8, <2>1, <2>2 DEF Adopt
<1>q. QED BY <1>2, <1>3, <1>4, <1>5, <1>6, <1>7, <1>8 DEF Outside

\* Only a name with an account is ever linked, by a call or by AuthService.
LEMMA LinkedStep ==
    ASSUME IInv, Linked, [Next]_vars
    PROVE  Linked'
<1>1. TypeOK /\ StagesOK
  BY DEF IInv
<1>2. \A m \in Names : kc[m] # None => kc'[m] # None
  BY <1>1, StoresGrow DEF Stays
<1>h. ASSUME \A m \in Names : pg'[m].linked \/ m \in adopting'
                              => pg[m].linked \/ m \in adopting \/ kc[m] # None
      PROVE  Linked'
  BY <1>2, <1>h DEF Linked
<1>3. ASSUME NEW s \in Syncs, NEW n \in Names, Pull(s, n) \/ Link(s, n)
      PROVE  Linked'
  <2>1. UNCHANGED adopting
    BY <1>3 DEF Pull, FindMapping, FindRow, UpdateExistingUser, UpdateMapping, CreateNewUser, Link
  <2>2. \A m \in Names : m # n => pg'[m] = pg[m]
    BY <1>1, <1>3 DEF Pull, FindMapping, FindRow, UpdateExistingUser, UpdateMapping, CreateNewUser,
                      Link, stores, TypeOK, TypeOfStores
  <2>3. kc[n] # None \/ pg'[n] = pg[n]
    BY <1>1, <1>3 DEF Pull, FindMapping, FindRow, UpdateExistingUser, UpdateMapping, CreateNewUser,
                      Link, stores, StagesOK, StageOK, PullStages
  <2>q. QED BY <1>h, <2>1, <2>2, <2>3
<1>4. ASSUME NEW s \in Syncs, Step(s), ~\E n \in Names : Pull(s, n) \/ Link(s, n)
      PROVE  Linked'
  <2>1. UNCHANGED <<pg, adopting>>
    BY <1>4 DEF Step, Wipe, Refuse, Begin, CreateSyncLog, Fetch, Pulled, FindRows, Pushed,
                Close, Catch, Finally, CreateMapping, Push, stores
  <2>q. QED BY <1>h, <2>1
<1>5. ASSUME NEW n \in Names, WriteAccount(n) \/ StartAdoption(n) \/ DeleteMapping(n)
      PROVE  Linked'
  BY <1>5, <1>h DEF WriteAccount, StartAdoption, DeleteMapping, stores
<1>6. ASSUME NEW n \in Names, HourPasses(n) \/ UpdateUser(n)
      PROVE  Linked'
  <2>1. pg[n] \in StoredRows
    BY <1>1, <1>6, RowTypes DEF HourPasses, UpdateUser, TypeOK, TypeOfStores
  <2>2. \A m \in Names : pg'[m].linked = pg[m].linked
    <3>1. CASE HourPasses(n)
      BY <1>1, <2>1, <3>1 DEF HourPasses, TypeOK, TypeOfStores, StoredRows
    <3>2. CASE UpdateUser(n)
      <4>1. PICK d \in Data : pg' = [pg EXCEPT ![n].data = d, ![n].recent = TRUE]
        BY <3>2 DEF UpdateUser
      <4>2. pg'[n].linked = pg[n].linked
        BY <1>1, <2>1, <4>1 DEF TypeOK, TypeOfStores, StoredRows
      <4>3. \A m \in Names : m # n => pg'[m] = pg[m]
        BY <1>1, <4>1 DEF TypeOK, TypeOfStores
      <4>q. QED BY <4>2, <4>3
    <3>q. QED BY <1>6, <3>1, <3>2
  <2>q. QED BY <1>6, <1>h, <2>2 DEF HourPasses, UpdateUser
<1>7. ASSUME NEW n \in Names, CreateUser(n)
      PROVE  Linked'
  <2>1. PICK d \in Data : pg' = [pg EXCEPT ![n] = Row(d, FALSE, TRUE)]
    BY <1>7 DEF CreateUser
  <2>2. \A m \in Names : pg'[m].linked => pg[m].linked
    BY <1>1, <2>1 DEF Row, TypeOK, TypeOfStores
  <2>q. QED BY <1>7, <1>h, <2>2 DEF CreateUser
<1>8. ASSUME NEW n \in Names, Adopt(n)
      PROVE  Linked'
  <2>1. n \in adopting /\ adopting' \subseteq adopting
    BY <1>8 DEF Adopt
  <2>2. \A m \in Names : m # n => pg'[m] = pg[m]
    BY <1>1, <1>8 DEF Adopt, TypeOK, TypeOfStores
  <2>q. QED BY <1>h, <2>1, <2>2
<1>9. CASE AskCancel \/ MarkCancelled \/ ClearFlag \/ Restart \/ UNCHANGED vars
  BY <1>9, <1>h DEF AskCancel, MarkCancelled, ClearFlag, Restart, stores, vars
<1>q. QED BY <1>3, <1>4, <1>5, <1>6, <1>7, <1>8, <1>9 DEF Next, Outside

\* The inductive invariant of what a call has seen, on top of IInv.
THEOREM SyncInvariance == Spec => []SyncInv
<1>1. Init => SyncInv
  <2> SUFFICES ASSUME Init PROVE SyncInv
    OBVIOUS
  <2>1. \A n \in Names : ~pg[n].linked
    BY DEF Init, NoRow, Row
  <2>2. Linked
    BY <2>1 DEF Linked, Init
  <2>3. AllFollow
    BY DEF AllFollow, Follows, Init
  <2>q. QED BY <2>2, <2>3, Initially DEF SyncInv
<1>2. SyncInv /\ [Next]_vars => SyncInv'
  <2> SUFFICES ASSUME SyncInv, [Next]_vars PROVE SyncInv'
    OBVIOUS
  <2>1. IInv /\ Linked /\ AllFollow /\ MarksGrow
    BY MarksStep DEF SyncInv
  <2>2. IInv' /\ Linked'
    BY <2>1, InvarianceStep, LinkedStep
  <2>3. CASE UNCHANGED vars
    <3>1. \A n \in Names : Kept(n)
      BY <2>3 DEF vars, stores, Kept, SameRow
    <3>2. AllFollow'
      BY <2>1, <2>3, <3>1, FollowCarries DEF AllFollow, vars, calls, marks
    <3>q. QED BY <2>2, <3>2 DEF SyncInv
  <2>4. CASE Next
    <3>1. AllFollow'
      BY <2>1, <2>4, FollowOutside, FollowPhases, FollowReads, FollowPull, FollowPush
      DEF Next, Step
    <3>q. QED BY <2>2, <3>1 DEF SyncInv
  <2>q. QED BY <2>3, <2>4
<1>q. QED BY <1>1, <1>2, PTL DEF Spec

\* A synchronisation that went through a name without an error and undisturbed
\* leaves a row that has what the account has, and equal to it if the row was
\* pushed, for any number of names, of calls that are refused, cut off or started
\* again, and of failures on other names
\* (syncKeycloakToPostgres and syncPostgresToKeycloak).
THEOREM UndisturbedNamesCatchUp == Spec => []SyncCatchesUp
<1>1. SyncInv => SyncCatchesUp
  <2> SUFFICES ASSUME SyncInv, NEW s \in Syncs, NEW n \in Names,
                      pc[s] = "close", mode[s] # "dry", ~overridden,
                      n \in quiet[s], job[s][n].fine, kc[n] # None \/ pg[n].stored,
                      n \notin touched \cup torn \/ job[s][n].at = "done"
               PROVE  Carried(n) /\ (job[s][n].at = "done" => Synced(n))
    BY DEF SyncCatchesUp, Carried, Synced
  <2>1. Pushes(s, n)
    BY DEF SyncInv, AllFollow, Follows, Undisturbed
  <2>2. job[s][n].at \in {"none", "done"}
    <3>1. job[s][n].at \notin PullStages \cup PushStages
      BY DEF SyncInv, IInv, StagesOK, StageOK
    <3>2. job[s][n] \in Jobs
      BY DEF SyncInv, IInv, TypeOK, TypeOfCalls
    <3>q. QED BY <3>1, <3>2 DEF Jobs, Stages
  <2>q. QED BY <2>1, <2>2, SyncedCarries DEF Pushes
<1>q. QED BY <1>1, SyncInvariance, PTL
=============================================================================
