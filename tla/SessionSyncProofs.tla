------------------------- MODULE SessionSyncProofs -------------------------
(***************************************************************************)
(* Proofs about SessionSync, for every number of sessions, students, rows, *)
(* finish coroutines and restarts.                                         *)
(***************************************************************************)
EXTENDS SessionSync, WellFoundedInduction, TLAPS

USE DEF START_OFFLINE, START_ONLINE, START_FINISH_OFFLINE,
        START_ONLINE_FINISH_OFFLINE, START_ONLINE_FINISH_ONLINE,
        SessionState, RowId, NoRow, SidOrNone, FinPc,
        rowVars, srvVars, loginVars, liveVars, recVars, fetchVars

LEMMA AnyStudentIsStudent == AnyStudent \in Student
  BY StudentAssumption DEF AnyStudent

-----------------------------------------------------------------------------
(* Type correctness: the operations several actions share, then one step    *)
(* per action.                                                             *)

LEMMA InsertLiveRowType ==
  ASSUME RowType, NEW st \in SessionState, NEW x \in SidOrNone,
         NEW s \in Student, InsertLiveRow(st, x, s), MaxRow \in Nat
  PROVE  RowType' /\ LiveType' /\ rowCount' = rowCount + 1
  BY DEF RowType, LiveType, InsertLiveRow

LEMMA AttachLiveRowType ==
  ASSUME RowType, NEW r \in 1 .. rowCount, NEW x \in SidOrNone,
         AttachLiveRow(r, x), MaxRow \in Nat
  PROVE  RowType' /\ LiveType'
  BY DEF RowType, LiveType, AttachLiveRow

LEMMA RecordEndType ==
  ASSUME RowType, LiveType, NEW st \in SessionState, RecordEnd(st),
         liveRow # NoRow
  PROVE  RowType' /\ LiveType'
  BY MaxRowAssumption DEF RowType, LiveType, RecordEnd

LEMMA SaveFinishType ==
  ASSUME RowType, LiveType, NEW f \in Finisher, NEW pc \in FinPc,
         finPc \in [Finisher -> FinPc], SaveFinish(f, pc) \/ NothingToSave(f)
  PROVE  RowType' /\ LiveType' /\ finPc' \in [Finisher -> FinPc]
<1>1. SavedState \in SessionState
  BY DEF SavedState
<1>2. CASE SaveFinish(f, pc)
  BY <1>1, <1>2, RecordEndType DEF SaveFinish, FinGoto
<1>3. CASE NothingToSave(f)
  BY <1>3 DEF NothingToSave, FinGoto, RowType, LiveType
<1> QED
  BY <1>2, <1>3

LEMMA ServerType ==
  ASSUME SrvType, NEW x \in Sid, NEW s \in Student,
         ServerOpens(x, s) \/ ServerCloses(x) \/ UNCHANGED srvVars
  PROVE  SrvType'
  BY DEF SrvType, ServerOpens, ServerCloses

LEMMA RecAdvanceType ==
  ASSUME RecType, NEW r \in RowId, RecAdvance(r), UNCHANGED rowCount
  PROVE  RecType'
  BY DEF RecType, RecAdvance

LEMMA TypeStep == ASSUME TypeOK, [Next]_vars PROVE TypeOK'
<1> USE NoSidAssumption, MaxRowAssumption, MaxRestartAssumption,
        AnyStudentIsStudent DEF TypeOK
<1>1. ASSUME NEW s \in Student, CheckOnline(s) PROVE TypeOK'
  BY <1>1
  DEF CheckOnline, InProgress, RowType, SrvType, LoginType, LiveType, RecType,
      CallType
<1>2. ASSUME NEW s \in Student, CheckOffline(s) PROVE TypeOK'
  BY <1>2
  DEF CheckOffline, RowType, SrvType, LoginType, LiveType, RecType, CallType
<1>3. ASSUME NEW s \in Student, ContinueOffline(s) PROVE TypeOK'
  <2>1. RowType' /\ LiveType' /\ rowCount' = rowCount
    BY <1>3, AttachLiveRowType
    DEF ContinueOffline, LastRowRunning, RowType, AttachLiveRow
  <2>2. SrvType' /\ LoginType' /\ RecType' /\ CallType'
    BY <1>3, <2>1
    DEF ContinueOffline, SrvType, LoginType, RecType, CallType
  <2> QED
    BY <2>1, <2>2
<1>4. CASE ContinueOnline
  <2>1. RowType' /\ LiveType' /\ rowCount' \in {rowCount, rowCount + 1}
    BY <1>4, AttachLiveRowType, InsertLiveRowType
    DEF ContinueOnline, AttachLiveRow, LoginType, LiveType
  <2>2. SrvType' /\ LoginType' /\ RecType' /\ CallType'
    BY <1>4, <2>1
    DEF ContinueOnline, LoginEnds, RowType, SrvType, LoginType, RecType,
        CallType
  <2> QED
    BY <2>1, <2>2
<1>5. CASE StartOffline
  BY <1>5, InsertLiveRowType
  DEF StartOffline, LoginEnds, RowType, SrvType, LoginType, LiveType, RecType,
      CallType
<1>6. CASE StartOnlineCall
  BY <1>6, ServerType
  DEF StartOnlineCall, LoginEnds, RowType, SrvType, LoginType, LiveType,
      RecType, CallType
<1>7. CASE StartOnlineReply
  BY <1>7, InsertLiveRowType
  DEF StartOnlineReply, LoginEnds, RowType, SrvType, LoginType, LiveType,
      RecType, CallType
<1>8. CASE LeaveScreen
  BY <1>8
  DEF LeaveScreen, LoginEnds, RowType, SrvType, LoginType, LiveType, RecType,
      CallType
<1>9. ASSUME NEW f \in Finisher, FinishCall(f) PROVE TypeOK'
  BY <1>9
  DEF FinishCall, FinGoto, RowType, SrvType, LoginType, LiveType, RecType,
      CallType
<1>10. ASSUME NEW f \in Finisher, FinishNoLocation(f) PROVE TypeOK'
  BY <1>10
  DEF FinishNoLocation, FinGoto, RowType, SrvType, LoginType, LiveType,
      RecType, CallType
<1>11. ASSUME NEW f \in Finisher, FinishUnknown(f) PROVE TypeOK'
  BY <1>11
  DEF FinishUnknown, FinGoto, ScreenMayClose, RowType, SrvType, LoginType,
      LiveType, RecType, CallType
<1>12. ASSUME NEW f \in Finisher, FinishOffline(f) PROVE TypeOK'
  <2>1. RowType' /\ LiveType' /\ finPc' \in [Finisher -> FinPc]
    BY <1>12, SaveFinishType
    DEF FinishOffline, CallType
  <2>2. rowCount' = rowCount
    BY <1>12
    DEF FinishOffline, SaveFinish, NothingToSave, RecordEnd
  <2>3. SrvType' /\ LoginType' /\ RecType' /\ CallType'
    BY <1>12, <2>1, <2>2
    DEF FinishOffline, TriggerRecover, SrvType, LoginType, RecType, CallType
  <2> QED
    BY <2>1, <2>2, <2>3
<1>13. ASSUME NEW f \in Finisher, FinishUploadImage(f) PROVE TypeOK'
  <2>1. RowType' /\ LiveType' /\ finPc' \in [Finisher -> FinPc]
    BY <1>13, SaveFinishType
    DEF FinishUploadImage, FinGoto, CallType, RowType, LiveType
  <2>2. rowCount' = rowCount
    BY <1>13
    DEF FinishUploadImage, SaveFinish, NothingToSave, RecordEnd
  <2>3. SrvType' /\ LoginType' /\ RecType' /\ CallType'
    BY <1>13, <2>1, <2>2
    DEF FinishUploadImage, TriggerRecover, SrvType, LoginType, RecType, CallType
  <2> QED
    BY <2>1, <2>2, <2>3
<1>14. ASSUME NEW f \in Finisher, FinishSend(f) PROVE TypeOK'
  <2>1. SrvType'
    BY <1>14
    DEF FinishSend, ServerCloses, SrvType, LiveType
  <2>2. finPc' \in [Finisher -> FinPc]
    BY <1>14
    DEF FinishSend, FinGoto, CallType
  <2>3. RowType' /\ LoginType' /\ LiveType' /\ RecType' /\ CallType'
    BY <1>14, <2>2
    DEF FinishSend, RowType, LoginType, LiveType, RecType, CallType
  <2> QED
    BY <2>1, <2>2, <2>3
<1>15. ASSUME NEW f \in Finisher, FinishOk(f) PROVE TypeOK'
  <2>1. RowType' /\ LiveType' /\ rowCount' = rowCount
    <3>1. CASE liveRow = NoRow
      BY <1>15, <3>1 DEF FinishOk, RowType, LiveType
    <3>2. CASE liveRow # NoRow
      BY <1>15, <3>2, RecordEndType DEF FinishOk, RecordEnd
    <3> QED
      BY <3>1, <3>2
  <2>2. finPc' \in [Finisher -> FinPc]
    BY <1>15
    DEF FinishOk, FinGoto, CallType
  <2>3. SrvType' /\ LoginType' /\ RecType' /\ CallType'
    BY <1>15, <2>1, <2>2
    DEF FinishOk, SrvType, LoginType, RecType, CallType
  <2> QED
    BY <2>1, <2>2, <2>3
<1>16. ASSUME NEW f \in Finisher, FinishRefused(f) PROVE TypeOK'
  <2>1. RowType' /\ LiveType' /\ finPc' \in [Finisher -> FinPc]
    BY <1>16, SaveFinishType
    DEF FinishRefused, CallType
  <2>2. rowCount' = rowCount
    BY <1>16
    DEF FinishRefused, SaveFinish, NothingToSave, RecordEnd
  <2>3. SrvType' /\ LoginType' /\ RecType' /\ CallType'
    BY <1>16, <2>1, <2>2
    DEF FinishRefused, TriggerRecover, SrvType, LoginType, RecType, CallType
  <2> QED
    BY <2>1, <2>2, <2>3
<1>17. ASSUME NEW f \in Finisher, FinishReset(f) PROVE TypeOK'
  <2>1. finPc' \in [Finisher -> FinPc]
    BY <1>17
    DEF FinishReset, FinGoto, CallType
  <2>2. rowCount' = rowCount /\ liveRow' = 0
    BY <1>17
    DEF FinishReset, ResetDataSession
  <2>3. LiveType'
    BY <1>17, <2>2
    DEF FinishReset, ResetDataSession, RowType, LiveType
  <2>4. RecType'
    BY <1>17, <2>2
    DEF FinishReset, TriggerRecover, RecType
  <2>5. RowType' /\ SrvType' /\ LoginType' /\ CallType'
    BY <1>17, <2>1
    DEF FinishReset, ScreenMayClose, RowType, SrvType, LoginType, CallType
  <2> QED
    BY <2>1, <2>2, <2>3, <2>4, <2>5
<1>18. CASE FetchSend
  BY <1>18
  DEF FetchSend, RowType, SrvType, LoginType, LiveType, RecType, CallType
<1>19. CASE FetchReply
  BY <1>19
  DEF FetchReply, FetchEnds, RowType, SrvType, LoginType, LiveType, RecType,
      CallType
<1>20. CASE FetchForcesLogout
  <2>1. RowType' /\ LiveType' /\ rowCount' = rowCount
    BY <1>20, RecordEndType
    DEF FetchForcesLogout, RecordEnd
  <2>2. SrvType' /\ LoginType' /\ RecType' /\ CallType'
    BY <1>20, <2>1
    DEF FetchForcesLogout, SrvType, LoginType, RecType, CallType
  <2> QED
    BY <2>1, <2>2
<1>21. CASE FetchForcesLogoutNoImage
  BY <1>21
  DEF FetchForcesLogoutNoImage, FetchEnds, ScreenMayClose, RowType, SrvType,
      LoginType, LiveType, RecType, CallType
<1>22. CASE FetchLogoutDone
  BY <1>22
  DEF FetchLogoutDone, ResetDataSession, FetchEnds, ScreenMayClose, RowType,
      SrvType, LoginType, LiveType, RecType, CallType
<1>23. CASE RecList
  BY <1>23
  DEF RecList, ListRows, RowType, SrvType, LoginType, LiveType, RecType,
      CallType
<1>24. ASSUME NEW r \in RowId, RecStart(r) PROVE TypeOK'
  BY <1>24
  DEF RecStart, ServerOpens, RowType, SrvType, LoginType, LiveType, RecType,
      CallType
<1>25. ASSUME NEW r \in RowId, RecStartFails(r) PROVE TypeOK'
  BY <1>25, RecAdvanceType
  DEF RecStartFails, ServerOpens, RowType, SrvType, LoginType, LiveType,
      RecType, CallType
<1>26. ASSUME NEW r \in RowId, RecStartReply(r) PROVE TypeOK'
  BY <1>26
  DEF RecStartReply, Promoted, RowType, SrvType, LoginType, LiveType, RecType,
      CallType
<1>27. ASSUME NEW r \in RowId, RecSkip(r) PROVE TypeOK'
  BY <1>27, RecAdvanceType
  DEF RecSkip, RowType, SrvType, LoginType, LiveType, RecType, CallType
<1>28. ASSUME NEW r \in RowId, RecFinish(r) PROVE TypeOK'
  <2>1. SrvType'
    BY <1>28 DEF RecFinish, ServerCloses, SrvType, RecType
  <2>2. RowType' /\ LoginType' /\ LiveType' /\ RecType' /\ CallType'
    BY <1>28
    DEF RecFinish, RowType, LoginType, LiveType, RecType, CallType
  <2> QED
    BY <2>1, <2>2
<1>29. ASSUME NEW r \in RowId, RecFinishFails(r) PROVE TypeOK'
  BY <1>29, RecAdvanceType
  DEF RecFinishFails, ServerCloses, RowType, SrvType, LoginType, LiveType,
      RecType, CallType
<1>30. ASSUME NEW r \in RowId, RecFinishReply(r) PROVE TypeOK'
  BY <1>30, RecAdvanceType
  DEF RecFinishReply, RowType, SrvType, LoginType, LiveType, RecType, CallType
<1>31. CASE NetworkAvailable
  BY <1>31
  DEF NetworkAvailable, TriggerRecover, RowType, SrvType, LoginType, LiveType,
      RecType, CallType
<1>32. CASE NetworkLost
  BY <1>32
  DEF NetworkLost, RowType, SrvType, LoginType, LiveType, RecType, CallType
<1>33. CASE Restart
  BY <1>33
  DEF Restart, LoginEnds, ResetDataSession, FetchEnds, RowType, SrvType,
      LoginType, LiveType, RecType, CallType
<1>34. ASSUME NEW x \in Sid, AdminCloses(x) PROVE TypeOK'
  BY <1>34
  DEF AdminCloses, ServerCloses, RowType, SrvType, LoginType, LiveType,
      RecType, CallType
<1>35. CASE UNCHANGED vars
  BY <1>35
  DEF vars, RowType, SrvType, LoginType, LiveType, RecType, CallType
<1> QED
  BY <1>1, <1>2, <1>3, <1>4, <1>5, <1>6, <1>7, <1>8, <1>9, <1>10, <1>11,
     <1>12, <1>13, <1>14, <1>15, <1>16, <1>17, <1>18, <1>19, <1>20, <1>21,
     <1>22, <1>23, <1>24, <1>25, <1>26, <1>27, <1>28, <1>29, <1>30, <1>31,
     <1>32, <1>33, <1>34, <1>35
  DEF Next, Login, Finish, RecoverRow

LEMMA TypeInit == Init => TypeOK
  BY NoSidAssumption, MaxRowAssumption, MaxRestartAssumption,
     AnyStudentIsStudent
  DEF Init, TypeOK, RowType, SrvType, LoginType, LiveType, RecType, CallType

\* Every variable keeps to its type in every behaviour.
THEOREM TypeCorrect == Spec => []TypeOK
<1>1. Init => TypeOK
  BY TypeInit
<1>2. TypeOK /\ [Next]_vars => TypeOK'
  BY TypeStep
<1> QED
  BY <1>1, <1>2, PTL DEF Spec

-----------------------------------------------------------------------------
(***************************************************************************)
(* The inductive invariant. Core is what the table, the session in memory,  *)
(* the recovery and the server say of each other; each lemma shows that one *)
(* kind of step, shared by several actions, keeps it.                      *)
(***************************************************************************)
Core == FreshRows /\ LiveSound /\ SnapshotSound /\ ReplySound /\ SidOfStudent

\* The server forgets nothing: a closed session stays closed, and one that
\* was opened stays its student's.
SrvGrows ==
  \A x \in Sid :
    /\ srvState[x] = "closed" => srvState'[x] = "closed"
    /\ srvState[x] # "unused" => /\ srvState'[x] # "unused"
                                 /\ srvStudent'[x] = srvStudent[x]

LEMMA ServerGrows ==
  ASSUME SrvType,
         \/ UNCHANGED srvVars
         \/ \E x \in Sid : ServerCloses(x) \/ \E s \in Student : ServerOpens(x, s)
  PROVE  SrvGrows
<1>1. CASE UNCHANGED srvVars
  BY <1>1 DEF SrvGrows
<1>2. ASSUME NEW x \in Sid, ServerCloses(x) PROVE SrvGrows
  BY <1>2 DEF SrvGrows, SrvType, ServerCloses
<1>3. ASSUME NEW x \in Sid, NEW s \in Student, ServerOpens(x, s) PROVE SrvGrows
  BY <1>3 DEF SrvGrows, SrvType, ServerOpens
<1> QED
  BY <1>1, <1>2, <1>3

\* The recovery may be triggered, and otherwise waits.
RecoveryWaits ==
  recPc' \in {recPc, "list"} /\ UNCHANGED <<recTodo, recSid, snapState, snapSid, snapEnded>>

\* A step that leaves the table and the session in memory alone
LEMMA CalmStep ==
  ASSUME TypeOK, Core, SrvGrows, RecoveryWaits, UNCHANGED <<rowVars, liveVars>>
  PROVE  Core'
<1> USE MaxRowAssumption DEF TypeOK, RowType, RecType, Core, RecoveryWaits
<1>1. FreshRows'
  BY DEF FreshRows
<1>2. LiveSound'
  BY DEF LiveSound
<1>3. SnapshotSound'
  BY DEF SnapshotSound, Unfinished
<1>4. ReplySound'
  BY DEF ReplySound, Current, NotStarted, SrvGrows
<1>5. SidOfStudent'
  <2> SUFFICES ASSUME NEW q \in 1 .. rowCount, rowSid[q] # NoSid
               PROVE  /\ srvState'[rowSid[q]] # "unused"
                      /\ srvStudent'[rowSid[q]] = rowStudent[q]
    BY DEF SidOfStudent
  <2>1. rowSid[q] \in Sid
    OBVIOUS
  <2> QED
    BY <2>1 DEF SidOfStudent, SrvGrows
<1> QED
  BY <1>1, <1>2, <1>3, <1>4, <1>5

\* A new last row, with a session of its student or none
LEMMA InsertStep ==
  ASSUME TypeOK, Core, NEW st \in SessionState, NEW x \in SidOrNone,
         NEW s \in Student, InsertLiveRow(st, x, s),
         x \in Sid => srvState[x] # "unused" /\ srvStudent[x] = s,
         UNCHANGED <<srvVars, recVars>>
  PROVE  Core'
<1> USE MaxRowAssumption, NoSidAssumption DEF TypeOK, RowType, LiveType, RecType,
        Core, InsertLiveRow
<1>1. FreshRows'
  BY DEF FreshRows
<1>2. LiveSound'
  BY DEF LiveSound
<1>3. \A r \in 1 .. rowCount : /\ r \in RowId /\ r # rowCount + 1
                               /\ rowState'[r] = rowState[r]
                               /\ rowSid'[r] = rowSid[r]
                               /\ rowStudent'[r] = rowStudent[r]
  OBVIOUS
<1>4. SnapshotSound'
  BY <1>3 DEF SnapshotSound, Unfinished
<1>5. ReplySound'
  BY <1>3 DEF ReplySound, Current, NotStarted
<1>6. SidOfStudent'
  <2> SUFFICES ASSUME NEW r \in 1 .. rowCount + 1, rowSid'[r] # NoSid
               PROVE  srvState[rowSid'[r]] # "unused"
                      /\ srvStudent[rowSid'[r]] = rowStudent'[r]
    BY DEF SidOfStudent
  <2>1. CASE r = rowCount + 1
    BY <2>1
  <2>2. CASE r \in 1 .. rowCount
    BY <2>2, <1>3 DEF SidOfStudent
  <2> QED
    BY <2>1, <2>2
<1> QED
  BY <1>1, <1>2, <1>4, <1>5, <1>6

\* A row becomes the session in memory: one the server knows, or the last.
LEMMA AttachStep ==
  ASSUME TypeOK, Core, NEW r \in 1 .. rowCount, AttachLiveRow(r, rowSid[r]),
         rowSid[r] = NoSid => r = rowCount,
         UNCHANGED <<srvVars, recVars>>
  PROVE  Core'
<1> USE DEF TypeOK, RowType, RecType, Core, AttachLiveRow
<1>1. FreshRows' /\ LiveSound' /\ SidOfStudent'
  BY DEF FreshRows, LiveSound, SidOfStudent
<1>2. SnapshotSound'
  BY DEF SnapshotSound, Unfinished
<1>3. ReplySound'
  BY DEF ReplySound, Current, NotStarted
<1> QED
  BY <1>1, <1>2, <1>3

\* The session in memory is marked finished, one way or another.
LEMMA RecordEndStep ==
  ASSUME TypeOK, Core, NEW st \in SessionState, ~Unfinished(st), RecordEnd(st),
         liveRow # NoRow, UNCHANGED <<srvVars, recVars>>
  PROVE  Core'
<1> USE MaxRowAssumption DEF TypeOK, RowType, LiveType, RecType, Core, RecordEnd
<1>1. liveRow \in RowId /\ liveRow <= rowCount
  OBVIOUS
<1>2. FreshRows' /\ LiveSound' /\ SidOfStudent'
  BY <1>1 DEF FreshRows, LiveSound, SidOfStudent
<1>3. SnapshotSound'
  BY <1>1 DEF SnapshotSound, Unfinished
<1>4. ReplySound'
  BY DEF ReplySound, Current, NotStarted
<1> QED
  BY <1>2, <1>3, <1>4

\* The session in memory is given up.
LEMMA ResetStep ==
  ASSUME TypeOK, Core, ResetDataSession, RecoveryWaits,
         UNCHANGED <<rowVars, srvVars>>
  PROVE  Core'
<1> USE DEF TypeOK, RowType, RecType, Core, ResetDataSession, RecoveryWaits
<1>1. FreshRows' /\ LiveSound' /\ SidOfStudent'
  BY DEF FreshRows, LiveSound, SidOfStudent
<1>2. SnapshotSound'
  BY MaxRowAssumption DEF SnapshotSound, Unfinished
<1>3. ReplySound'
  BY DEF ReplySound, Current, NotStarted
<1> QED
  BY <1>1, <1>2, <1>3

\* The recovery leaves its current row, which it may have marked finished.
LEMMA AdvanceStep ==
  ASSUME TypeOK, Core, NEW r \in RowId, r \in recTodo, RecAdvance(r), SrvGrows,
         UNCHANGED <<rowCount, rowSid, rowStudent, liveVars>>,
         \/ UNCHANGED rowState
         \/ rowState' = [rowState EXCEPT ![r] = START_ONLINE_FINISH_ONLINE]
  PROVE  Core'
<1> USE MaxRowAssumption DEF TypeOK, RowType, RecType, Core, RecAdvance
<1>1. FreshRows'
  BY DEF FreshRows
<1>2. LiveSound'
  BY DEF LiveSound
<1>3. \A q \in recTodo' : /\ q \in recTodo /\ q # r /\ rowState'[q] = rowState[q]
                          /\ snapState'[q] = snapState[q]
                          /\ snapSid'[q] = snapSid[q] /\ q <= rowCount
  <2> TAKE q \in recTodo'
  <2>1. q \in recTodo /\ q # r /\ q \in RowId /\ q <= rowCount
    OBVIOUS
  <2> QED
    BY <2>1
<1>4. SnapshotSound'
  BY <1>3 DEF SnapshotSound, Unfinished
<1>5. ReplySound'
  BY DEF ReplySound
<1>6. SidOfStudent'
  <2> SUFFICES ASSUME NEW q \in 1 .. rowCount, rowSid[q] # NoSid
               PROVE  /\ srvState'[rowSid[q]] # "unused"
                      /\ srvStudent'[rowSid[q]] = rowStudent[q]
    BY DEF SidOfStudent
  <2>1. rowSid[q] \in Sid
    OBVIOUS
  <2> QED
    BY <2>1 DEF SidOfStudent, SrvGrows
<1> QED
  BY <1>1, <1>2, <1>4, <1>5, <1>6

\* The list the recovery makes leaves out the last row while it is running:
\* the only place a session the server does not know can be in memory.
LEMMA RecListStep ==
  ASSUME TypeOK, Core, RecList
  PROVE  Core'
<1> USE MaxRowAssumption DEF TypeOK, RowType, LiveType, RecType, Core, RecList
<1>1. FreshRows' /\ LiveSound' /\ SidOfStudent'
  BY DEF FreshRows, LiveSound, SidOfStudent
<1>2. ReplySound'
  BY DEF ReplySound
<1>3. SnapshotSound'
  <2> SUFFICES ASSUME NEW r \in ListRows
               PROVE  /\ snapSid'[r] = rowSid[r]
                      /\ rowSid[r] = NoSid =>
                           IF Unfinished(snapState'[r])
                           THEN /\ Unfinished(rowState[r])
                                /\ r < rowCount /\ liveRow # r
                           ELSE ~Unfinished(rowState[r])
    BY DEF SnapshotSound, Unfinished
  <2>1. r \in 1 .. rowCount /\ r \in RowId
    BY DEF ListRows
  <2>2. snapState'[r] = rowState[r] /\ snapSid'[r] = rowSid[r]
    BY <2>1
  <2>3. ASSUME Unfinished(rowState[r]) PROVE r < rowCount
    BY <2>1, <2>3 DEF ListRows, Unfinished, Finished
  <2>4. ASSUME rowSid[r] = NoSid, Unfinished(rowState[r]) PROVE liveRow # r
    BY <2>1, <2>3, <2>4 DEF LiveSound
  <2> QED
    BY <2>2, <2>3, <2>4
<1> QED
  BY <1>1, <1>2, <1>3

LEMMA CurrentIsUnique ==
  ASSUME RecType, RowType, NEW r \in RowId, NEW q \in RowId, Current(r), Current(q)
  PROVE  q = r
  BY MaxRowAssumption DEF Current, RecType, RowType

LEMMA RecStartStep ==
  ASSUME TypeOK, Core, NEW r \in RowId, RecStart(r), SrvGrows
  PROVE  Core'
<1> USE MaxRowAssumption DEF TypeOK, RowType, LiveType, RecType, SrvType, Core
<1>1. FreshRows' /\ LiveSound'
  BY DEF RecStart, FreshRows, LiveSound
<1>2. SnapshotSound'
  BY DEF RecStart, SnapshotSound, Unfinished
<1>3. /\ recSid' \in Sid /\ srvState'[recSid'] # "unused"
      /\ srvStudent'[recSid'] = rowStudent[r]
  BY DEF RecStart, ServerOpens
<1>4. ReplySound'
  <2> SUFFICES ASSUME NEW q \in recTodo, Current(q)
               PROVE  /\ NotStarted(snapState[q])
                      /\ srvStudent'[recSid'] = rowStudent[q]
    BY <1>3 DEF RecStart, ReplySound, Current, NotStarted
  <2>1. q = r
    BY CurrentIsUnique DEF RecStart
  <2> QED
    BY <1>3, <2>1 DEF RecStart
<1>5. SidOfStudent'
  <2> SUFFICES ASSUME NEW q \in 1 .. rowCount, rowSid[q] # NoSid
               PROVE  /\ srvState'[rowSid[q]] # "unused"
                      /\ srvStudent'[rowSid[q]] = rowStudent[q]
    BY DEF SidOfStudent, RecStart
  <2>1. rowSid[q] \in Sid
    OBVIOUS
  <2> QED
    BY <2>1 DEF SidOfStudent, SrvGrows
<1> QED
  BY <1>1, <1>2, <1>4, <1>5

LEMMA RecStartReplyStep ==
  ASSUME TypeOK, Core, NEW r \in RowId, RecStartReply(r)
  PROVE  Core'
<1> USE MaxRowAssumption, NoSidAssumption
    DEF TypeOK, RowType, LiveType, RecType, SrvType, Core
<1>1. /\ r \in recTodo /\ r <= rowCount
      /\ NotStarted(snapState[r])
      /\ recSid \in Sid /\ srvState[recSid] # "unused"
      /\ srvStudent[recSid] = rowStudent[r]
  BY DEF RecStartReply, Current, ReplySound
<1>2. \A q \in RowId : q # r => /\ rowState'[q] = rowState[q]
                                /\ rowSid'[q] = rowSid[q]
                                /\ snapState'[q] = snapState[q]
                                /\ snapSid'[q] = snapSid[q]
  BY DEF RecStartReply
<1>3. rowSid'[r] = recSid /\ snapSid'[r] = recSid
  BY DEF RecStartReply
<1>4. FreshRows'
  BY <1>1, <1>2 DEF RecStartReply, FreshRows
<1>5. LiveSound'
  BY <1>1, <1>2, <1>3 DEF RecStartReply, LiveSound
<1>6. SnapshotSound'
  <2> SUFFICES ASSUME NEW q \in recTodo
               PROVE  /\ snapSid'[q] = rowSid'[q]
                      /\ rowSid'[q] = NoSid =>
                           IF Unfinished(snapState'[q])
                           THEN /\ Unfinished(rowState'[q])
                                /\ q < rowCount /\ liveRow # q
                           ELSE ~Unfinished(rowState'[q])
    BY DEF RecStartReply, SnapshotSound, Unfinished
  <2>1. CASE q = r
    BY <1>1, <1>3, <2>1
  <2>2. CASE q # r
    <3>1. q \in RowId
      OBVIOUS
    <3>2. /\ snapSid[q] = rowSid[q]
          /\ rowSid[q] = NoSid =>
               IF Unfinished(snapState[q])
               THEN Unfinished(rowState[q]) /\ q < rowCount /\ liveRow # q
               ELSE ~Unfinished(rowState[q])
      BY DEF SnapshotSound
    <3>3. /\ rowState'[q] = rowState[q] /\ rowSid'[q] = rowSid[q]
          /\ snapState'[q] = snapState[q] /\ snapSid'[q] = snapSid[q]
      BY <1>2, <2>2, <3>1
    <3> QED
      BY <3>2, <3>3 DEF Unfinished
  <2> QED
    BY <2>1, <2>2
<1>7. ReplySound'
  BY DEF RecStartReply, ReplySound
<1>8. SidOfStudent'
  BY <1>1, <1>2, <1>3 DEF RecStartReply, SidOfStudent
<1> QED
  BY <1>4, <1>5, <1>6, <1>7, <1>8

LEMMA RecFinishStep ==
  ASSUME TypeOK, Core, NEW r \in RowId, RecFinish(r), SrvGrows
  PROVE  Core'
<1> USE MaxRowAssumption DEF TypeOK, RowType, LiveType, RecType, SrvType, Core
<1>1. FreshRows' /\ LiveSound'
  BY DEF RecFinish, FreshRows, LiveSound
<1>2. SnapshotSound'
  BY DEF RecFinish, SnapshotSound, Unfinished
<1>3. snapSid[r] \in Sid /\ srvState'[snapSid[r]] = "closed"
  BY DEF RecFinish, ServerCloses
<1>4. ReplySound'
  <2> SUFFICES ASSUME NEW q \in recTodo, Current(q)
               PROVE  snapSid[q] \in Sid /\ srvState'[snapSid[q]] = "closed"
    BY DEF RecFinish, ReplySound, Current
  <2>1. q = r
    BY CurrentIsUnique DEF RecFinish
  <2> QED
    BY <1>3, <2>1
<1>5. SidOfStudent'
  <2> SUFFICES ASSUME NEW q \in 1 .. rowCount, rowSid[q] # NoSid
               PROVE  /\ srvState'[rowSid[q]] # "unused"
                      /\ srvStudent'[rowSid[q]] = rowStudent[q]
    BY DEF SidOfStudent, RecFinish
  <2>1. rowSid[q] \in Sid
    OBVIOUS
  <2> QED
    BY <2>1 DEF SidOfStudent, SrvGrows
<1> QED
  BY <1>1, <1>2, <1>4, <1>5

LEMMA RestartStep ==
  ASSUME TypeOK, Core, Restart
  PROVE  Core'
  BY MaxRowAssumption
  DEF TypeOK, RowType, RecType, Core, Restart, ResetDataSession, FreshRows,
      LiveSound, SnapshotSound, ReplySound, SidOfStudent

\* A login that got an id keeps it until it is used or given up.
LEMMA LoginStep ==
  ASSUME TypeOK, LoginSound, SrvGrows,
         \/ screen' = screen /\ UNCHANGED loginVars
         \/ screen' \notin {"resume", "starting"}
  PROVE  LoginSound'
  BY DEF LoginSound, SrvGrows

\* Every action keeps the invariant.
LEMMA InvStep == ASSUME IInv, [Next]_vars PROVE Core' /\ LoginSound'
<1>a. TypeOK /\ Core /\ LoginSound
  BY DEF IInv, Core
<1>b. TypeOK'
  BY <1>a, TypeStep
<1>1. ASSUME NEW s \in Student, CheckOnline(s) PROVE Core' /\ LoginSound'
  <2>1. SrvGrows
    BY <1>a, <1>1 DEF CheckOnline, SrvGrows
  <2>2. RecoveryWaits /\ UNCHANGED <<rowVars, liveVars>>
    BY <1>a, <1>1 DEF CheckOnline, RecoveryWaits
  <2>3. Core'
    BY <1>a, <2>1, <2>2, CalmStep
  <2>4. LoginSound'
    BY <1>a, <1>1 DEF CheckOnline, LoginSound, InProgress, TypeOK, SrvType
  <2> QED
    BY <2>3, <2>4
<1>2. ASSUME NEW s \in Student, CheckOffline(s) PROVE Core' /\ LoginSound'
  <2>1. SrvGrows
    BY <1>a, <1>2 DEF CheckOffline, SrvGrows
  <2>2. RecoveryWaits /\ UNCHANGED <<rowVars, liveVars>>
    BY <1>a, <1>2 DEF CheckOffline, RecoveryWaits
  <2>3. Core'
    BY <1>a, <2>1, <2>2, CalmStep
  <2>4. LoginSound'
    BY <1>a, <1>2, <2>1, LoginStep DEF CheckOffline
  <2> QED
    BY <2>3, <2>4
<1>3. ASSUME NEW s \in Student, ContinueOffline(s) PROVE Core' /\ LoginSound'
  <2>1. SrvGrows
    BY <1>a, <1>3 DEF ContinueOffline, SrvGrows
  <2>2. rowCount \in 1 .. rowCount
    BY <1>a, <1>3 DEF ContinueOffline, LastRowRunning, TypeOK, RowType
  <2>3. Core'
    BY <1>a, <1>3, <2>2, AttachStep DEF ContinueOffline
  <2>4. LoginSound'
    BY <1>a, <1>3, <2>1, LoginStep DEF ContinueOffline
  <2> QED
    BY <2>3, <2>4
<1>4. CASE ContinueOnline
  <2>1. SrvGrows
    BY <1>a, <1>4 DEF ContinueOnline, SrvGrows
  <2>2. /\ loginSid \in Sid /\ srvState[loginSid] # "unused"
        /\ srvStudent[loginSid] = loginStudent /\ loginStudent \in Student
    BY <1>a, <1>4 DEF ContinueOnline, LoginSound, TypeOK, LoginType
  <2>3. Core'
    <3>1. ASSUME NEW r \in 1 .. rowCount, rowSid[r] = loginSid,
                 AttachLiveRow(r, loginSid)
          PROVE  Core'
      BY <1>a, <1>4, <2>2, <3>1, NoSidAssumption, AttachStep DEF ContinueOnline
    <3>2. ASSUME InsertLiveRow(IF liveRow = NoRow THEN START_ONLINE ELSE liveState,
                               loginSid, loginStudent)
          PROVE  Core'
      BY <1>a, <1>4, <2>2, <3>2, InsertStep DEF ContinueOnline, TypeOK, LiveType
    <3> QED
      BY <1>a, <1>4, <3>1, <3>2 DEF ContinueOnline
  <2>4. LoginSound'
    BY <1>a, <1>4, <2>1, LoginStep DEF ContinueOnline
  <2> QED
    BY <2>3, <2>4
<1>5. CASE StartOffline
  <2>1. SrvGrows
    BY <1>a, <1>5 DEF StartOffline, SrvGrows
  <2>2. loginStudent \in Student
    BY <1>a, <1>5 DEF TypeOK, LoginType
  <2>3. Core'
    BY <1>a, <1>5, <2>2, NoSidAssumption, InsertStep DEF StartOffline
  <2>4. LoginSound'
    BY <1>a, <1>5, <2>1, LoginStep DEF StartOffline
  <2> QED
    BY <2>3, <2>4
<1>6. CASE StartOnlineCall
  <2>1. SrvGrows
    BY <1>a, <1>6, ServerGrows DEF StartOnlineCall, TypeOK, LoginType
  <2>2. RecoveryWaits /\ UNCHANGED <<rowVars, liveVars>>
    BY <1>a, <1>6 DEF StartOnlineCall, RecoveryWaits
  <2>3. Core'
    BY <1>a, <2>1, <2>2, CalmStep
  <2>4. LoginSound'
    BY <1>a, <1>6 DEF StartOnlineCall, ServerOpens, LoginEnds, LoginSound,
       TypeOK, SrvType
  <2> QED
    BY <2>3, <2>4
<1>7. CASE StartOnlineReply
  <2>1. SrvGrows
    BY <1>a, <1>7 DEF StartOnlineReply, SrvGrows
  <2>2. /\ loginSid \in Sid /\ srvState[loginSid] # "unused"
        /\ srvStudent[loginSid] = loginStudent /\ loginStudent \in Student
    BY <1>a, <1>7 DEF StartOnlineReply, LoginSound, TypeOK, LoginType
  <2>3. Core'
    BY <1>a, <1>7, <2>2, InsertStep DEF StartOnlineReply
  <2>4. LoginSound'
    BY <1>a, <1>7, <2>1, LoginStep DEF StartOnlineReply
  <2> QED
    BY <2>3, <2>4
<1>8. CASE LeaveScreen
  <2>1. SrvGrows
    BY <1>a, <1>8 DEF LeaveScreen, SrvGrows
  <2>2. RecoveryWaits /\ UNCHANGED <<rowVars, liveVars>>
    BY <1>a, <1>8 DEF LeaveScreen, RecoveryWaits
  <2>3. Core'
    BY <1>a, <2>1, <2>2, CalmStep
  <2>4. LoginSound'
    BY <1>a, <1>8, <2>1, LoginStep DEF LeaveScreen
  <2> QED
    BY <2>3, <2>4
<1>9. ASSUME NEW f \in Finisher, FinishCall(f) PROVE Core' /\ LoginSound'
  <2>1. SrvGrows
    BY <1>a, <1>9 DEF FinishCall, SrvGrows
  <2>2. RecoveryWaits /\ UNCHANGED <<rowVars, liveVars>>
    BY <1>a, <1>9 DEF FinishCall, RecoveryWaits
  <2>3. Core'
    BY <1>a, <2>1, <2>2, CalmStep
  <2>4. LoginSound'
    BY <1>a, <1>9, <2>1, LoginStep DEF FinishCall
  <2> QED
    BY <2>3, <2>4
<1>10. ASSUME NEW f \in Finisher, FinishNoLocation(f) PROVE Core' /\ LoginSound'
  <2>1. SrvGrows
    BY <1>a, <1>10 DEF FinishNoLocation, SrvGrows
  <2>2. RecoveryWaits /\ UNCHANGED <<rowVars, liveVars>>
    BY <1>a, <1>10 DEF FinishNoLocation, RecoveryWaits
  <2>3. Core'
    BY <1>a, <2>1, <2>2, CalmStep
  <2>4. LoginSound'
    BY <1>a, <1>10, <2>1, LoginStep DEF FinishNoLocation
  <2> QED
    BY <2>3, <2>4
<1>11. ASSUME NEW f \in Finisher, FinishUnknown(f) PROVE Core' /\ LoginSound'
  <2>1. SrvGrows
    BY <1>a, <1>11 DEF FinishUnknown, SrvGrows
  <2>2. RecoveryWaits /\ UNCHANGED <<rowVars, liveVars>>
    BY <1>a, <1>11 DEF FinishUnknown, RecoveryWaits
  <2>3. Core'
    BY <1>a, <2>1, <2>2, CalmStep
  <2>4. LoginSound'
    BY <1>a, <1>11, <2>1, LoginStep DEF FinishUnknown, ScreenMayClose
  <2> QED
    BY <2>3, <2>4
<1>12. ASSUME NEW f \in Finisher, FinishSend(f) PROVE Core' /\ LoginSound'
  <2>1. SrvGrows
    BY <1>a, <1>12, ServerGrows DEF FinishSend, TypeOK, LiveType
  <2>2. RecoveryWaits /\ UNCHANGED <<rowVars, liveVars>>
    BY <1>a, <1>12 DEF FinishSend, RecoveryWaits
  <2>3. Core'
    BY <1>a, <2>1, <2>2, CalmStep
  <2>4. LoginSound'
    BY <1>a, <1>12, <2>1, LoginStep DEF FinishSend
  <2> QED
    BY <2>3, <2>4
<1>13. ASSUME NEW f \in Finisher, FinishOffline(f) PROVE Core' /\ LoginSound'
  <2>1. SrvGrows
    BY <1>a, <1>13 DEF FinishOffline, SrvGrows
  <2>2. \/ /\ liveRow # NoRow /\ UNCHANGED recVars
           /\ \E st \in SessionState : ~Unfinished(st) /\ RecordEnd(st)
        \/ RecoveryWaits /\ UNCHANGED <<rowVars, liveVars>>
    BY <1>a, <1>13 DEF FinishOffline, SaveFinish, NothingToSave, SavedState,
       Unfinished,
      RecoveryWaits, TriggerRecover, TypeOK, RecType
  <2>3. Core'
    BY <1>a, <1>13, <2>1, <2>2, RecordEndStep, CalmStep DEF FinishOffline
  <2>4. LoginSound'
    BY <1>a, <1>13, <2>1, LoginStep DEF FinishOffline
  <2> QED
    BY <2>3, <2>4
<1>14. ASSUME NEW f \in Finisher, FinishUploadImage(f) PROVE Core' /\ LoginSound'
  <2>1. SrvGrows
    BY <1>a, <1>14 DEF FinishUploadImage, SrvGrows
  <2>2. \/ /\ liveRow # NoRow /\ UNCHANGED recVars
           /\ \E st \in SessionState : ~Unfinished(st) /\ RecordEnd(st)
        \/ RecoveryWaits /\ UNCHANGED <<rowVars, liveVars>>
    BY <1>a, <1>14 DEF FinishUploadImage, SaveFinish, NothingToSave,
       SavedState, Unfinished,
      RecoveryWaits, TriggerRecover, TypeOK, RecType
  <2>3. Core'
    BY <1>a, <1>14, <2>1, <2>2, RecordEndStep, CalmStep DEF FinishUploadImage
  <2>4. LoginSound'
    BY <1>a, <1>14, <2>1, LoginStep DEF FinishUploadImage
  <2> QED
    BY <2>3, <2>4
<1>15. ASSUME NEW f \in Finisher, FinishRefused(f) PROVE Core' /\ LoginSound'
  <2>1. SrvGrows
    BY <1>a, <1>15 DEF FinishRefused, SrvGrows
  <2>2. \/ /\ liveRow # NoRow /\ UNCHANGED recVars
           /\ \E st \in SessionState : ~Unfinished(st) /\ RecordEnd(st)
        \/ RecoveryWaits /\ UNCHANGED <<rowVars, liveVars>>
    BY <1>a, <1>15 DEF FinishRefused, SaveFinish, NothingToSave, SavedState,
       Unfinished,
      RecoveryWaits, TriggerRecover, TypeOK, RecType
  <2>3. Core'
    BY <1>a, <1>15, <2>1, <2>2, RecordEndStep, CalmStep DEF FinishRefused
  <2>4. LoginSound'
    BY <1>a, <1>15, <2>1, LoginStep DEF FinishRefused
  <2> QED
    BY <2>3, <2>4
<1>16. ASSUME NEW f \in Finisher, FinishOk(f) PROVE Core' /\ LoginSound'
  <2>1. SrvGrows
    BY <1>a, <1>16 DEF FinishOk, SrvGrows
  <2>2. \/ /\ liveRow # NoRow /\ UNCHANGED recVars
           /\ \E st \in SessionState : ~Unfinished(st) /\ RecordEnd(st)
        \/ RecoveryWaits /\ UNCHANGED <<rowVars, liveVars>>
    BY <1>a, <1>16 DEF FinishOk, SaveFinish, NothingToSave, SavedState,
       Unfinished,
      RecoveryWaits, TriggerRecover, TypeOK, RecType
  <2>3. Core'
    BY <1>a, <1>16, <2>1, <2>2, RecordEndStep, CalmStep DEF FinishOk
  <2>4. LoginSound'
    BY <1>a, <1>16, <2>1, LoginStep DEF FinishOk
  <2> QED
    BY <2>3, <2>4
<1>17. ASSUME NEW f \in Finisher, FinishReset(f) PROVE Core' /\ LoginSound'
  <2>1. SrvGrows
    BY <1>a, <1>17 DEF FinishReset, SrvGrows
  <2>2. RecoveryWaits
    BY <1>a, <1>17 DEF FinishReset, RecoveryWaits, TriggerRecover
  <2>3. Core'
    BY <1>a, <1>17, <2>2, ResetStep DEF FinishReset
  <2>4. LoginSound'
    BY <1>a, <1>17, <2>1, LoginStep DEF FinishReset, ScreenMayClose
  <2> QED
    BY <2>3, <2>4
<1>18. CASE FetchSend
  <2>1. SrvGrows
    BY <1>a, <1>18 DEF FetchSend, SrvGrows
  <2>2. RecoveryWaits /\ UNCHANGED <<rowVars, liveVars>>
    BY <1>a, <1>18 DEF FetchSend, RecoveryWaits
  <2>3. Core'
    BY <1>a, <2>1, <2>2, CalmStep
  <2>4. LoginSound'
    BY <1>a, <1>18, <2>1, LoginStep DEF FetchSend
  <2> QED
    BY <2>3, <2>4
<1>19. CASE FetchReply
  <2>1. SrvGrows
    BY <1>a, <1>19 DEF FetchReply, SrvGrows
  <2>2. RecoveryWaits /\ UNCHANGED <<rowVars, liveVars>>
    BY <1>a, <1>19 DEF FetchReply, RecoveryWaits
  <2>3. Core'
    BY <1>a, <2>1, <2>2, CalmStep
  <2>4. LoginSound'
    BY <1>a, <1>19, <2>1, LoginStep DEF FetchReply
  <2> QED
    BY <2>3, <2>4
<1>20. CASE FetchForcesLogoutNoImage
  <2>1. SrvGrows
    BY <1>a, <1>20 DEF FetchForcesLogoutNoImage, SrvGrows
  <2>2. RecoveryWaits /\ UNCHANGED <<rowVars, liveVars>>
    BY <1>a, <1>20 DEF FetchForcesLogoutNoImage, RecoveryWaits
  <2>3. Core'
    BY <1>a, <2>1, <2>2, CalmStep
  <2>4. LoginSound'
    BY <1>a, <1>20, <2>1, LoginStep DEF FetchForcesLogoutNoImage, ScreenMayClose
  <2> QED
    BY <2>3, <2>4
<1>21. CASE FetchForcesLogout
  <2>1. SrvGrows
    BY <1>a, <1>21 DEF FetchForcesLogout, SrvGrows
  <2>3. Core'
    BY <1>a, <1>21, RecordEndStep DEF FetchForcesLogout, Unfinished
  <2>4. LoginSound'
    BY <1>a, <1>21, <2>1, LoginStep DEF FetchForcesLogout
  <2> QED
    BY <2>3, <2>4
<1>22. CASE FetchLogoutDone
  <2>1. SrvGrows
    BY <1>a, <1>22 DEF FetchLogoutDone, SrvGrows
  <2>2. RecoveryWaits
    BY <1>a, <1>22 DEF FetchLogoutDone, RecoveryWaits
  <2>3. Core'
    BY <1>a, <1>22, <2>2, ResetStep DEF FetchLogoutDone
  <2>4. LoginSound'
    BY <1>a, <1>22, <2>1, LoginStep DEF FetchLogoutDone, ScreenMayClose
  <2> QED
    BY <2>3, <2>4
<1>23. CASE RecList
  <2>1. SrvGrows
    BY <1>a, <1>23 DEF RecList, SrvGrows
  <2>3. Core'
    BY <1>a, <1>23, <2>1, RecListStep
  <2>4. LoginSound'
    BY <1>a, <1>23, <2>1, LoginStep DEF RecList
  <2> QED
    BY <2>3, <2>4
<1>24. ASSUME NEW r \in RowId, RecStart(r) PROVE Core' /\ LoginSound'
  <2>1. SrvGrows
    BY <1>a, <1>24, ServerGrows DEF RecStart, TypeOK, RowType
  <2>3. Core'
    BY <1>a, <1>24, <2>1, RecStartStep
  <2>4. LoginSound'
    BY <1>a, <1>24, <2>1, LoginStep DEF RecStart
  <2> QED
    BY <2>3, <2>4
<1>25. ASSUME NEW r \in RowId, RecStartFails(r) PROVE Core' /\ LoginSound'
  <2>1. SrvGrows
    BY <1>a, <1>25, ServerGrows DEF RecStartFails, TypeOK, RowType
  <2>3. Core'
    BY <1>a, <1>25, <2>1, AdvanceStep DEF RecStartFails, Current
  <2>4. LoginSound'
    BY <1>a, <1>25, <2>1, LoginStep DEF RecStartFails
  <2> QED
    BY <2>3, <2>4
<1>26. ASSUME NEW r \in RowId, RecStartReply(r) PROVE Core' /\ LoginSound'
  <2>1. SrvGrows
    BY <1>a, <1>26 DEF RecStartReply, SrvGrows
  <2>3. Core'
    BY <1>a, <1>26, <2>1, RecStartReplyStep
  <2>4. LoginSound'
    BY <1>a, <1>26, <2>1, LoginStep DEF RecStartReply
  <2> QED
    BY <2>3, <2>4
<1>27. ASSUME NEW r \in RowId, RecSkip(r) PROVE Core' /\ LoginSound'
  <2>1. SrvGrows
    BY <1>a, <1>27 DEF RecSkip, SrvGrows
  <2>3. Core'
    BY <1>a, <1>27, <2>1, AdvanceStep DEF RecSkip, Current
  <2>4. LoginSound'
    BY <1>a, <1>27, <2>1, LoginStep DEF RecSkip
  <2> QED
    BY <2>3, <2>4
<1>28. ASSUME NEW r \in RowId, RecFinish(r) PROVE Core' /\ LoginSound'
  <2>1. SrvGrows
    BY <1>a, <1>28, ServerGrows DEF RecFinish, TypeOK, RecType
  <2>3. Core'
    BY <1>a, <1>28, <2>1, RecFinishStep
  <2>4. LoginSound'
    BY <1>a, <1>28, <2>1, LoginStep DEF RecFinish
  <2> QED
    BY <2>3, <2>4
<1>29. ASSUME NEW r \in RowId, RecFinishFails(r) PROVE Core' /\ LoginSound'
  <2>1. SrvGrows
    BY <1>a, <1>29, ServerGrows DEF RecFinishFails, TypeOK, RecType
  <2>3. Core'
    BY <1>a, <1>29, <2>1, AdvanceStep DEF RecFinishFails, Current
  <2>4. LoginSound'
    BY <1>a, <1>29, <2>1, LoginStep DEF RecFinishFails
  <2> QED
    BY <2>3, <2>4
<1>30. ASSUME NEW r \in RowId, RecFinishReply(r) PROVE Core' /\ LoginSound'
  <2>1. SrvGrows
    BY <1>a, <1>30 DEF RecFinishReply, SrvGrows
  <2>3. Core'
    BY <1>a, <1>30, <2>1, AdvanceStep DEF RecFinishReply, Current
  <2>4. LoginSound'
    BY <1>a, <1>30, <2>1, LoginStep DEF RecFinishReply
  <2> QED
    BY <2>3, <2>4
<1>31. CASE NetworkAvailable
  <2>1. SrvGrows
    BY <1>a, <1>31 DEF NetworkAvailable, SrvGrows
  <2>2. RecoveryWaits /\ UNCHANGED <<rowVars, liveVars>>
    BY <1>a, <1>31 DEF NetworkAvailable, RecoveryWaits, TriggerRecover
  <2>3. Core'
    BY <1>a, <2>1, <2>2, CalmStep
  <2>4. LoginSound'
    BY <1>a, <1>31, <2>1, LoginStep DEF NetworkAvailable
  <2> QED
    BY <2>3, <2>4
<1>32. CASE NetworkLost
  <2>1. SrvGrows
    BY <1>a, <1>32 DEF NetworkLost, SrvGrows
  <2>2. RecoveryWaits /\ UNCHANGED <<rowVars, liveVars>>
    BY <1>a, <1>32 DEF NetworkLost, RecoveryWaits
  <2>3. Core'
    BY <1>a, <2>1, <2>2, CalmStep
  <2>4. LoginSound'
    BY <1>a, <1>32, <2>1, LoginStep DEF NetworkLost
  <2> QED
    BY <2>3, <2>4
<1>33. CASE Restart
  <2>1. SrvGrows
    BY <1>a, <1>33 DEF Restart, SrvGrows
  <2>3. Core'
    BY <1>a, <1>33, <2>1, RestartStep
  <2>4. LoginSound'
    BY <1>a, <1>33, <2>1, LoginStep DEF Restart
  <2> QED
    BY <2>3, <2>4
<1>34. ASSUME NEW x \in Sid, AdminCloses(x) PROVE Core' /\ LoginSound'
  <2>1. SrvGrows
    BY <1>a, <1>34, ServerGrows DEF AdminCloses, TypeOK
  <2>2. RecoveryWaits /\ UNCHANGED <<rowVars, liveVars>>
    BY <1>a, <1>34 DEF AdminCloses, RecoveryWaits
  <2>3. Core'
    BY <1>a, <2>1, <2>2, CalmStep
  <2>4. LoginSound'
    BY <1>a, <1>34, <2>1, LoginStep DEF AdminCloses
  <2> QED
    BY <2>3, <2>4
<1>35. CASE UNCHANGED vars
  <2>1. SrvGrows
    BY <1>a, <1>35 DEF vars, SrvGrows
  <2>2. RecoveryWaits /\ UNCHANGED <<rowVars, liveVars>>
    BY <1>a, <1>35 DEF vars, RecoveryWaits
  <2>3. Core'
    BY <1>a, <2>1, <2>2, CalmStep
  <2>4. LoginSound'
    BY <1>a, <1>35, <2>1, LoginStep DEF vars
  <2> QED
    BY <2>3, <2>4
<1> QED
  BY <1>1, <1>2, <1>3, <1>4, <1>5, <1>6, <1>7, <1>8, <1>9, <1>10, <1>11,
     <1>12, <1>13, <1>14, <1>15, <1>16, <1>17, <1>18, <1>19, <1>20, <1>21,
     <1>22, <1>23, <1>24, <1>25, <1>26, <1>27, <1>28, <1>29, <1>30, <1>31,
     <1>32, <1>33, <1>34, <1>35
  DEF Next, Login, Finish, RecoverRow

LEMMA InvInit == Init => IInv
<1> SUFFICES ASSUME Init PROVE IInv
  OBVIOUS
<1>1. TypeOK
  BY TypeInit
<1>2. FreshRows /\ LoginSound /\ LiveSound /\ SnapshotSound /\ ReplySound
      /\ SidOfStudent
  BY DEF Init, FreshRows, LoginSound, LiveSound, SnapshotSound, ReplySound,
         SidOfStudent
<1> QED
  BY <1>1, <1>2 DEF IInv

\* The table, the login, the session in memory, the recovery and the server
\* agree in every reachable state.
THEOREM Invariance == Spec => []IInv
<1>1. Init => IInv
  BY InvInit
<1>2. IInv /\ [Next]_vars => IInv'
  <2> SUFFICES ASSUME IInv, [Next]_vars PROVE IInv'
    OBVIOUS
  <2>1. TypeOK'
    BY TypeStep DEF IInv
  <2>2. Core' /\ LoginSound'
    BY InvStep
  <2> QED
    BY <2>1, <2>2 DEF IInv, Core
<1> QED
  BY <1>1, <1>2, PTL DEF Spec

\* Remote calls about the session in memory are about the row the table holds
\* for it, however the row got its id.
THEOREM LiveIdCorrect == Spec => []LiveIdIsRow
<1>1. IInv => LiveIdIsRow
  BY DEF IInv, LiveSound, LiveIdIsRow
<1> QED
  BY <1>1, Invariance, PTL

\* No row ever carries the id of another student's session.
THEOREM SidCorrect == Spec => []SidOfStudent
<1>1. IInv => SidOfStudent
  BY DEF IInv
<1> QED
  BY <1>1, Invariance, PTL

-----------------------------------------------------------------------------
(***************************************************************************)
(* What a step may do to a row: nothing; fill a new one; end the session in *)
(* memory; give an id to the recovery's current row, or finish it.         *)
(***************************************************************************)
RowKept(r) == rowState'[r] = rowState[r] /\ rowSid'[r] = rowSid[r]
RowEnded(r) == /\ r = liveRow /\ rowSid'[r] = rowSid[r]
               /\ ~Unfinished(rowState'[r])
RowChange(r) ==
  \/ RowKept(r)
  \/ r = rowCount + 1
  \/ RowEnded(r)
  \/ RecStartReply(r)
  \/ RecFinishReply(r)

LEMMA RowChanges ==
  ASSUME TypeOK, [Next]_vars, NEW r \in RowId
  PROVE  RowChange(r)
<1> USE MaxRowAssumption DEF TypeOK, RowType, LiveType, RowChange, RowKept
<1>1. ASSUME NEW s \in Student, CheckOnline(s) \/ CheckOffline(s) \/ ContinueOffline(s)
      PROVE  RowChange(r)
  BY <1>1 DEF CheckOnline, CheckOffline, ContinueOffline, AttachLiveRow
<1>2. CASE ContinueOnline \/ StartOffline \/ StartOnlineReply
  BY <1>2 DEF ContinueOnline, StartOffline, StartOnlineReply, AttachLiveRow,
     InsertLiveRow
<1>3. CASE StartOnlineCall \/ LeaveScreen
  BY <1>3 DEF StartOnlineCall, LeaveScreen
<1>4. ASSUME NEW f \in Finisher, FinishCall(f) \/ FinishNoLocation(f) \/ FinishUnknown(f)
      PROVE  RowChange(r)
  BY <1>4 DEF FinishCall, FinishNoLocation, FinishUnknown
<1>5. ASSUME NEW f \in Finisher, FinishSend(f) \/ FinishReset(f)
      PROVE  RowChange(r)
  BY <1>5 DEF FinishSend, FinishReset
<1>6. ASSUME NEW f \in Finisher, FinishOffline(f) \/ FinishRefused(f)
      PROVE  RowChange(r)
  BY <1>6 DEF FinishOffline, FinishRefused, SaveFinish, NothingToSave,
     RecordEnd, SavedState, RowEnded, Unfinished
<1>7. ASSUME NEW f \in Finisher, FinishUploadImage(f)
      PROVE  RowChange(r)
  BY <1>7 DEF FinishUploadImage, SaveFinish, RecordEnd, SavedState, RowEnded,
     Unfinished
<1>8. ASSUME NEW f \in Finisher, FinishOk(f)
      PROVE  RowChange(r)
  BY <1>8 DEF FinishOk, RecordEnd, RowEnded, Unfinished
<1>9. CASE FetchSend \/ FetchReply \/ FetchForcesLogoutNoImage \/ FetchLogoutDone
  BY <1>9 DEF FetchSend, FetchReply, FetchForcesLogoutNoImage, FetchLogoutDone
<1>10. CASE FetchForcesLogout
  BY <1>10 DEF FetchForcesLogout, RecordEnd, RowEnded, Unfinished
<1>11. CASE RecList
  BY <1>11 DEF RecList
<1>12. ASSUME NEW q \in RowId, RecStart(q) \/ RecFinish(q) \/ RecSkip(q)
      PROVE  RowChange(r)
  BY <1>12 DEF RecStart, RecFinish, RecSkip
<1>13. ASSUME NEW q \in RowId, RecStartFails(q) \/ RecFinishFails(q)
      PROVE  RowChange(r)
  BY <1>13 DEF RecStartFails, RecFinishFails
<1>14. ASSUME NEW q \in RowId, RecStartReply(q)
      PROVE  RowChange(r)
  <2>1. CASE q = r
    BY <1>14, <2>1
  <2>2. CASE q # r
    BY <1>14, <2>2 DEF RecStartReply
  <2> QED
    BY <2>1, <2>2
<1>15. ASSUME NEW q \in RowId, RecFinishReply(q)
      PROVE  RowChange(r)
  <2>1. CASE q = r
    BY <1>15, <2>1
  <2>2. CASE q # r
    BY <1>15, <2>2 DEF RecFinishReply
  <2> QED
    BY <2>1, <2>2
<1>16. CASE NetworkAvailable \/ NetworkLost \/ Restart
  BY <1>16 DEF NetworkAvailable, NetworkLost, Restart
<1>17. ASSUME NEW x \in Sid, AdminCloses(x)
      PROVE  RowChange(r)
  BY <1>17 DEF AdminCloses
<1>18. CASE UNCHANGED vars
  BY <1>18 DEF vars
<1> QED
  BY <1>1, <1>2, <1>3, <1>4, <1>5, <1>6, <1>7, <1>8, <1>9, <1>10, <1>11,
     <1>12, <1>13, <1>14, <1>15, <1>16, <1>17, <1>18
  DEF Next, Login, Finish, RecoverRow

\* The recovery's current row, when it writes to it
LEMMA StartReplyRow ==
  ASSUME IInv, NEW r \in RowId, RecStartReply(r)
  PROVE  /\ rowState'[r] = Promoted(snapState[r]) /\ NotStarted(snapState[r])
         /\ rowSid[r] = NoSid /\ Unfinished(snapState[r])
              => Unfinished(rowState[r]) /\ liveRow # r
         /\ rowSid[r] = NoSid /\ ~Unfinished(snapState[r])
              => ~Unfinished(rowState[r])
<1>1. r \in recTodo /\ Current(r) /\ recPc = "startReply"
  BY DEF RecStartReply, Current
<1>2. rowState'[r] = Promoted(snapState[r])
  BY DEF RecStartReply, IInv, TypeOK, RowType
<1> QED
  BY <1>1, <1>2 DEF IInv, SnapshotSound, ReplySound

LEMMA FinishReplyRow ==
  ASSUME IInv, NEW r \in RowId, RecFinishReply(r)
  PROVE  /\ rowState'[r] = START_ONLINE_FINISH_ONLINE /\ rowSid'[r] = rowSid[r]
         /\ rowSid[r] # NoSid /\ srvState[rowSid[r]] = "closed"
<1>1. r \in recTodo /\ Current(r) /\ recPc = "finReply"
  BY DEF RecFinishReply, Current
<1> QED
  BY <1>1, NoSidAssumption
  DEF RecFinishReply, IInv, TypeOK, RowType, SnapshotSound, ReplySound

\* The three theorems below are about rows; a new row was empty before.
LEMMA NewRowIsEmpty ==
  ASSUME IInv, rowCount + 1 \in RowId
  PROVE  /\ rowState[rowCount + 1] = START_OFFLINE
         /\ rowSid[rowCount + 1] = NoSid /\ liveRow # rowCount + 1
  BY DEF IInv, TypeOK, RowType, LiveType, FreshRows

\* A finished offline session is never put back to a running state, whatever
\* the recovery's snapshot said: it stays in line to be sent.
THEOREM OfflineFinishStays == Spec => OfflineFinishKept
<1>1. ASSUME IInv, [Next]_vars, NEW r \in RowId,
             rowSid[r] = NoSid, ~Unfinished(rowState[r])
      PROVE  ~Unfinished(rowState'[r])
  <2>1. RowChange(r)
    BY <1>1, RowChanges DEF IInv
  <2>2. CASE RowKept(r) \/ RowEnded(r)
    BY <1>1, <2>2 DEF RowKept, RowEnded
  <2>3. CASE r = rowCount + 1
    BY <1>1, <2>3, NewRowIsEmpty DEF Unfinished
  <2>4. CASE RecStartReply(r)
    BY <1>1, <2>4, StartReplyRow DEF Unfinished, NotStarted, Promoted
  <2>5. CASE RecFinishReply(r)
    BY <1>1, <2>5, FinishReplyRow DEF Unfinished
  <2> QED
    BY <2>1, <2>2, <2>3, <2>4, <2>5 DEF RowChange
<1>2. IInv /\ [Next]_vars =>
        [\A r \in RowId : rowSid[r] = NoSid /\ ~Unfinished(rowState[r])
                            => ~Unfinished(rowState'[r])]_vars
  BY <1>1
<1> QED
  BY <1>2, Invariance, PTL DEF Spec, OfflineFinishKept

\* The recovery opens no session the user is still in.
THEOREM RunningStaysLocal == Spec => RunningNotPushed
<1>1. ASSUME IInv, [Next]_vars, NEW r \in RowId,
             r = liveRow, rowSid[r] = NoSid, rowSid'[r] # NoSid
      PROVE  ~Unfinished(rowState[r])
  <2>1. RowChange(r)
    BY <1>1, RowChanges DEF IInv
  <2>2. CASE RowKept(r) \/ RowEnded(r)
    BY <1>1, <2>2 DEF RowKept, RowEnded
  <2>3. CASE r = rowCount + 1
    BY <1>1, <2>3, NewRowIsEmpty
  <2>4. CASE RecStartReply(r)
    BY <1>1, <2>4, StartReplyRow
  <2>5. CASE RecFinishReply(r)
    BY <1>1, <2>5, FinishReplyRow
  <2> QED
    BY <2>1, <2>2, <2>3, <2>4, <2>5 DEF RowChange
<1>2. IInv /\ [Next]_vars =>
        [\A r \in RowId : r = liveRow /\ rowSid[r] = NoSid /\ rowSid'[r] # NoSid
                            => ~Unfinished(rowState[r])]_vars
  BY <1>1
<1> QED
  BY <1>2, Invariance, PTL DEF Spec, RunningNotPushed

\* The recovery takes a saved finish out of the queue only for a session the
\* server has closed.
THEOREM ResendIsTruthful == Spec => ResendLeavesClosed
<1>1. ASSUME IInv, [Next]_vars, NEW r \in RowId, Finished(rowState[r]),
             rowState'[r] = START_ONLINE_FINISH_ONLINE, liveRow # r
      PROVE  rowSid[r] # NoSid /\ srvState[rowSid[r]] = "closed"
  <2>1. RowChange(r)
    BY <1>1, RowChanges DEF IInv
  <2>2. CASE RowKept(r) \/ RowEnded(r)
    BY <1>1, <2>2 DEF RowKept, RowEnded, Finished
  <2>3. CASE r = rowCount + 1
    BY <1>1, <2>3, NewRowIsEmpty DEF Finished
  <2>4. CASE RecStartReply(r)
    BY <1>1, <2>4, StartReplyRow DEF Promoted
  <2>5. CASE RecFinishReply(r)
    BY <1>1, <2>5, FinishReplyRow
  <2> QED
    BY <2>1, <2>2, <2>3, <2>4, <2>5 DEF RowChange
<1>2. IInv /\ [Next]_vars =>
        [\A r \in RowId :
           /\ Finished(rowState[r]) /\ rowState'[r] = START_ONLINE_FINISH_ONLINE
           /\ liveRow # r
           => rowSid[r] # NoSid /\ srvState[rowSid[r]] = "closed"]_vars
  BY <1>1
<1> QED
  BY <1>2, Invariance, PTL DEF Spec, ResendLeavesClosed

-----------------------------------------------------------------------------
(***************************************************************************)
(* Which saved finishes can be resent.                                     *)
(***************************************************************************)
\* A finish is saved by a coroutine that has not saved one before.
SaveKind == \E f \in Finisher : /\ RecordEnd(SavedState)
                                /\ ~FinSaved(f) /\ finPc'[f] \in {"savedOffline", "savedOnline"}

\* A session is marked finished online when a call was answered so.
MarkKind == /\ RecordEnd(START_ONLINE_FINISH_ONLINE)
            /\ FetchSaysEnded \/ \E f \in Finisher : finPc[f] = "ok"

\* What a step does to the table and to the session in memory.
RowKinds ==
  \/ \E st \in SessionState, x \in SidOrNone, s \in Student :
       /\ InsertLiveRow(st, x, s)
       /\ x = NoSid => st = START_OFFLINE
       /\ liveRow = NoRow => Unfinished(st)
  \/ \E r \in 1 .. rowCount, x \in SidOrNone :
       /\ AttachLiveRow(r, x)
       /\ Unfinished(rowState[r]) \/ rowSid[r] # NoSid
  \/ liveRow # NoRow /\ (SaveKind \/ MarkKind)
  \/ ResetDataSession /\ UNCHANGED rowVars
  \/ \E r \in RowId : RecStartReply(r)
  \/ \E r \in RowId : RecFinishReply(r)
  \/ UNCHANGED <<rowVars, liveRow, liveState>>

LEMMA SaveIsKind ==
  ASSUME TypeOK, NEW f \in Finisher, NEW pc \in {"savedOffline", "savedOnline"},
         SaveFinish(f, pc), finPc[f] \in {"begin", "refused"}
  PROVE  liveRow # NoRow /\ SaveKind
BY DEF SaveFinish, SaveKind, FinSaved, FinGoto, TypeOK, CallType

LEMMA StepKinds == ASSUME IInv, [Next]_vars PROVE RowKinds
<1>1. CASE \E s \in Student : CheckOnline(s) \/ CheckOffline(s)
  BY <1>1 DEF RowKinds, CheckOnline, CheckOffline
<1>2. ASSUME NEW s \in Student, ContinueOffline(s)
      PROVE  RowKinds
  <2>1. rowCount \in 1 .. rowCount /\ Unfinished(rowState[rowCount])
    BY <1>2 DEF ContinueOffline, LastRowRunning, IInv, TypeOK, RowType, Unfinished
  <2>2. rowSid[rowCount] \in SidOrNone
    BY <2>1 DEF IInv, TypeOK, RowType
  <2>3. QED
    BY <1>2, <2>1, <2>2 DEF RowKinds, ContinueOffline
<1>3. CASE ContinueOnline
  <2>1. loginSid \in Sid /\ loginSid # NoSid /\ loginSid \in SidOrNone
    BY <1>3, NoSidAssumption DEF ContinueOnline, IInv, LoginSound
  <2>2. CASE \E r \in 1 .. rowCount : rowSid[r] = loginSid /\ AttachLiveRow(r, loginSid)
    BY <2>1, <2>2 DEF RowKinds
  <2>3. CASE InsertLiveRow(IF liveRow = NoRow THEN START_ONLINE ELSE liveState,
                           loginSid, loginStudent)
    <3>1. (IF liveRow = NoRow THEN START_ONLINE ELSE liveState) \in SessionState
      BY DEF IInv, TypeOK, LiveType
    <3>2. loginStudent \in Student
      BY DEF IInv, TypeOK, LoginType
    <3>3. liveRow = NoRow
            => Unfinished(IF liveRow = NoRow THEN START_ONLINE ELSE liveState)
      BY DEF Unfinished
    <3>4. QED
      BY <2>1, <2>3, <3>1, <3>2, <3>3 DEF RowKinds
  <2>4. QED
    BY <1>3, <2>2, <2>3 DEF ContinueOnline
<1>4. CASE StartOffline
  <2>1. loginStudent \in Student
    BY DEF IInv, TypeOK, LoginType
  <2>2. QED
    BY <1>4, <2>1 DEF RowKinds, StartOffline, Unfinished
<1>5. CASE StartOnlineCall \/ LeaveScreen
  BY <1>5 DEF RowKinds, StartOnlineCall, LeaveScreen
<1>6. CASE StartOnlineReply
  <2>1. loginSid \in Sid /\ loginSid # NoSid /\ loginSid \in SidOrNone
    BY <1>6, NoSidAssumption DEF StartOnlineReply, IInv, LoginSound
  <2>2. loginStudent \in Student
    BY DEF IInv, TypeOK, LoginType
  <2>3. QED
    BY <1>6, <2>1, <2>2 DEF RowKinds, StartOnlineReply, Unfinished
<1>7. ASSUME NEW f \in Finisher,
             FinishCall(f) \/ FinishNoLocation(f) \/ FinishUnknown(f) \/ FinishSend(f)
      PROVE  RowKinds
  BY <1>7 DEF RowKinds, FinishCall, FinishNoLocation, FinishUnknown, FinishSend
<1>8. ASSUME NEW f \in Finisher,
             FinishOffline(f) \/ FinishUploadImage(f) \/ FinishRefused(f)
      PROVE  RowKinds
  <2>1. finPc[f] \in {"begin", "refused"}
    BY <1>8 DEF FinishOffline, FinishUploadImage, FinishRefused
  <2>2. \/ \E pc \in {"savedOffline", "savedOnline"} : SaveFinish(f, pc)
        \/ UNCHANGED <<rowVars, liveVars>>
    BY <1>8 DEF FinishOffline, FinishUploadImage, FinishRefused, NothingToSave
  <2>3. QED
    BY <2>1, <2>2, SaveIsKind DEF RowKinds, IInv
<1>9. ASSUME NEW f \in Finisher, FinishOk(f)
      PROVE  RowKinds
  BY <1>9 DEF RowKinds, FinishOk, MarkKind
<1>10. ASSUME NEW f \in Finisher, FinishReset(f)
       PROVE  RowKinds
  BY <1>10 DEF RowKinds, FinishReset
<1>11. CASE FetchSend \/ FetchReply \/ FetchForcesLogoutNoImage
  BY <1>11 DEF RowKinds, FetchSend, FetchReply, FetchForcesLogoutNoImage
<1>12. CASE FetchForcesLogout
  BY <1>12 DEF RowKinds, FetchForcesLogout, MarkKind
<1>13. CASE FetchLogoutDone \/ Restart
  BY <1>13 DEF RowKinds, FetchLogoutDone, Restart
<1>14. CASE RecList \/ NetworkAvailable \/ NetworkLost
  BY <1>14 DEF RowKinds, RecList, NetworkAvailable, NetworkLost
<1>15. ASSUME NEW r \in RowId, RecoverRow(r)
       PROVE  RowKinds
  BY <1>15 DEF RowKinds, RecoverRow, RecStart, RecStartFails, RecSkip, RecFinish,
     RecFinishFails
<1>16. ASSUME NEW x \in Sid, AdminCloses(x)
       PROVE  RowKinds
  BY <1>16 DEF RowKinds, AdminCloses
<1>17. CASE UNCHANGED vars
  BY <1>17 DEF RowKinds, vars
<1> QED
  BY <1>1, <1>2, <1>3, <1>4, <1>5, <1>6, <1>7, <1>8, <1>9, <1>10, <1>11,
     <1>12, <1>13, <1>14, <1>15, <1>16, <1>17
  DEF Next, Login, Finish

\* The copies are taken anew, follow a start reply, or get fewer.
CopyKinds ==
  \/ RecList
  \/ \E r \in RowId : RecStartReply(r)
  \/ recTodo' \subseteq recTodo /\ \A q \in recTodo' : snapState'[q] = snapState[q]

LEMMA AdvanceCopies ==
  ASSUME TypeOK, NEW r \in RowId, RecAdvance(r)
  PROVE  CopyKinds
BY DEF CopyKinds, RecAdvance, TypeOK, RecType

LEMMA StepCopies == ASSUME IInv, [Next]_vars PROVE CopyKinds
<1> USE DEF CopyKinds
<1>1. CASE Login
  BY <1>1 DEF Login, CheckOnline, CheckOffline, ContinueOffline, ContinueOnline,
     StartOffline, StartOnlineCall, StartOnlineReply, LeaveScreen
<1>2. ASSUME NEW f \in Finisher, Finish(f)
      PROVE  CopyKinds
  BY <1>2 DEF Finish, FinishCall, FinishNoLocation, FinishUnknown, FinishOffline,
     FinishUploadImage, FinishSend, FinishOk, FinishRefused, FinishReset,
     TriggerRecover
<1>3. CASE FetchSend \/ FetchReply \/ FetchForcesLogout \/ FetchForcesLogoutNoImage
             \/ FetchLogoutDone
  BY <1>3 DEF FetchSend, FetchReply, FetchForcesLogout, FetchForcesLogoutNoImage,
     FetchLogoutDone
<1>4. ASSUME NEW r \in RowId, RecoverRow(r)
      PROVE  CopyKinds
  <2>1. CASE RecAdvance(r)
    BY <2>1, AdvanceCopies DEF IInv
  <2>2. CASE ~RecAdvance(r)
    BY <1>4, <2>2 DEF RecoverRow, RecStart, RecStartFails, RecSkip, RecFinish,
       RecFinishFails, RecFinishReply
  <2>3. QED
    BY <2>1, <2>2
<1>5. CASE NetworkAvailable \/ NetworkLost \/ Restart
  BY <1>5 DEF NetworkAvailable, NetworkLost, Restart, TriggerRecover
<1>6. ASSUME NEW x \in Sid, AdminCloses(x)
      PROVE  CopyKinds
  BY <1>6 DEF AdminCloses
<1>7. CASE UNCHANGED vars
  BY <1>7 DEF vars
<1> QED
  BY <1>1, <1>2, <1>3, <1>4, <1>5, <1>6, <1>7 DEF Next

\* The three parts of ResendSound
RunsLocally == \A r \in 1 .. rowCount : rowSid[r] = NoSid => rowState[r] # START_ONLINE
LiveAsSaved == liveRow # NoRow /\ rowSid[liveRow] = NoSid => liveState = rowState[liveRow]
CopiesBehind == \A r \in recTodo : ~Unfinished(snapState[r]) => ~Unfinished(rowState[r])

LEMMA ResendSoundParts == ResendSound <=> RunsLocally /\ LiveAsSaved /\ CopiesBehind
  BY DEF ResendSound, RunsLocally, LiveAsSaved, CopiesBehind

\* The recovery's current row gets its id.
LEMMA StartReplyGivesId ==
  ASSUME IInv, NEW q \in RowId, RecStartReply(q)
  PROVE  /\ q \in recTodo /\ q \in 1 .. rowCount
         /\ rowSid'[q] = recSid /\ recSid # NoSid
         /\ \A r \in RowId \ {q} : rowSid'[r] = rowSid[r] /\ rowState'[r] = rowState[r]
         /\ UNCHANGED <<rowCount, rowEnded, liveRow, liveState, recTodo>>
<1>1. q \in recTodo /\ q \in 1 .. rowCount /\ recSid \in Sid
  BY DEF RecStartReply, Current, IInv, TypeOK, RecType, ReplySound
<1>2. recSid # NoSid
  BY <1>1, NoSidAssumption
<1>3. QED
  BY <1>1, <1>2 DEF RecStartReply, IInv, TypeOK, RowType

LEMMA FinishReplyKeepsOthers ==
  ASSUME IInv, NEW q \in RowId, RecFinishReply(q)
  PROVE  /\ \A r \in RowId \ {q} : rowState'[r] = rowState[r]
         /\ UNCHANGED <<rowCount, rowSid, rowEnded, liveRow, liveState>>
  BY DEF RecFinishReply, IInv, TypeOK, RowType

LEMMA RowsAreRowIds ==
  ASSUME TypeOK
  PROVE  /\ 1 .. rowCount \subseteq RowId /\ rowCount \in Nat /\ recTodo \subseteq RowId
         /\ recTodo \subseteq 1 .. rowCount
         /\ liveRow # NoRow => liveRow \in 1 .. rowCount
  BY MaxRowAssumption DEF TypeOK, RowType, RecType, LiveType, RowId, NoRow

LEMMA TableResendStep ==
  ASSUME IInv, RunsLocally, LiveAsSaved, RowKinds
  PROVE  (RunsLocally /\ LiveAsSaved)'
<1> USE RowsAreRowIds
<1>0. TypeOK
  BY DEF IInv
<1>1. ASSUME NEW st \in SessionState, NEW x \in SidOrNone, NEW s \in Student,
             InsertLiveRow(st, x, s), x = NoSid => st = START_OFFLINE
      PROVE  (RunsLocally /\ LiveAsSaved)'
  <2>1. /\ rowCount' = rowCount + 1 /\ rowCount + 1 \in RowId
        /\ rowState'[rowCount + 1] = st /\ rowSid'[rowCount + 1] = x
        /\ \A r \in 1 .. rowCount : rowState'[r] = rowState[r] /\ rowSid'[r] = rowSid[r]
        /\ liveRow' = rowCount + 1 /\ liveState' = st
    BY <1>0, <1>1, MaxRowAssumption DEF InsertLiveRow, TypeOK, RowType, RowId
  <2>2. RunsLocally'
    <3> SUFFICES ASSUME NEW r \in 1 .. (rowCount + 1), rowSid'[r] = NoSid
                 PROVE  rowState'[r] # START_ONLINE
      BY <2>1 DEF RunsLocally
    <3>1. CASE r = rowCount + 1
      BY <1>1, <2>1, <3>1
    <3>2. CASE r \in 1 .. rowCount
      BY <2>1, <3>2 DEF RunsLocally
    <3>3. QED
      BY <1>0, <3>1, <3>2
  <2>3. LiveAsSaved'
    BY <2>1 DEF LiveAsSaved
  <2>4. QED
    BY <2>2, <2>3
<1>2. ASSUME NEW r \in 1 .. rowCount, NEW x \in SidOrNone, AttachLiveRow(r, x)
      PROVE  (RunsLocally /\ LiveAsSaved)'
  BY <1>2 DEF AttachLiveRow, RunsLocally, LiveAsSaved
<1>3. ASSUME liveRow # NoRow, NEW st \in SessionState, RecordEnd(st), st # START_ONLINE
      PROVE  (RunsLocally /\ LiveAsSaved)'
  BY <1>0, <1>3 DEF RecordEnd, RunsLocally, LiveAsSaved, TypeOK, RowType
<1>4. CASE liveRow # NoRow /\ (SaveKind \/ MarkKind)
  BY <1>3, <1>4 DEF SaveKind, MarkKind, SavedState, SessionState
<1>5. CASE ResetDataSession /\ UNCHANGED rowVars
  BY <1>5 DEF ResetDataSession, RunsLocally, LiveAsSaved, rowVars
<1>6. ASSUME NEW q \in RowId, RecStartReply(q)
      PROVE  (RunsLocally /\ LiveAsSaved)'
  BY <1>0, <1>6, StartReplyGivesId DEF RunsLocally, LiveAsSaved
<1>7. ASSUME NEW q \in RowId, RecFinishReply(q)
      PROVE  (RunsLocally /\ LiveAsSaved)'
  BY <1>0, <1>7, FinishReplyRow, FinishReplyKeepsOthers DEF RunsLocally, LiveAsSaved
<1>8. CASE UNCHANGED <<rowVars, liveRow, liveState>>
  BY <1>8 DEF RunsLocally, LiveAsSaved, rowVars
<1>9. QED
  BY <1>1, <1>2, <1>4, <1>5, <1>6, <1>7, <1>8 DEF RowKinds

LEMMA CopiesResendStep ==
  ASSUME IInv, CopiesBehind, [Next]_vars
  PROVE  CopiesBehind'
<1>0. TypeOK
  BY DEF IInv
<1> SUFFICES ASSUME NEW r \in recTodo', ~Unfinished(snapState'[r])
             PROVE  ~Unfinished(rowState'[r])
  BY DEF CopiesBehind
<1>1. CASE RecList
  BY <1>0, <1>1, RowsAreRowIds DEF RecList, ListRows, rowVars
<1>2. ASSUME NEW q \in RowId, RecStartReply(q)
      PROVE  ~Unfinished(rowState'[r])
  <2>1. r \in recTodo /\ r \in RowId
    BY <1>0, <1>2, RowsAreRowIds, StartReplyGivesId
  <2>2. CASE r = q
    BY <1>0, <1>2, <2>2 DEF RecStartReply, TypeOK, RowType, RecType
  <2>3. CASE r # q
    <3>1. snapState'[r] = snapState[r]
      BY <1>0, <1>2, <2>1, <2>3 DEF RecStartReply, TypeOK, RecType
    <3>2. QED
      BY <1>2, <2>1, <2>3, <3>1, StartReplyGivesId DEF CopiesBehind
  <2>4. QED
    BY <2>2, <2>3
<1>3. ASSUME recTodo' \subseteq recTodo, \A q \in recTodo' : snapState'[q] = snapState[q],
             \A q \in RowId : ~RecStartReply(q)
      PROVE  ~Unfinished(rowState'[r])
  <2>1. r \in recTodo /\ r \in RowId /\ r \in 1 .. rowCount
    BY <1>0, <1>3, RowsAreRowIds
  <2>2. ~Unfinished(rowState[r])
    BY <1>3, <2>1 DEF CopiesBehind
  <2>3. RowChange(r)
    BY <1>0, <2>1, RowChanges
  <2>4. r # rowCount + 1
    BY <1>0, <2>1, RowsAreRowIds
  <2>5. CASE RowKept(r) \/ RowEnded(r)
    BY <2>2, <2>5 DEF RowKept, RowEnded
  <2>6. CASE RecFinishReply(r)
    BY <2>1, <2>6, FinishReplyRow DEF Unfinished
  <2>7. QED
    BY <1>3, <2>1, <2>3, <2>4, <2>5, <2>6 DEF RowChange
<1>4. QED
  BY <1>1, <1>2, <1>3, StepCopies DEF CopyKinds

LEMMA ResendStep ==
  ASSUME IInv, ResendSound, [Next]_vars
  PROVE  ResendSound'
<1>1. RunsLocally /\ LiveAsSaved /\ CopiesBehind
  BY ResendSoundParts
<1>2. (RunsLocally /\ LiveAsSaved)' /\ CopiesBehind'
  BY <1>1, StepKinds, TableResendStep, CopiesResendStep
<1>3. QED
  BY <1>2 DEF ResendSound, RunsLocally, LiveAsSaved, CopiesBehind

LEMMA ResendInit == Init => ResendSound
  BY DEF Init, ResendSound, START_OFFLINE, START_ONLINE, Unfinished

LEMMA ResendInvariance == Spec => [](IInv /\ ResendSound)
<1>1. Init => ResendSound
  BY ResendInit
<1>2. IInv /\ ResendSound /\ [Next]_vars => ResendSound'
  BY ResendStep
<1>3. QED
  BY <1>1, <1>2, Invariance, PTL DEF Spec

\* What each kind of step leaves of a row other than the one it is about
LEMMA OtherRows ==
  ASSUME IInv, [Next]_vars, NEW r \in 1 .. rowCount
  PROVE  /\ \/ RowKept(r)
            \/ r = liveRow /\ (SaveKind \/ MarkKind)
            \/ RecStartReply(r)
            \/ RecFinishReply(r)
         /\ r \in rowEnded => r \in rowEnded'
<1>0. TypeOK /\ r \in RowId
  BY RowsAreRowIds DEF IInv
<1> DEFINE Claim == /\ \/ RowKept(r)
                       \/ r = liveRow /\ (SaveKind \/ MarkKind)
                       \/ RecStartReply(r)
                       \/ RecFinishReply(r)
                    /\ r \in rowEnded => r \in rowEnded'
<1>1. ASSUME NEW st \in SessionState, NEW x \in SidOrNone, NEW s \in Student,
             InsertLiveRow(st, x, s)
      PROVE  Claim
  BY <1>0, <1>1 DEF InsertLiveRow, RowKept, TypeOK, RowType
<1>2. ASSUME NEW q \in 1 .. rowCount, NEW x \in SidOrNone, AttachLiveRow(q, x)
      PROVE  Claim
  BY <1>2 DEF AttachLiveRow, RowKept, rowVars
<1>3. CASE liveRow # NoRow /\ (SaveKind \/ MarkKind)
  <2>1. \E st \in SessionState : RecordEnd(st)
    BY <1>3 DEF SaveKind, MarkKind, SavedState, SessionState
  <2>2. r # liveRow => RowKept(r)
    BY <1>0, <2>1 DEF RecordEnd, RowKept, TypeOK, RowType
  <2>3. r \in rowEnded => r \in rowEnded'
    BY <2>1 DEF RecordEnd
  <2>4. QED
    BY <1>3, <2>2, <2>3
<1>4. CASE ResetDataSession /\ UNCHANGED rowVars
  BY <1>4 DEF RowKept, rowVars
<1>5. ASSUME NEW q \in RowId, RecStartReply(q)
      PROVE  Claim
  BY <1>0, <1>5, StartReplyGivesId DEF RowKept
<1>6. ASSUME NEW q \in RowId, RecFinishReply(q)
      PROVE  Claim
  BY <1>0, <1>6, FinishReplyKeepsOthers DEF RowKept
<1>7. CASE UNCHANGED <<rowVars, liveRow, liveState>>
  BY <1>7 DEF RowKept, rowVars
<1>8. QED
  BY <1>1, <1>2, <1>3, <1>4, <1>5, <1>6, <1>7, StepKinds DEF RowKinds

\* A finish saved for a running session carries its data, and an id unless the
\* session still needs one: whatever the state in memory, and whatever the
\* recovery copied before.
THEOREM FirstSave == Spec => FirstSaveIsResendable
<1>1. ASSUME IInv, ResendSound, [Next]_vars, NEW r \in 1 .. rowCount,
             Unfinished(rowState[r]), Finished(rowState'[r])
      PROVE  Resendable(r)'
  <2>0. TypeOK /\ r \in RowId /\ RunsLocally /\ LiveAsSaved /\ CopiesBehind
    BY <1>1, RowsAreRowIds, ResendSoundParts DEF IInv
  <2>1. ~RowKept(r)
    BY <1>1 DEF RowKept, Unfinished, Finished
  <2>2. ~RecFinishReply(r)
    BY <1>1, <2>0, FinishReplyRow DEF Finished
  <2>3. ~RecStartReply(r)
    <3> SUFFICES ASSUME RecStartReply(r) PROVE FALSE
      OBVIOUS
    <3>1. ~Unfinished(snapState[r]) /\ r \in recTodo
      BY <1>1, <2>0, StartReplyRow, StartReplyGivesId
      DEF Finished, Promoted, Unfinished, NotStarted
    <3>2. QED
      BY <1>1, <2>0, <3>1 DEF CopiesBehind
  <2>4. r = liveRow /\ (SaveKind \/ MarkKind)
    BY <1>1, <2>1, <2>2, <2>3, OtherRows
  <2>5. \A st \in SessionState : RecordEnd(st) =>
          rowState'[r] = st /\ r \in rowEnded' /\ rowSid'[r] = rowSid[r]
    BY <2>0, <2>4 DEF RecordEnd, TypeOK, RowType
  <2>6. ~MarkKind
    BY <1>1, <2>5 DEF MarkKind, Finished, SessionState
  <2>7. rowState'[r] = SavedState /\ r \in rowEnded' /\ rowSid'[r] = rowSid[r]
    BY <2>4, <2>5, <2>6 DEF SaveKind, SavedState, SessionState
  <2>8. CASE rowSid[r] = NoSid
    <3>1. liveState = START_OFFLINE
      BY <1>1, <2>0, <2>4, <2>8 DEF RunsLocally, LiveAsSaved, Unfinished
    <3>2. QED
      BY <2>7, <3>1 DEF SavedState, Resendable
  <2>9. CASE rowSid[r] # NoSid
    BY <2>7, <2>9 DEF SavedState, Resendable
  <2>10. QED
    BY <2>8, <2>9
<1>2. IInv /\ ResendSound /\ [Next]_vars =>
        [\A r \in 1 .. rowCount :
           Unfinished(rowState[r]) /\ Finished(rowState'[r]) => Resendable(r)']_vars
  BY <1>1
<1> QED
  BY <1>2, ResendInvariance, PTL DEF Spec, FirstSaveIsResendable

\* Between saving and sending, only a second finish of the session in memory
\* can spoil the finish of an offline session.
THEOREM OfflineFinishIsResent == Spec => OfflineFinishStaysResendable
<1>1. ASSUME IInv, [Next]_vars, NEW r \in RowId,
             Resendable(r), rowSid[r] = NoSid, liveRow # r
      PROVE  Resendable(r)'
  <2>0. TypeOK
    BY <1>1 DEF IInv
  <2>1. r \in rowEnded /\ rowState[r] = START_FINISH_OFFLINE
    BY <1>1 DEF Resendable
  <2>2. r \in 1 .. rowCount
    BY <1>1, <2>1 DEF IInv, FreshRows, TypeOK, RowType
  <2>3. r \in rowEnded'
    BY <1>1, <2>1, <2>2, OtherRows
  <2>4. CASE RowKept(r)
    BY <2>1, <2>3, <2>4 DEF RowKept, Resendable
  <2>5. CASE RecStartReply(r)
    <3>1. rowState'[r] = Promoted(snapState[r]) /\ snapState[r] # START_OFFLINE
      BY <1>1, <2>1, <2>5, StartReplyRow DEF Unfinished
    <3>2. rowSid'[r] # NoSid
      BY <1>1, <2>5, StartReplyGivesId
    <3>3. QED
      BY <2>3, <3>1, <3>2 DEF Promoted, Resendable
  <2>6. ~RecFinishReply(r)
    BY <1>1, FinishReplyRow
  <2>7. QED
    BY <1>1, <2>2, <2>4, <2>5, <2>6, OtherRows
<1>2. IInv /\ [Next]_vars =>
        [\A r \in RowId :
           Resendable(r) /\ rowSid[r] = NoSid /\ liveRow # r => Resendable(r)']_vars
  BY <1>1
<1> QED
  BY <1>2, Invariance, PTL DEF Spec, OfflineFinishStaysResendable

-----------------------------------------------------------------------------
(***************************************************************************)
(* One row, and finishes that do not overlap.                              *)
(***************************************************************************)
\* An answer about a session is about the id that was in memory; a finish that
\* has saved stays so until the session is reset.
CallKinds ==
  /\ \/ fetchSid' \in {fetchSid, NoSid}
     \/ liveRow # NoRow /\ fetchSid' = liveId
  /\ \A f \in Finisher :
       /\ finPc'[f] = "ok" => finPc[f] = "ok" \/ (liveRow # NoRow /\ liveId # NoSid)
       /\ FinSaved(f) => FinSaved(f)' \/ liveRow' = NoRow

LEMMA GotoKinds ==
  ASSUME CallType, NEW f \in Finisher, NEW pc \in FinPc, FinGoto(f, pc),
         UNCHANGED fetchSid,
         pc = "ok" => liveRow # NoRow /\ liveId # NoSid,
         FinSaved(f) => liveRow' = NoRow
  PROVE  CallKinds
BY DEF FinGoto, CallKinds, CallType, FinSaved

LEMMA StepCalls == ASSUME IInv, [Next]_vars PROVE CallKinds
<1>0. CallType
  BY DEF IInv, TypeOK
<1>1. CASE UNCHANGED <<finPc, fetchSid>>
  BY <1>1 DEF CallKinds, FinSaved
<1>2. ASSUME NEW f \in Finisher, FinishCall(f) \/ FinishNoLocation(f) \/ FinishUnknown(f)
      PROVE  CallKinds
  <2>1. /\ UNCHANGED fetchSid /\ ~FinSaved(f)
        /\ \E pc \in {"begin", "idle"} : FinGoto(f, pc)
    BY <1>2 DEF FinishCall, FinishNoLocation, FinishUnknown, fetchVars, FinSaved
  <2>2. QED
    BY <1>0, <2>1, GotoKinds
<1>3. ASSUME NEW f \in Finisher,
             FinishOffline(f) \/ FinishUploadImage(f) \/ FinishRefused(f)
      PROVE  CallKinds
  <2>1. /\ UNCHANGED fetchSid /\ ~FinSaved(f)
        /\ \E pc \in {"savedOffline", "savedOnline", "idle", "call"} : FinGoto(f, pc)
    BY <1>3 DEF FinishOffline, FinishUploadImage, FinishRefused, SaveFinish,
       NothingToSave, fetchVars, FinSaved
  <2>2. QED
    BY <1>0, <2>1, GotoKinds
<1>4. ASSUME NEW f \in Finisher, FinishSend(f)
      PROVE  CallKinds
  <2>1. /\ UNCHANGED fetchSid /\ ~FinSaved(f)
        /\ \E pc \in {"ok", "refused", "idle"} :
             /\ FinGoto(f, pc)
             /\ pc = "ok" => liveRow # NoRow /\ liveId # NoSid
    BY <1>4 DEF FinishSend, fetchVars, FinSaved
  <2>2. QED
    BY <1>0, <2>1, GotoKinds
<1>5. ASSUME NEW f \in Finisher, FinishOk(f) \/ FinishReset(f)
      PROVE  CallKinds
  <2>1. /\ UNCHANGED fetchSid
        /\ FinSaved(f) => liveRow' = NoRow
        /\ \E pc \in {"idle", "done"} : FinGoto(f, pc)
    BY <1>5 DEF FinishOk, FinishReset, ResetDataSession, fetchVars, FinSaved
  <2>2. QED
    BY <1>0, <2>1, GotoKinds
<1>6. CASE FetchSend \/ FetchReply \/ FetchForcesLogout
             \/ FetchForcesLogoutNoImage \/ FetchLogoutDone
  BY <1>6 DEF FetchSend, FetchReply, FetchForcesLogout, FetchForcesLogoutNoImage,
     FetchLogoutDone, FetchEnds, CallKinds, FinSaved
<1>7. CASE Restart
  BY <1>7 DEF Restart, ResetDataSession, FetchEnds, CallKinds
<1>8. CASE Login
  BY <1>1, <1>8 DEF Login, CheckOnline, CheckOffline, ContinueOffline, ContinueOnline,
     StartOffline, StartOnlineCall, StartOnlineReply, LeaveScreen, fetchVars
<1>9. ASSUME NEW r \in RowId, RecoverRow(r)
      PROVE  CallKinds
  BY <1>1, <1>9 DEF RecoverRow, RecStart, RecStartFails, RecStartReply, RecSkip,
     RecFinish, RecFinishFails, RecFinishReply, fetchVars
<1>10. CASE RecList \/ NetworkAvailable \/ NetworkLost
  BY <1>1, <1>10 DEF RecList, NetworkAvailable, NetworkLost, fetchVars
<1>11. ASSUME NEW x \in Sid, AdminCloses(x)
       PROVE  CallKinds
  BY <1>1, <1>11 DEF AdminCloses, fetchVars
<1>12. CASE UNCHANGED vars
  BY <1>1, <1>12 DEF vars, fetchVars
<1> QED
  BY <1>2, <1>3, <1>4, <1>5, <1>6, <1>7, <1>8, <1>9, <1>10, <1>11, <1>12
  DEF Next, Finish

\* The table only grows, by the row of a new session.
LEMMA TableGrows ==
  ASSUME IInv, [Next]_vars
  PROVE  \/ rowCount' = rowCount
         \/ /\ rowCount' = rowCount + 1 /\ rowCount + 1 \in RowId
            /\ rowSid'[rowCount + 1] = NoSid => rowState'[rowCount + 1] = START_OFFLINE
            /\ liveRow = NoRow => Unfinished(rowState'[rowCount + 1])
            /\ recTodo' \subseteq recTodo
<1>0. TypeOK
  BY DEF IInv
<1>1. ASSUME NEW st \in SessionState, NEW x \in SidOrNone, NEW s \in Student,
             InsertLiveRow(st, x, s), x = NoSid => st = START_OFFLINE,
             liveRow = NoRow => Unfinished(st)
      PROVE  /\ rowCount' = rowCount + 1 /\ rowCount + 1 \in RowId
             /\ rowSid'[rowCount + 1] = NoSid => rowState'[rowCount + 1] = START_OFFLINE
             /\ liveRow = NoRow => Unfinished(rowState'[rowCount + 1])
             /\ recTodo' \subseteq recTodo
  <2>1. /\ rowCount' = rowCount + 1 /\ rowCount + 1 \in RowId
        /\ rowState'[rowCount + 1] = st /\ rowSid'[rowCount + 1] = x
    BY <1>0, <1>1, MaxRowAssumption DEF InsertLiveRow, TypeOK, RowType, RowId
  <2>2. ~RecList /\ \A r \in RowId : ~RecStartReply(r)
    BY <1>0, <2>1 DEF RecList, RecStartReply, TypeOK, RowType
  <2>3. recTodo' \subseteq recTodo
    BY <2>2, StepCopies DEF CopyKinds
  <2>4. QED
    BY <1>1, <2>1, <2>3
<1>2. CASE liveRow # NoRow /\ (SaveKind \/ MarkKind)
  BY <1>2 DEF SaveKind, MarkKind, RecordEnd
<1>3. ASSUME NEW q \in RowId, RecStartReply(q) \/ RecFinishReply(q)
      PROVE  rowCount' = rowCount
  BY <1>3 DEF RecStartReply, RecFinishReply
<1>4. CASE \E r \in 1 .. rowCount, x \in SidOrNone : AttachLiveRow(r, x)
  BY <1>4 DEF AttachLiveRow
<1>5. QED
  BY <1>1, <1>2, <1>3, <1>4, StepKinds DEF RowKinds, rowVars

\* With one row: nothing that is known of its session comes from nowhere.
LEMMA NoMarkBeforeId ==
  ASSUME LoneCalls, Untold, rowSid[1] = NoSid
  PROVE  ~MarkKind
  BY DEF LoneCalls, Untold, MarkKind, FetchSaysEnded

LEMMA UntoldStep ==
  ASSUME IInv, [Next]_vars, Untold, rowCount' <= 1
  PROVE  Untold'
<1>0. TypeOK
  BY DEF IInv
<1> SUFFICES ASSUME rowCount' = 0 \/ rowSid'[1] = NoSid
             PROVE  fetchSid' = NoSid /\ \A f \in Finisher : finPc'[f] # "ok"
  BY DEF Untold
<1>1. rowCount \in {0, 1} /\ (rowCount' = 0 => rowCount = 0)
  BY <1>0, TableGrows DEF TypeOK, RowType
<1>2. rowCount = 0 \/ rowSid[1] = NoSid
  <2> SUFFICES ASSUME rowCount = 1, rowSid[1] # NoSid PROVE FALSE
    BY <1>1
  <2>1. rowSid'[1] = NoSid
    BY <1>1
  <2>2. 1 \in 1 .. rowCount /\ 1 \in RowId
    BY <1>0, RowsAreRowIds
  <2>3. \/ RowKept(1) \/ RecStartReply(1) \/ RecFinishReply(1)
        \/ \E st \in SessionState : RecordEnd(st)
    BY <2>2, OtherRows DEF SaveKind, MarkKind, SavedState, SessionState
  <2>4. QED
    BY <2>1, <2>2, <2>3, StartReplyGivesId, FinishReplyRow DEF RowKept, RecordEnd
<1>3. fetchSid = NoSid /\ \A f \in Finisher : finPc[f] # "ok"
  BY <1>2 DEF Untold
<1>4. liveRow # NoRow => liveId = NoSid
  BY <1>0, <1>1, <1>2, RowsAreRowIds DEF IInv, LiveSound, NoRow
<1>5. QED
  BY <1>3, <1>4, StepCalls DEF CallKinds

LEMMA SavedOnceStep ==
  ASSUME IInv, ResendSound, [Next]_vars, LoneCalls, Untold, rowCount = 1,
         rowCount' = 1, SavedOnce, ListedIsOver
  PROVE  SavedOnce'
<1>0. /\ TypeOK /\ 1 \in 1 .. rowCount /\ 1 \in RowId /\ LiveAsSaved
      /\ liveRow \in {NoRow, 1}
  BY RowsAreRowIds, ResendSoundParts DEF IInv, TypeOK, LiveType, NoRow
<1>1. \/ RowKept(1) \/ RecStartReply(1) \/ RecFinishReply(1)
      \/ liveRow = 1 /\ SaveKind
      \/ liveRow = 1 /\ MarkKind /\ rowSid[1] # NoSid
  BY <1>0, OtherRows, NoMarkBeforeId
<1>2. \A st \in SessionState : liveRow = 1 /\ RecordEnd(st) =>
        /\ rowState'[1] = st /\ 1 \in rowEnded' /\ rowSid'[1] = rowSid[1]
        /\ liveRow' = 1
  BY <1>0 DEF RecordEnd, TypeOK, RowType
<1>3. 1 \in rowEnded => 1 \in rowEnded'
  BY <1>0, OtherRows
<1>4. ASSUME liveRow = 1, SaveKind
      PROVE  SavedOnce'
  <2>1. /\ rowState'[1] = SavedState /\ 1 \in rowEnded' /\ rowSid'[1] = rowSid[1]
    BY <1>2, <1>4 DEF SaveKind, SavedState, SessionState
  <2>2. \E f \in Finisher : ~FinSaved(f) /\ FinSaved(f)'
    BY <1>4 DEF SaveKind, FinSaved
  <2>3. rowSid[1] = NoSid => ~Finished(rowState[1])
    BY <1>4, <2>2 DEF SavedOnce, LoneCalls
  <2>4. rowSid[1] = NoSid => liveState = START_OFFLINE
    BY <1>0, <1>4, <2>3 DEF SavedOnce, LiveAsSaved, NotStarted, Finished, NoRow
  <2>5. QED
    BY <2>1, <2>2, <2>4 DEF SavedOnce, SavedState, NotStarted
<1>5. ASSUME liveRow = 1, MarkKind, rowSid[1] # NoSid
      PROVE  SavedOnce'
  BY <1>2, <1>5 DEF MarkKind, SavedOnce, Finished, SessionState
<1>6. CASE RecStartReply(1)
  <2>1. 1 \in recTodo /\ rowSid'[1] # NoSid
    BY <1>0, <1>6, StartReplyGivesId
  <2>2. QED
    BY <1>3, <2>1 DEF SavedOnce, ListedIsOver
<1>7. CASE RecFinishReply(1)
  BY <1>0, <1>7, FinishReplyRow DEF SavedOnce, Finished
<1>8. CASE RowKept(1) /\ ~(liveRow = 1 /\ (SaveKind \/ MarkKind))
  <2>1. rowState'[1] = rowState[1] /\ rowSid'[1] = rowSid[1]
    BY <1>8 DEF RowKept
  <2>2. ASSUME liveRow' = 1, rowSid[1] = NoSid, Finished(rowState[1])
        PROVE  liveRow = 1
    <3>1. ~ResetDataSession
      BY <2>2 DEF ResetDataSession, NoRow
    <3>2. ASSUME NEW st \in SessionState, NEW x \in SidOrNone, NEW s \in Student
          PROVE  ~InsertLiveRow(st, x, s)
      BY DEF InsertLiveRow
    <3>3. ASSUME NEW r \in 1 .. rowCount, NEW x \in SidOrNone
          PROVE  ~(AttachLiveRow(r, x) /\ (Unfinished(rowState[r]) \/ rowSid[r] # NoSid))
      BY <2>2 DEF Unfinished, Finished
    <3>4. ~(liveRow # NoRow /\ (SaveKind \/ MarkKind))
      BY <1>0, <1>8
    <3>5. ASSUME NEW q \in RowId, RecStartReply(q) \/ RecFinishReply(q)
          PROVE  liveRow' = liveRow
      BY <3>5 DEF RecStartReply, RecFinishReply, liveVars
    <3>6. QED
      BY <2>2, <3>1, <3>2, <3>3, <3>4, <3>5, StepKinds DEF RowKinds
  <2>3. \A f \in Finisher : FinSaved(f) /\ liveRow' = 1 => FinSaved(f)'
    BY StepCalls DEF CallKinds, NoRow
  <2>4. QED
    BY <1>3, <2>1, <2>2, <2>3 DEF SavedOnce
<1>9. QED
  BY <1>0, <1>1, <1>4, <1>5, <1>6, <1>7, <1>8, NoMarkBeforeId

LEMMA ListedIsOverStep ==
  ASSUME IInv, [Next]_vars, rowCount = 1, rowCount' = 1, SavedOnce, ListedIsOver
  PROVE  ListedIsOver'
<1>0. TypeOK /\ 1 \in 1 .. rowCount /\ 1 \in RowId
  BY RowsAreRowIds DEF IInv
<1> SUFFICES ASSUME 1 \in recTodo'
             PROVE  Finished(snapState'[1]) /\ 1 \in rowEnded'
  BY DEF ListedIsOver
<1>1. 1 \in rowEnded => 1 \in rowEnded'
  BY <1>0, OtherRows
<1>2. CASE RecList
  <2>1. 1 \in ListRows /\ snapState'[1] = rowState[1]
    BY <1>0, <1>2 DEF RecList
  <2>2. Finished(rowState[1])
    BY <1>0, <2>1 DEF ListRows
  <2>3. QED
    BY <1>1, <2>1, <2>2 DEF SavedOnce
<1>3. ASSUME NEW q \in RowId, RecStartReply(q)
      PROVE  Finished(snapState'[1]) /\ 1 \in rowEnded'
  <2>1. q = 1 /\ 1 \in recTodo
    BY <1>0, <1>3, StartReplyGivesId
  <2>2. snapState'[1] = Promoted(snapState[1])
    BY <1>0, <1>3, <2>1 DEF RecStartReply, TypeOK, RecType
  <2>3. QED
    BY <1>1, <2>1, <2>2 DEF ListedIsOver, Finished, Promoted
<1>4. CASE recTodo' \subseteq recTodo /\ \A q \in recTodo' : snapState'[q] = snapState[q]
  BY <1>1, <1>4 DEF ListedIsOver
<1>5. QED
  BY <1>2, <1>3, <1>4, StepCopies DEF CopyKinds

\* The first row, when it is inserted
LEMMA FirstRowStep ==
  ASSUME IInv, [Next]_vars, rowCount = 0, rowCount' = 1
  PROVE  SavedOnce' /\ ListedIsOver'
<1>0. recTodo = {} /\ liveRow = NoRow
  BY DEF IInv, TypeOK, RecType, LiveType, NoRow
<1>1. /\ rowSid'[1] = NoSid => rowState'[1] = START_OFFLINE
      /\ Unfinished(rowState'[1]) /\ recTodo' = {}
  BY <1>0, TableGrows
<1>2. QED
  BY <1>1 DEF SavedOnce, ListedIsOver, Finished, Unfinished, NotStarted

LEMMA LoneStep ==
  ASSUME IInv, LoneInv, [Next]_vars
  PROVE  LoneSound'
<1>0. TypeOK /\ ResendSound /\ LoneSound
  BY DEF IInv, LoneInv
<1> SUFFICES ASSUME LoneCalls, rowCount' <= 1
             PROVE  Untold' /\ (rowCount' = 1 => SavedOnce' /\ ListedIsOver')
  BY DEF LoneSound, LoneCalls
<1>1. rowCount \in {0, 1} /\ rowCount' \in {0, 1} /\ (rowCount = 1 => rowCount' = 1)
  BY <1>0, TableGrows DEF TypeOK, RowType
<1>2. Untold /\ (rowCount = 1 => SavedOnce /\ ListedIsOver)
  BY <1>0, <1>1 DEF LoneSound
<1>3. Untold'
  BY <1>2, UntoldStep
<1>4. CASE rowCount = 1
  BY <1>0, <1>1, <1>2, <1>3, <1>4, SavedOnceStep, ListedIsOverStep
<1>5. CASE rowCount = 0
  BY <1>1, <1>3, <1>5, FirstRowStep
<1>6. QED
  BY <1>1, <1>4, <1>5

\* What decides whether a saved finish can be resent holds at all times.
THEOREM LoneInvariance == Spec => []LoneInv
<1>1. Init => LoneSound
  BY DEF Init, LoneSound, Untold
<1>2. IInv /\ LoneInv /\ [Next]_vars => LoneSound'
  BY LoneStep
<1>3. LoneInv <=> ResendSound /\ LoneSound
  BY DEF LoneInv
<1>4. Init => ResendSound
  BY ResendInit
<1>5. QED
  BY <1>1, <1>2, <1>3, <1>4, Invariance, ResendInvariance, PTL DEF Spec

\* With one row, finishes that do not overlap and a server that does not end
\* what it does not know, every saved finish can be resent.
THEOREM LoneFinishCorrect == Spec => []LoneFinishIsResendable
<1>1. LoneInv => LoneFinishIsResendable
  BY DEF LoneInv, LoneSound, SavedOnce, LoneFinishIsResendable, Resendable,
     Finished, NotStarted
<1>2. QED
  BY <1>1, LoneInvariance, PTL

-----------------------------------------------------------------------------
(***************************************************************************)
(* The recovery's way to its end, and what it ends on the server.          *)
(***************************************************************************)
RecoveryEndsNow == recPc' \in {"idle", "list"} /\ recTodo' = {}

\* What a step does to the recovery.
RecKinds ==
  \/ UNCHANGED recVars
  \/ recPc = "idle" /\ recPc' = "list"
       /\ UNCHANGED <<recTodo, recSid, snapState, snapSid, snapEnded>>
  \/ RecoveryEndsNow
  \/ RecList
  \/ \E r \in RowId : RecStart(r) \/ RecStartReply(r) \/ RecFinish(r)
  \/ \E r \in RowId : Current(r) /\ RecAdvance(r)

LEMMA StepRecovery == ASSUME [Next]_vars PROVE RecKinds
<1> USE DEF RecKinds
<1>1. CASE Login
  BY <1>1 DEF Login, CheckOnline, CheckOffline, ContinueOffline, ContinueOnline,
     StartOffline, StartOnlineCall, StartOnlineReply, LeaveScreen
<1>2. ASSUME NEW f \in Finisher, Finish(f)
      PROVE  RecKinds
  BY <1>2 DEF Finish, FinishCall, FinishNoLocation, FinishUnknown, FinishOffline,
     FinishUploadImage, FinishSend, FinishOk, FinishRefused, FinishReset,
     TriggerRecover
<1>3. CASE FetchSend \/ FetchReply \/ FetchForcesLogout \/ FetchForcesLogoutNoImage
             \/ FetchLogoutDone
  BY <1>3 DEF FetchSend, FetchReply, FetchForcesLogout, FetchForcesLogoutNoImage,
     FetchLogoutDone
<1>4. ASSUME NEW r \in RowId, RecoverRow(r)
      PROVE  RecKinds
  BY <1>4 DEF RecoverRow, RecStartFails, RecSkip, RecFinishFails, RecFinishReply
<1>5. CASE NetworkAvailable \/ NetworkLost
  BY <1>5 DEF NetworkAvailable, NetworkLost, TriggerRecover
<1>6. CASE Restart
  BY <1>6 DEF Restart, RecoveryEndsNow
<1>7. ASSUME NEW x \in Sid, AdminCloses(x)
      PROVE  RecKinds
  BY <1>7 DEF AdminCloses
<1>8. CASE UNCHANGED vars
  BY <1>8 DEF vars
<1> QED
  BY <1>1, <1>2, <1>3, <1>4, <1>5, <1>6, <1>7, <1>8 DEF Next

\* The recovery is at a row just while it has one, and that row is not done.
RecWork == /\ recPc \in {"idle", "list"} <=> recTodo = {}
           /\ \A r \in recTodo : snapState[r] # START_ONLINE_FINISH_ONLINE

LEMMA RecWorkStep == ASSUME IInv, RecWork, [Next]_vars PROVE RecWork'
<1>0. TypeOK
  BY DEF IInv
<1>1. CASE UNCHANGED recVars
  BY <1>1 DEF RecWork
<1>2. CASE /\ recPc = "idle" /\ recPc' = "list"
           /\ UNCHANGED <<recTodo, recSid, snapState, snapSid, snapEnded>>
  BY <1>2 DEF RecWork
<1>3. CASE RecoveryEndsNow
  BY <1>3 DEF RecWork, RecoveryEndsNow
<1>4. CASE RecList
  <2>1. \A r \in ListRows : rowState[r] # START_ONLINE_FINISH_ONLINE /\ r \in RowId
    BY <1>0, RowsAreRowIds DEF ListRows
  <2>2. recTodo' = ListRows /\ recPc' = (IF ListRows = {} THEN "idle" ELSE "session")
        /\ \A r \in ListRows : snapState'[r] = rowState[r]
    BY <1>4, <2>1 DEF RecList
  <2>3. QED
    BY <2>1, <2>2 DEF RecWork
<1>5. ASSUME NEW r \in RowId, RecStart(r) \/ RecFinish(r)
      PROVE  RecWork'
  BY <1>5 DEF RecWork, RecStart, RecFinish
<1>6. ASSUME NEW r \in RowId, RecStartReply(r)
      PROVE  RecWork'
  BY <1>0, <1>6 DEF RecWork, RecStartReply, TypeOK, RecType, Promoted
<1>7. ASSUME NEW r \in RowId, Current(r), RecAdvance(r)
      PROVE  RecWork'
  <2>1. \A q \in recTodo' : q \in recTodo /\ snapState'[q] = snapState[q]
    BY <1>0, <1>7 DEF RecAdvance, TypeOK, RecType
  <2>2. recTodo' = {} <=> recTodo = {r}
    BY <1>7 DEF RecAdvance, Current
  <2>3. QED
    BY <1>7, <2>1, <2>2 DEF RecWork, RecAdvance
<1>8. QED
  BY <1>1, <1>2, <1>3, <1>4, <1>5, <1>6, <1>7, StepRecovery DEF RecKinds

LEMMA RecWorkHolds == Spec => []RecWork
<1>1. Init => RecWork
  BY DEF Init, RecWork
<1>2. IInv /\ RecWork /\ [Next]_vars => RecWork'
  BY RecWorkStep
<1>3. QED
  BY <1>1, <1>2, Invariance, PTL DEF Spec

\* The rows left have a first one: a set of naturals has a least element.
LEMMA FirstRow ==
  ASSUME RecType, RowType, recTodo # {}
  PROVE  \E r \in recTodo : Current(r)
<1>0. recTodo \subseteq Nat
  BY DEF RecType, RowType
<1>1. PICK R : R = OpToRel(<, Nat)
  OBVIOUS
<1>2. IsWellFoundedOn(R, Nat)
  BY <1>1, NatLessThanWellFounded
<1>3. \A x, y \in Nat : <<y, x>> \in R <=> y < x
  BY <1>1 DEF OpToRel
<1>4. PICK x \in recTodo : \A y \in recTodo : ~ (<<y, x>> \in R)
  BY <1>0, <1>2, WFMin
<1>5. ASSUME NEW y \in recTodo
      PROVE  x <= y
  <2>1. x \in Nat /\ y \in Nat
    BY <1>0
  <2>2. ~ (y < x)
    BY <2>1, <1>3, <1>4
  <2>3. QED
    BY <2>1, <2>2
<1>6. QED
  BY <1>5 DEF Current

\* The recovery never stands with its flag set and nothing it can do.
THEOREM RecoveryIsNeverStuck == Spec => []RecoveryCanGoOn
<1>1. IInv /\ RecWork => RecoveryCanGoOn
  <2> SUFFICES ASSUME IInv, RecWork, recPc \in {"session", "startReply", "finReply"}
               PROVE  \E r \in recTodo :
                        /\ Current(r)
                        /\ recPc = "session" => \/ NotStarted(snapState[r])
                                                \/ snapState[r] = START_ONLINE
                                                \/ snapState[r] = START_ONLINE_FINISH_OFFLINE
    BY DEF RecoveryCanGoOn
  <2>1. RecType /\ RowType
    BY DEF IInv, TypeOK
  <2>2. PICK r \in recTodo : Current(r)
    BY <2>1, FirstRow DEF RecWork
  <2>3. r \in RowId /\ snapState[r] \in SessionState
    BY <2>1, RowsAreRowIds DEF IInv, RecType
  <2>4. QED
    BY <2>2, <2>3 DEF RecWork, NotStarted
<1>2. QED
  BY <1>1, Invariance, RecWorkHolds, PTL

\* Each of its steps takes it nearer its end: at most four per row.
THEOREM RecoveryMovesOn == Spec => RecoveryAdvances
<1>1. ASSUME IInv, RecWork, [Next]_vars, NEW q \in recTodo, Current(q)
      PROVE  \/ UNCHANGED recVars
             \/ recTodo' \subseteq recTodo \ {q}
             \/ recTodo' = recTodo /\ StepsLeft(q)' < StepsLeft(q)
  <2>0. /\ TypeOK /\ RecType /\ RowType /\ q \in RowId
        /\ recPc \in {"session", "startReply", "finReply"}
    BY <1>1, RowsAreRowIds DEF IInv, TypeOK, RecType, RecWork
  <2>1. CASE RecList
    BY <2>0, <2>1 DEF RecList
  <2>2. CASE RecoveryEndsNow
    BY <2>2 DEF RecoveryEndsNow
  <2>3. ASSUME NEW r \in RowId, RecStart(r) \/ RecStartReply(r) \/ RecFinish(r)
        PROVE  recTodo' = recTodo /\ StepsLeft(q)' < StepsLeft(q)
    <3>1. Current(r)
      BY <2>3 DEF RecStart, RecStartReply, RecFinish
    <3>2. q = r
      BY <1>1, <2>0, <3>1, CurrentIsUnique
    <3>3. CASE RecStart(r)
      BY <3>2, <3>3 DEF RecStart, StepsLeft
    <3>4. CASE RecStartReply(r)
      BY <2>0, <3>2, <3>4 DEF RecStartReply, StepsLeft, RecType, Promoted, NotStarted
    <3>5. CASE RecFinish(r)
      BY <3>2, <3>5 DEF RecFinish, StepsLeft, NotStarted
    <3>6. QED
      BY <2>3, <3>3, <3>4, <3>5
  <2>4. ASSUME NEW r \in RowId, Current(r), RecAdvance(r)
        PROVE  recTodo' \subseteq recTodo \ {q}
    BY <1>1, <2>0, <2>4, CurrentIsUnique DEF RecAdvance
  <2>5. QED
    BY <2>0, <2>1, <2>2, <2>3, <2>4, <1>1, StepRecovery DEF RecKinds
<1>2. IInv /\ RecWork /\ [Next]_vars =>
        [\A r \in recTodo : Current(r) =>
           \/ UNCHANGED recVars
           \/ recTodo' \subseteq recTodo \ {r}
           \/ recTodo' = recTodo /\ StepsLeft(r)' < StepsLeft(r)]_vars
  BY <1>1
<1>3. QED
  BY <1>2, Invariance, RecWorkHolds, PTL DEF Spec, RecoveryAdvances

\* The app closes a session on the server only for a row that is in memory or
\* over, however old the recovery's copy of the row is.
THEOREM OnlyOverIsClosed == Spec => ClosedIsOver
<1>1. ASSUME IInv, ResendSound, [Next]_vars, NEW x \in Sid,
             srvState[x] # "closed", srvState'[x] = "closed", ~AdminCloses(x)
      PROVE  \E r \in 1 .. rowCount :
               rowSid[r] = x /\ (r = liveRow \/ ~Unfinished(rowState[r]))
  <2>0. /\ TypeOK /\ SrvType
    BY <1>1 DEF IInv, TypeOK
  <2>1. ASSUME NEW y \in Sid, ServerCloses(y) PROVE y = x
    BY <1>1, <2>0, <2>1 DEF ServerCloses, SrvType
  <2>2. ASSUME NEW y \in Sid, NEW s \in Student, ServerOpens(y, s) PROVE FALSE
    BY <1>1, <2>0, <2>2 DEF ServerOpens, SrvType
  <2>3. ASSUME UNCHANGED srvState PROVE FALSE
    BY <1>1, <2>3
  <2>4. ASSUME NEW f \in Finisher, FinishSend(f)
        PROVE  \E r \in 1 .. rowCount : rowSid[r] = x /\ r = liveRow
    <3>1. liveRow # NoRow /\ liveId # NoSid /\ ServerCloses(liveId)
      BY <2>3, <2>4 DEF FinishSend
    <3>2. liveRow \in 1 .. rowCount /\ liveId = rowSid[liveRow] /\ liveId \in Sid
      BY <1>1, <2>0, <3>1, RowsAreRowIds DEF IInv, LiveSound, TypeOK, LiveType
    <3>3. QED
      BY <2>1, <3>1, <3>2
  <2>5. ASSUME NEW r \in RowId, RecFinish(r) \/ RecFinishFails(r)
        PROVE  r \in 1 .. rowCount /\ rowSid[r] = x /\ ~Unfinished(rowState[r])
    <3>1. /\ r \in recTodo /\ r \in 1 .. rowCount
          /\ snapState[r] = START_ONLINE_FINISH_OFFLINE
          /\ snapSid[r] # NoSid /\ ServerCloses(snapSid[r])
      BY <2>0, <2>3, <2>5, RowsAreRowIds DEF RecFinish, RecFinishFails, Current
    <3>2. snapSid[r] = rowSid[r] /\ snapSid[r] \in Sid
      BY <1>1, <2>0, <3>1 DEF IInv, SnapshotSound, TypeOK, RecType
    <3>3. ~Unfinished(rowState[r])
      BY <1>1, <3>1 DEF ResendSound, Unfinished
    <3>4. QED
      BY <2>1, <3>1, <3>2, <3>3
  <2>6. CASE Login
    <3>1. UNCHANGED srvState \/ \E y \in Sid, s \in Student : ServerOpens(y, s)
      BY <1>1, <2>6 DEF Login, CheckOnline, CheckOffline, ContinueOffline, ContinueOnline,
         StartOffline, StartOnlineCall, StartOnlineReply, LeaveScreen, IInv, TypeOK,
         LoginType
    <3>2. QED
      BY <2>2, <2>3, <3>1
  <2>7. ASSUME NEW f \in Finisher, Finish(f), ~FinishSend(f) PROVE FALSE
    BY <2>3, <2>7 DEF Finish, FinishCall, FinishNoLocation, FinishUnknown,
       FinishOffline, FinishUploadImage, FinishOk, FinishRefused, FinishReset
  <2>8. CASE FetchSend \/ FetchReply \/ FetchForcesLogout
               \/ FetchForcesLogoutNoImage \/ FetchLogoutDone
    BY <2>3, <2>8 DEF FetchSend, FetchReply, FetchForcesLogout,
       FetchForcesLogoutNoImage, FetchLogoutDone
  <2>9. ASSUME NEW r \in RowId, RecoverRow(r), ~RecFinish(r), ~RecFinishFails(r)
        PROVE  FALSE
    <3>1. rowStudent[r] \in Student
      BY <2>0 DEF TypeOK, RowType
    <3>2. UNCHANGED srvState \/ \E y \in Sid, s \in Student : ServerOpens(y, s)
      BY <2>9, <3>1 DEF RecoverRow, RecStart, RecStartFails, RecStartReply, RecSkip,
         RecFinishReply
    <3>3. QED
      BY <2>2, <2>3, <3>2
  <2>10. CASE RecList \/ NetworkAvailable \/ NetworkLost \/ Restart
    BY <2>3, <2>10 DEF RecList, NetworkAvailable, NetworkLost, Restart
  <2>11. ASSUME NEW y \in Sid, AdminCloses(y) PROVE FALSE
    BY <1>1, <2>1, <2>11 DEF AdminCloses
  <2>12. CASE UNCHANGED vars
    BY <2>3, <2>12 DEF vars
  <2>13. QED
    BY <1>1, <2>4, <2>5, <2>6, <2>7, <2>8, <2>9, <2>10, <2>11, <2>12 DEF Next
<1>2. IInv /\ ResendSound /\ [Next]_vars =>
        [\A x \in Sid :
           srvState[x] # "closed" /\ srvState'[x] = "closed" /\ ~AdminCloses(x) =>
             \E r \in 1 .. rowCount :
               rowSid[r] = x /\ (r = liveRow \/ ~Unfinished(rowState[r]))]_vars
  BY <1>1
<1>3. QED
  BY <1>2, ResendInvariance, PTL DEF Spec, ClosedIsOver

-----------------------------------------------------------------------------
(***************************************************************************)
(* SessionSync implements SessionTable: each operation on the table or the *)
(* session in memory is one the abstract table has.                        *)
(***************************************************************************)
TableStutter == UNCHANGED <<rowCount, rowState, rowSid, liveRow>>
TableStep == Table!TableNext \/ TableStutter

\* The status of a row changes with its state.
LEMMA StatusChange ==
  ASSUME NEW r \in RowId, NEW st, rowState \in [RowId -> SessionState],
         rowState' = [rowState EXCEPT ![r] = st]
  PROVE  RowStatus' = [RowStatus EXCEPT ![r] =
           IF Unfinished(st) THEN "running"
           ELSE IF Finished(st) THEN "finished" ELSE "sent"]
<1>1. \A q \in RowId : rowState'[q] = IF q = r THEN st ELSE rowState[q]
  OBVIOUS
<1> QED
  BY <1>1 DEF RowStatus

LEMMA InsertImplements ==
  ASSUME TypeOK, NEW st \in SessionState, NEW x \in SidOrNone,
         NEW s \in Student, InsertLiveRow(st, x, s),
         x = NoSid \/ liveRow = NoRow => Unfinished(st)
  PROVE  TableStep
<1> DEFINE a == IF Unfinished(st) THEN "running"
                ELSE IF Finished(st) THEN "finished" ELSE "sent"
<1> USE MaxRowAssumption DEF TypeOK, RowType, InsertLiveRow
<1>1. a \in Table!Status
  BY DEF Table!Status
<1>2. RowStatus' = [RowStatus EXCEPT ![rowCount + 1] = a]
  BY DEF RowStatus
<1>3. Table!Insert(a, x)
  BY <1>2 DEF Table!Insert, Table!NoRow, NoRow
<1> QED
  BY <1>1, <1>3 DEF TableStep, Table!TableNext, Table!UserStep

LEMMA AttachImplements ==
  ASSUME NEW r \in 1 .. rowCount, NEW x, AttachLiveRow(r, x), TypeOK,
         rowSid[r] = NoSid => r = rowCount
  PROVE  TableStep
<1>1. Table!Attach(r)
  BY DEF AttachLiveRow, Table!Attach, RowStatus
<1>2. r \in Table!RowId
  BY MaxRowAssumption DEF TypeOK, RowType, Table!RowId
<1> QED
  BY <1>1, <1>2 DEF TableStep, Table!TableNext, Table!UserStep

LEMMA EndImplements ==
  ASSUME TypeOK, NEW st \in SessionState, ~Unfinished(st), RecordEnd(st),
         liveRow # NoRow
  PROVE  TableStep
<1> DEFINE a == IF Finished(st) THEN "finished" ELSE "sent"
<1>1. RowStatus' = [RowStatus EXCEPT ![liveRow] = a]
  BY DEF RowStatus, RecordEnd, TypeOK, RowType
<1>2. a \in {"finished", "sent"}
  OBVIOUS
<1>3. Table!End(a)
  BY <1>1, <1>2 DEF Table!End, RecordEnd, Table!NoRow
<1> QED
  BY <1>2, <1>3 DEF TableStep, Table!TableNext, Table!UserStep, Table!Status

LEMMA ForgetImplements ==
  ASSUME ResetDataSession, UNCHANGED rowVars PROVE TableStep
<1>1. Table!Forget
  BY DEF ResetDataSession, Table!Forget, Table!NoRow, RowStatus
<1> QED
  BY <1>1 DEF TableStep, Table!TableNext, Table!UserStep

LEMMA GiveIdImplements ==
  ASSUME IInv, NEW r \in RowId, RecStartReply(r) PROVE TableStep
<1>1. /\ r \in recTodo /\ Current(r) /\ recPc = "startReply"
      /\ r \in 1 .. rowCount
  BY DEF RecStartReply, Current, IInv, TypeOK, RecType
<1>2. /\ recSid \in Sid /\ NotStarted(snapState[r])
      /\ rowSid[r] = NoSid =>
           IF Unfinished(snapState[r])
           THEN Unfinished(rowState[r]) /\ r < rowCount /\ liveRow # r
           ELSE ~Unfinished(rowState[r])
  BY <1>1 DEF IInv, ReplySound, SnapshotSound
<1> DEFINE a == IF Unfinished(snapState[r]) THEN "running" ELSE "finished"
<1>a. /\ rowState' = [rowState EXCEPT ![r] = Promoted(snapState[r])]
      /\ rowState \in [RowId -> SessionState]
  BY DEF RecStartReply, IInv, TypeOK, RowType
<1>b. Unfinished(Promoted(snapState[r])) <=> a = "running"
  BY <1>2 DEF Promoted, NotStarted, Unfinished
<1>c. Finished(Promoted(snapState[r])) <=> a = "finished"
  BY <1>2 DEF Promoted, NotStarted, Unfinished, Finished
<1>3. /\ a \in {"running", "finished"}
      /\ RowStatus' = [RowStatus EXCEPT ![r] = a]
  BY <1>a, <1>b, <1>c, StatusChange
<1>4. rowSid[r] = NoSid => (a = "running" <=> RowStatus[r] = "running")
  BY <1>2 DEF RowStatus
<1>5. rowSid[r] = NoSid /\ RowStatus[r] = "running"
        => r # liveRow /\ r < rowCount
  BY <1>2 DEF RowStatus
<1>6. Table!GiveId(r, recSid)
  BY <1>1, <1>3, <1>4, <1>5 DEF RecStartReply, Table!GiveId
<1> QED
  BY <1>2, <1>6 DEF TableStep, Table!TableNext, Table!RowId

LEMMA MarkSentImplements ==
  ASSUME IInv, NEW r \in RowId, RecFinishReply(r) PROVE TableStep
<1>1. r \in 1 .. rowCount
  BY DEF RecFinishReply, Current, IInv, TypeOK, RecType
<1>2. RowStatus' = [RowStatus EXCEPT ![r] = "sent"]
  <2>1. /\ rowState' = [rowState EXCEPT ![r] = START_ONLINE_FINISH_ONLINE]
        /\ rowState \in [RowId -> SessionState]
    BY DEF RecFinishReply, IInv, TypeOK, RowType
  <2>2. ~Unfinished(START_ONLINE_FINISH_ONLINE)
        /\ ~Finished(START_ONLINE_FINISH_ONLINE)
    BY DEF Unfinished, Finished
  <2>3. RowStatus' = [RowStatus EXCEPT ![r] =
          IF Unfinished(START_ONLINE_FINISH_ONLINE) THEN "running"
          ELSE IF Finished(START_ONLINE_FINISH_ONLINE) THEN "finished"
          ELSE "sent"]
    BY <2>1, StatusChange
  <2> QED
    BY <2>2, <2>3, Zenon
<1>3. Table!MarkSent(r)
  BY <1>1, <1>2, FinishReplyRow DEF RecFinishReply, Table!MarkSent
<1> QED
  BY <1>3 DEF TableStep, Table!TableNext, Table!RowId

LEMMA SaveImplements ==
  ASSUME TypeOK, NEW f \in Finisher, NEW pc,
         SaveFinish(f, pc) \/ NothingToSave(f)
  PROVE  TableStep
<1>1. SavedState \in SessionState /\ ~Unfinished(SavedState)
  BY DEF SavedState, Unfinished
<1>2. CASE SaveFinish(f, pc)
  BY <1>1, <1>2, EndImplements DEF SaveFinish
<1>3. CASE NothingToSave(f)
  BY <1>3 DEF NothingToSave, TableStep, TableStutter
<1> QED
  BY <1>2, <1>3

LEMMA StepImplements ==
  ASSUME IInv, [Next]_vars PROVE TableStep
<1> USE DEF IInv
<1>1. ASSUME NEW s \in Student, CheckOnline(s) \/ CheckOffline(s)
      PROVE  TableStep
  BY <1>1 DEF CheckOnline, CheckOffline, TableStep, TableStutter
<1>2. ASSUME NEW s \in Student, ContinueOffline(s) PROVE TableStep
  <2>1. rowCount \in 1 .. rowCount
    BY <1>2, MaxRowAssumption
    DEF ContinueOffline, LastRowRunning, TypeOK, RowType
  <2> QED
    BY <1>2, <2>1, AttachImplements DEF ContinueOffline
<1>3. CASE ContinueOnline
  <2>1. loginSid \in Sid /\ loginSid # NoSid /\ loginStudent \in Student
    BY <1>3, NoSidAssumption DEF ContinueOnline, LoginSound, TypeOK, LoginType
  <2>2. ASSUME NEW r \in 1 .. rowCount, rowSid[r] = loginSid,
               AttachLiveRow(r, loginSid)
        PROVE  TableStep
    BY <2>1, <2>2, AttachImplements
  <2>3. ASSUME NEW st \in SessionState, liveRow = NoRow => Unfinished(st),
               InsertLiveRow(st, loginSid, loginStudent)
        PROVE  TableStep
    BY <2>1, <2>3, InsertImplements
  <2>4. (IF liveRow = NoRow THEN START_ONLINE ELSE liveState) \in SessionState
    BY DEF TypeOK, LiveType
  <2> QED
    BY <1>3, <2>2, <2>3, <2>4 DEF ContinueOnline, Unfinished
<1>4. CASE StartOffline \/ StartOnlineReply
  <2>1. loginStudent \in Student /\ loginSid \in SidOrNone
    BY DEF TypeOK, LoginType
  <2> QED
    BY <1>4, <2>1, InsertImplements, NoSidAssumption
    DEF StartOffline, StartOnlineReply, Unfinished
<1>5. CASE StartOnlineCall \/ LeaveScreen
  BY <1>5 DEF StartOnlineCall, LeaveScreen, TableStep, TableStutter
<1>6. ASSUME NEW f \in Finisher,
             FinishCall(f) \/ FinishNoLocation(f) \/ FinishUnknown(f) \/ FinishSend(f)
      PROVE  TableStep
  BY <1>6 DEF FinishCall, FinishNoLocation, FinishUnknown, FinishSend,
     TableStep, TableStutter
<1>7. ASSUME NEW f \in Finisher, FinishOffline(f) \/ FinishRefused(f)
      PROVE  TableStep
  BY <1>7, SaveImplements DEF FinishOffline, FinishRefused
<1>8. ASSUME NEW f \in Finisher, FinishUploadImage(f) PROVE TableStep
  BY <1>8, SaveImplements DEF FinishUploadImage, TableStep, TableStutter
<1>9. ASSUME NEW f \in Finisher, FinishOk(f) PROVE TableStep
  BY <1>9, EndImplements DEF FinishOk, TableStep, TableStutter, Unfinished
<1>10. ASSUME NEW f \in Finisher, FinishReset(f) PROVE TableStep
  BY <1>10, ForgetImplements DEF FinishReset
<1>11. CASE FetchSend \/ FetchReply \/ FetchForcesLogoutNoImage
  BY <1>11 DEF FetchSend, FetchReply, FetchForcesLogoutNoImage, TableStep,
     TableStutter
<1>12. CASE FetchForcesLogout
  BY <1>12, EndImplements DEF FetchForcesLogout, Unfinished
<1>13. CASE FetchLogoutDone \/ Restart
  BY <1>13, ForgetImplements DEF FetchLogoutDone, Restart
<1>14. CASE RecList
  BY <1>14 DEF RecList, TableStep, TableStutter
<1>15. ASSUME NEW r \in RowId, RecStart(r) \/ RecFinish(r) \/ RecSkip(r)
                                 \/ RecStartFails(r) \/ RecFinishFails(r)
       PROVE  TableStep
  BY <1>15 DEF RecStart, RecFinish, RecSkip, RecStartFails, RecFinishFails,
     TableStep, TableStutter
<1>16. ASSUME NEW r \in RowId, RecStartReply(r) \/ RecFinishReply(r)
       PROVE  TableStep
  BY <1>16, GiveIdImplements, MarkSentImplements
<1>17. CASE NetworkAvailable \/ NetworkLost \/ UNCHANGED vars
  BY <1>17 DEF NetworkAvailable, NetworkLost, vars, TableStep, TableStutter
<1>18. ASSUME NEW x \in Sid, AdminCloses(x) PROVE TableStep
  BY <1>18 DEF AdminCloses, TableStep, TableStutter
<1> QED
  BY <1>1, <1>2, <1>3, <1>4, <1>5, <1>6, <1>7, <1>8, <1>9, <1>10, <1>11,
     <1>12, <1>13, <1>14, <1>15, <1>16, <1>17, <1>18
  DEF Next, Login, Finish, RecoverRow

\* Every behaviour of the sessions, whatever its interleaving of coroutines,
\* calls and process deaths, is a behaviour of the abstract table.
THEOREM TableImplemented == Spec => ImplementsTable
<1>1. Init => Table!TableInit
  BY DEF Init, Table!TableInit, Table!NoRow, Table!RowId, RowStatus, Unfinished
<1>2. IInv /\ [Next]_vars => [Table!TableNext]_(Table!tableVars)
  BY StepImplements DEF TableStep, TableStutter, Table!tableVars, RowStatus
<1> QED
  BY <1>1, <1>2, Invariance, PTL DEF Spec, ImplementsTable, Table!TableSpec
=============================================================================
