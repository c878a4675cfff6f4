---------------------------- MODULE SessionSync ----------------------------
(***************************************************************************)
(* The life of training sessions on one device: the local table            *)
(* rider_session, the session the ViewModel holds in memory, the           *)
(* coroutines that finish it, the recovery coroutine that resends what     *)
(* could not be sent, and the server as the app's calls see it.            *)
(*                                                                         *)
(* Code between two suspension points of a coroutine is one action; every  *)
(* remote call is split into the request (where the server acts) and the   *)
(* reply (where the app acts), so that other coroutines, a crash or a new  *)
(* login can come between them.                                            *)
(***************************************************************************)
EXTENDS Integers, FiniteSets

CONSTANTS
  Sid,         \* the session ids the server hands out
  NoSid,       \* a null sessionId; also the local id an offline session uses
  Student,
  Finisher,    \* the finishRiderSession coroutines that may overlap
  MaxRow,      \* bound: rows the table may hold
  MaxRestart,  \* bound: process deaths
  UnknownIdIsEnded   \* whether the server calls a session it never issued
                     \* ended (status 0) when asked about it

ASSUME NoSidAssumption == NoSid \notin Sid
ASSUME MaxRowAssumption == MaxRow \in Nat
ASSUME MaxRestartAssumption == MaxRestart \in Nat
ASSUME StudentAssumption == Student # {}
ASSUME UnknownIdAssumption == UnknownIdIsEnded \in BOOLEAN

START_OFFLINE              == 0
START_ONLINE               == 1
START_FINISH_OFFLINE       == 2
START_ONLINE_FINISH_OFFLINE == 3
START_ONLINE_FINISH_ONLINE  == 4
SessionState == 0 .. 4

RowId == 1 .. MaxRow
NoRow == 0

VARIABLES
  rowCount,     \* rows inserted so far; ids are 1 .. rowCount
  rowState, rowSid, rowStudent,          \* the table rider_session
  rowEnded,     \* the rows with logoutTime, logoutImagePath and position
  srvState, srvStudent,                  \* the server's sessions
  net,          \* checkConnectionAvailable()
  screen,       \* where TrainingSessionScreen is on the way to a session
  loginSid,     \* session id in the last answer to the login screen
  loginStudent, \* the student logging in
  liveRow, liveState, liveId,            \* localRiderSession.id and .state,
                                         \* inProgressSession.id
  finPc,        \* where each finish coroutine is
  recPc, recTodo, recSid, snapState, snapSid, snapEnded,   \* the recovery
                                         \* coroutine
  fetchPc, fetchSid,                     \* fetchSessionJob, forced logout
  restarts

rowVars  == <<rowCount, rowState, rowSid, rowStudent, rowEnded>>
srvVars  == <<srvState, srvStudent>>
liveVars == <<liveRow, liveState, liveId>>
recVars  == <<recPc, recTodo, recSid, snapState, snapSid, snapEnded>>
loginVars == <<loginSid, loginStudent>>
fetchVars == <<fetchPc, fetchSid>>
vars == <<rowVars, srvVars, net, screen, loginVars, liveVars, finPc, recVars,
          fetchVars, restarts>>

SidOrNone == Sid \cup {NoSid}
FinPc == {"idle", "begin", "call", "ok", "refused",
          "savedOffline", "savedOnline", "done"}

RowType == /\ rowCount \in 0 .. MaxRow
           /\ rowState \in [RowId -> SessionState]
           /\ rowSid \in [RowId -> SidOrNone]
           /\ rowStudent \in [RowId -> Student]
           /\ rowEnded \subseteq RowId
SrvType == /\ srvState \in [Sid -> {"unused", "open", "closed"}]
           /\ srvStudent \in [Sid -> Student]
LoginType == /\ net \in BOOLEAN
             /\ screen \in {"login", "resume", "start", "starting", "session"}
             /\ loginSid \in SidOrNone
             /\ loginStudent \in Student
LiveType == /\ liveRow \in 0 .. rowCount
            /\ liveState \in SessionState
            /\ liveId \in SidOrNone
RecType == /\ recPc \in {"idle", "list", "session", "startReply", "finReply"}
           /\ recTodo \subseteq 1 .. rowCount
           /\ snapState \in [RowId -> SessionState]
           /\ snapSid \in [RowId -> SidOrNone]
           /\ snapEnded \subseteq RowId
           /\ recSid \in SidOrNone
CallType == /\ finPc \in [Finisher -> FinPc]
            /\ fetchPc \in {"idle", "asked", "ended"}
            /\ fetchSid \in SidOrNone
            /\ restarts \in 0 .. MaxRestart
TypeOK == RowType /\ SrvType /\ LoginType /\ LiveType /\ RecType /\ CallType

AnyStudent == CHOOSE s \in Student : TRUE

Init ==
  /\ rowCount = 0
  /\ rowState = [r \in RowId |-> START_OFFLINE]
  /\ rowSid = [r \in RowId |-> NoSid]
  /\ rowStudent = [r \in RowId |-> AnyStudent]
  /\ rowEnded = {}
  /\ srvState = [x \in Sid |-> "unused"]
  /\ srvStudent = [x \in Sid |-> AnyStudent]
  /\ net \in BOOLEAN
  /\ screen = "login" /\ loginSid = NoSid /\ loginStudent = AnyStudent
  /\ liveRow = NoRow /\ liveState = START_OFFLINE /\ liveId = NoSid
  /\ finPc = [f \in Finisher |-> "idle"]
  /\ recPc = (IF net THEN "list" ELSE "idle")
  /\ recTodo = {}
  /\ snapState = [r \in RowId |-> START_OFFLINE]
  /\ snapSid = [r \in RowId |-> NoSid]
  /\ snapEnded = {}
  /\ recSid = NoSid
  /\ fetchPc = "idle" /\ fetchSid = NoSid
  /\ restarts = 0

-----------------------------------------------------------------------------
(***************************************************************************)
(* The server, as far as the app relies on it.                             *)
(***************************************************************************)
ServerOpens(x, s) ==
  /\ srvState[x] = "unused"
  /\ srvState' = [srvState EXCEPT ![x] = "open"]
  /\ srvStudent' = [srvStudent EXCEPT ![x] = s]

ServerCloses(x) ==
  /\ srvState' = [srvState EXCEPT ![x] = "closed"]
  /\ UNCHANGED srvStudent

\* The sessions check-user-in-session can return for a student.
InProgress(s) == {x \in Sid : srvState[x] = "open" /\ srvStudent[x] = s}

\* An administrator ends a session on the server.
AdminCloses(x) ==
  /\ srvState[x] = "open"
  /\ ServerCloses(x)
  /\ UNCHANGED <<rowVars, net, screen, liveVars, loginVars, finPc, recVars,
                 fetchVars, restarts>>

-----------------------------------------------------------------------------
(***************************************************************************)
(* Operations shared by several handlers.                                  *)
(***************************************************************************)
\* insertNewRiderSession, insertIfNecessaryRiderSession: a new last row,
\* which becomes localRiderSession.
InsertLiveRow(st, x, s) ==
  /\ rowCount < MaxRow
  /\ rowCount' = rowCount + 1
  /\ rowState' = [rowState EXCEPT ![rowCount + 1] = st]
  /\ rowSid' = [rowSid EXCEPT ![rowCount + 1] = x]
  /\ rowStudent' = [rowStudent EXCEPT ![rowCount + 1] = s]
  /\ UNCHANGED rowEnded
  /\ liveRow' = rowCount + 1 /\ liveState' = st /\ liveId' = x

\* continueInProgressSession on a row that is already in the table.
AttachLiveRow(r, x) ==
  /\ liveRow' = r /\ liveState' = rowState[r] /\ liveId' = x
  /\ UNCHANGED rowVars

\* resetDataSession
ResetDataSession ==
  liveRow' = NoRow /\ liveState' = START_OFFLINE /\ liveId' = NoSid

\* updateEndSessionInfo, in memory and in the table
RecordEnd(st) ==
  /\ liveState' = st
  /\ rowState' = [rowState EXCEPT ![liveRow] = st]
  /\ rowEnded' = rowEnded \cup {liveRow}
  /\ UNCHANGED <<rowCount, rowSid, rowStudent, liveRow, liveId>>

\* Mutant: a session opened offline is saved like one opened online.
SavedStateOnline == START_ONLINE_FINISH_OFFLINE

\* The state saveFinishSessionForReSend gives the live session.
SavedState == IF liveState = START_OFFLINE THEN START_FINISH_OFFLINE
              ELSE START_ONLINE_FINISH_OFFLINE

\* triggerRecoverSendOfflineData: recoverUploadInProgress is (recPc # "idle").
TriggerRecover ==
  /\ recPc' = IF recPc = "idle" THEN "list" ELSE recPc
  /\ UNCHANGED <<recTodo, recSid, snapState, snapSid, snapEnded>>

-----------------------------------------------------------------------------
(***************************************************************************)
(* Opening and resuming a session.                                         *)
(***************************************************************************)
LoginEnds == loginSid' = NoSid /\ loginStudent' = AnyStudent

\* getInProgressSessionByStudent, online: the server's session of s is to be
\* resumed; without one s goes on to start a session.
CheckOnline(s) ==
  /\ screen = "login" /\ net
  /\ \/ \E x \in InProgress(s) : screen' = "resume" /\ loginSid' = x
     \/ InProgress(s) = {} /\ screen' = "start" /\ loginSid' = NoSid
  /\ loginStudent' = s
  /\ UNCHANGED <<rowVars, srvVars, net, liveVars, finPc, recVars, fetchVars,
                 restarts>>

LastRowRunning == /\ rowCount > 0
                  /\ rowState[rowCount] \in {START_OFFLINE, START_ONLINE}

\* Offline, the last row decides: finished (or no row), s may start ...
CheckOffline(s) ==
  /\ screen = "login" /\ ~net /\ ~LastRowRunning
  /\ screen' = "start" /\ loginSid' = NoSid /\ loginStudent' = s
  /\ UNCHANGED <<rowVars, srvVars, net, liveVars, finPc, recVars, fetchVars,
                 restarts>>

\* Mutant: the local id is used although the row has a session id.
ContinueOfflineByLocalId(s) ==
  /\ screen = "login" /\ ~net /\ LastRowRunning
  /\ rowStudent[rowCount] = s
  /\ AttachLiveRow(rowCount, NoSid)
  /\ screen' = "session"
  /\ UNCHANGED <<srvVars, net, loginVars, finPc, recVars, fetchVars, restarts>>

\* ... still running, its student, and no other, goes on with it.
ContinueOffline(s) ==
  /\ screen = "login" /\ ~net /\ LastRowRunning
  /\ rowStudent[rowCount] = s
  /\ AttachLiveRow(rowCount, rowSid[rowCount])
  /\ screen' = "session"
  /\ UNCHANGED <<srvVars, net, loginVars, finPc, recVars, fetchVars, restarts>>

\* continueInProgressSession: the session goes on on its row, or on a new row
\* that takes the state of the session still in memory.
ContinueOnline ==
  /\ screen = "resume"
  /\ \/ \E r \in 1 .. rowCount : /\ rowSid[r] = loginSid
                               /\ AttachLiveRow(r, loginSid)
     \/ /\ \A r \in 1 .. rowCount : rowSid[r] # loginSid
        /\ InsertLiveRow(IF liveRow = NoRow THEN START_ONLINE ELSE liveState,
                         loginSid, loginStudent)
  /\ screen' = "session" /\ LoginEnds
  /\ UNCHANGED <<srvVars, net, finPc, recVars, fetchVars, restarts>>

\* startRiderSession looks at the network again.
StartOffline ==
  /\ screen = "start" /\ ~net
  /\ InsertLiveRow(START_OFFLINE, NoSid, loginStudent)
  /\ screen' = "session" /\ LoginEnds
  /\ UNCHANGED <<srvVars, net, finPc, recVars, fetchVars, restarts>>

\* The start call reaches the server; its reply comes later, or never.
StartOnlineCall ==
  /\ screen = "start" /\ net
  /\ \E x \in Sid : /\ ServerOpens(x, loginStudent)
                    /\ \/ /\ screen' = "starting" /\ loginSid' = x
                          /\ UNCHANGED loginStudent
                       \/ screen' = "login" /\ LoginEnds
  /\ UNCHANGED <<rowVars, net, liveVars, finPc, recVars,
                 fetchVars, restarts>>

StartOnlineReply ==
  /\ screen = "starting"
  /\ InsertLiveRow(START_ONLINE, loginSid, loginStudent)
  /\ screen' = "session" /\ LoginEnds
  /\ UNCHANGED <<srvVars, net, finPc, recVars, fetchVars, restarts>>

\* Back key, or a login that is refused: the ViewModel and its session, if
\* any, live on.
LeaveScreen ==
  /\ screen \in {"resume", "start", "session"}
  /\ screen' = "login" /\ LoginEnds
  /\ UNCHANGED <<rowVars, srvVars, net, liveVars, finPc, recVars,
                 fetchVars, restarts>>

-----------------------------------------------------------------------------
(***************************************************************************)
(* finishRiderSession, run by coroutine f.                                 *)
(***************************************************************************)
\* A callback that ends the session closes the screen that started it; that
\* screen may have been left already.
ScreenMayClose == screen' \in (IF screen = "session" THEN {"session", "login"}
                               ELSE {screen})

FinGoto(f, pc) == finPc' = [finPc EXCEPT ![f] = pc]

\* The user confirms, auto-logout fires, or the user gives up on TC.
FinishCall(f) ==
  /\ screen = "session" /\ liveRow # NoRow
  /\ finPc[f] = "idle"
  /\ FinGoto(f, "begin")
  /\ UNCHANGED <<rowVars, srvVars, net, screen, loginVars, liveVars, recVars,
                 fetchVars, restarts>>

\* No position: FINISH_RIDER_SESSION_FAIL_BY_LOCATION, the session goes on.
FinishNoLocation(f) ==
  /\ finPc[f] = "begin"
  /\ FinGoto(f, "idle")
  /\ UNCHANGED <<rowVars, srvVars, net, screen, loginVars, liveVars, recVars,
                 fetchVars, restarts>>

\* An exception of the online branch reaches the handler, and the screen closes
\* with nothing saved (FINISH_RIDER_SESSION_FAIL_UNKNOWN): the upload of the
\* logout image times out, or the session is gone when the call is made. The
\* offline branch uploads nothing.
FinishUnknown(f) ==
  /\ \/ finPc[f] = "begin" /\ net
     \/ finPc[f] = "call" /\ liveRow = NoRow
  /\ FinGoto(f, "idle")
  /\ ScreenMayClose
  /\ UNCHANGED <<rowVars, srvVars, net, loginVars, liveVars, recVars,
                 fetchVars, restarts>>

\* saveFinishSessionForReSend up to resetDataSession.
SaveFinish(f, pc) ==
  /\ liveRow # NoRow
  /\ RecordEnd(SavedState)
  /\ FinGoto(f, pc)

\* Without a session in memory it only logs, and the caller goes on.
NothingToSave(f) ==
  /\ liveRow = NoRow
  /\ FinGoto(f, "idle")
  /\ UNCHANGED <<rowVars, liveVars>>

FinishOffline(f) ==
  /\ finPc[f] = "begin" /\ ~net
  /\ SaveFinish(f, "savedOffline") \/ NothingToSave(f)
  /\ UNCHANGED <<srvVars, net, screen, loginVars, recVars, fetchVars, restarts>>

\* The logout image is uploaded; a null answer saves the finish instead.
FinishUploadImage(f) ==
  /\ finPc[f] = "begin" /\ net /\ liveRow # NoRow
  /\ \/ FinGoto(f, "call") /\ UNCHANGED <<rowVars, liveVars>>
     \/ SaveFinish(f, "savedOnline")
  /\ UNCHANGED <<srvVars, net, screen, loginVars, recVars, fetchVars, restarts>>

\* The finish call for inProgressSession.id. The server closes the session
\* or not, and the reply says success, failure (also when it is lost), or
\* that the session could not be pushed to TC: then the session is kept.
FinishSend(f) ==
  /\ finPc[f] = "call" /\ liveRow # NoRow
  /\ \/ /\ liveId # NoSid /\ net
        /\ ServerCloses(liveId)
        /\ \E pc \in {"ok", "refused", "idle"} : FinGoto(f, pc)
     \/ /\ \E pc \in {"refused", "idle"} : FinGoto(f, pc)
        /\ UNCHANGED srvVars
  /\ UNCHANGED <<rowVars, net, screen, loginVars, liveVars, recVars, fetchVars,
                 restarts>>

\* status = 1: the session in memory, if any, is marked finished online.
FinishOk(f) ==
  /\ finPc[f] = "ok"
  /\ IF liveRow = NoRow
     THEN FinGoto(f, "idle") /\ UNCHANGED <<rowVars, liveVars>>
     ELSE FinGoto(f, "done") /\ RecordEnd(START_ONLINE_FINISH_ONLINE)
  /\ UNCHANGED <<srvVars, net, screen, loginVars, recVars, fetchVars, restarts>>

FinishRefused(f) ==
  /\ finPc[f] = "refused"
  /\ \/ SaveFinish(f, "savedOnline") /\ UNCHANGED recVars
     \/ NothingToSave(f) /\ TriggerRecover
  /\ UNCHANGED <<srvVars, net, screen, loginVars, fetchVars, restarts>>

\* After the report is exported: reset, and on the online failure paths
\* trigger the resend.
FinishReset(f) ==
  /\ finPc[f] \in {"savedOffline", "savedOnline", "done"}
  /\ FinGoto(f, "idle")
  /\ ResetDataSession
  /\ IF finPc[f] = "savedOnline" THEN TriggerRecover ELSE UNCHANGED recVars
  /\ ScreenMayClose
  /\ UNCHANGED <<rowVars, srvVars, net, loginVars, fetchVars, restarts>>

-----------------------------------------------------------------------------
(***************************************************************************)
(* fetchCurrentSession and the logout an administrator forces.             *)
(***************************************************************************)
FetchSend ==
  /\ screen = "session" /\ net /\ liveRow # NoRow
  /\ fetchPc # "ended"
  /\ fetchPc' = "asked" /\ fetchSid' = liveId
  /\ UNCHANGED <<rowVars, srvVars, net, screen, loginVars, liveVars, finPc,
                 recVars, restarts>>

FetchEnds == fetchPc' = "idle" /\ fetchSid' = NoSid

\* status = 1, an error, or a reply that finds no session in memory
FetchReply ==
  /\ fetchPc = "asked"
  /\ FetchEnds
  /\ UNCHANGED <<rowVars, srvVars, net, screen, loginVars, liveVars, finPc,
                 recVars, restarts>>

\* The answer is status 0 when the session asked about is over.
FetchSaysEnded == IF fetchSid = NoSid THEN UnknownIdIsEnded
                  ELSE srvState[fetchSid] = "closed"

\* status = 0: the session asked about is over. adminLogoutHandler ends the
\* session that is in memory now.
FetchForcesLogout ==
  /\ fetchPc = "asked"
  /\ FetchSaysEnded
  /\ liveRow # NoRow
  /\ RecordEnd(START_ONLINE_FINISH_ONLINE)
  /\ fetchPc' = "ended" /\ UNCHANGED fetchSid
  /\ UNCHANGED <<srvVars, net, screen, loginVars, finPc, recVars, restarts>>

\* Without a face image to file nothing is ended, and only the screen closes.
FetchForcesLogoutNoImage ==
  /\ fetchPc = "asked"
  /\ FetchSaysEnded
  /\ liveRow # NoRow
  /\ FetchEnds /\ ScreenMayClose
  /\ UNCHANGED <<rowVars, srvVars, net, loginVars, liveVars, finPc, recVars,
                 restarts>>

FetchLogoutDone ==
  /\ fetchPc = "ended"
  /\ ResetDataSession
  /\ FetchEnds /\ ScreenMayClose
  /\ UNCHANGED <<rowVars, srvVars, net, loginVars, finPc, recVars, restarts>>

-----------------------------------------------------------------------------
(***************************************************************************)
(* recoverSendOfflineData. Rows are handled in the order of their ids.     *)
(***************************************************************************)
Finished(st) == st \in {START_FINISH_OFFLINE, START_ONLINE_FINISH_OFFLINE}

\* Mutants: the last row is listed like the others; only what is left to
\* finish is listed.
ListRowsWithLast ==
  {r \in 1 .. rowCount : rowState[r] # START_ONLINE_FINISH_ONLINE}
ListRowsToFinish ==
  {r \in 1 .. rowCount : rowState[r] = START_ONLINE_FINISH_OFFLINE}

\* Steps 1 to 3: the rows not finished online, without the last of them
\* when it is not finished.
ListRows ==
  LET notDone == {r \in 1 .. rowCount :
                    rowState[r] # START_ONLINE_FINISH_ONLINE}
  IN {r \in notDone : Finished(rowState[r]) \/ \E q \in notDone : q > r}

RecList ==
  /\ recPc = "list"
  /\ recTodo' = ListRows
  /\ recPc' = IF ListRows = {} THEN "idle" ELSE "session"
  /\ snapState' = [r \in RowId |-> IF r \in ListRows THEN rowState[r]
                                   ELSE START_OFFLINE]
  /\ snapSid' = [r \in RowId |-> IF r \in ListRows THEN rowSid[r] ELSE NoSid]
  /\ snapEnded' = rowEnded \cap ListRows
  /\ UNCHANGED <<rowVars, srvVars, net, screen, liveVars, loginVars, finPc,
                 recSid, fetchVars, restarts>>

Current(r) == r \in recTodo /\ \A q \in recTodo : r <= q

\* Mutant: the flag is not given back after the last row.
RecAdvanceKeepsFlag(r) ==
  /\ recTodo' = recTodo \ {r}
  /\ recPc' = "session"
  /\ snapState' = [snapState EXCEPT ![r] = START_OFFLINE]
  /\ snapSid' = [snapSid EXCEPT ![r] = NoSid]
  /\ snapEnded' = snapEnded \ {r}
  /\ recSid' = NoSid

\* The loop leaves row r; after the last row recoverUploadInProgress is reset.
RecAdvance(r) ==
  /\ recTodo' = recTodo \ {r}
  /\ recPc' = IF recTodo = {r} THEN "idle" ELSE "session"
  /\ snapState' = [snapState EXCEPT ![r] = START_OFFLINE]
  /\ snapSid' = [snapSid EXCEPT ![r] = NoSid]
  /\ snapEnded' = snapEnded \ {r}
  /\ recSid' = NoSid

NotStarted(st) == st \in {START_OFFLINE, START_FINISH_OFFLINE}

\* Mutant: the student in the car is sent, not the row's.
RecStartForLiveStudent(r) ==
  /\ recPc = "session" /\ Current(r) /\ NotStarted(snapState[r])
  /\ net
  /\ \E x \in Sid :
       /\ ServerOpens(x, rowStudent[IF liveRow = NoRow THEN r ELSE liveRow])
       /\ recSid' = x
  /\ recPc' = "startReply"
  /\ UNCHANGED <<rowVars, net, screen, liveVars, loginVars, finPc, recTodo,
                 snapState, snapSid, snapEnded, fetchVars, restarts>>

\* Step 4.1: the start call reaches the server and its reply will arrive
RecStart(r) ==
  /\ recPc = "session" /\ Current(r) /\ NotStarted(snapState[r])
  /\ net
  /\ \E x \in Sid : ServerOpens(x, rowStudent[r]) /\ recSid' = x
  /\ recPc' = "startReply"
  /\ UNCHANGED <<rowVars, net, screen, liveVars, loginVars, finPc, recTodo,
                 snapState, snapSid, snapEnded, fetchVars, restarts>>

\* ... or it fails, or its reply is lost: the row is left as it is.
RecStartFails(r) ==
  /\ recPc = "session" /\ Current(r) /\ NotStarted(snapState[r])
  /\ \/ UNCHANGED srvVars
     \/ net /\ \E x \in Sid : ServerOpens(x, rowStudent[r])
  /\ RecAdvance(r)
  /\ UNCHANGED <<rowVars, net, screen, liveVars, loginVars, finPc, fetchVars,
                 restarts>>

\* Mutant: the finish already recorded is forgotten.
PromotedToRunning(st) == START_ONLINE

Promoted(st) == IF st = START_OFFLINE THEN START_ONLINE
                ELSE START_ONLINE_FINISH_OFFLINE

\* Mutant: the session in memory keeps its local id.
RecStartReplyInTableOnly(r) ==
  /\ recPc = "startReply" /\ Current(r)
  /\ rowSid' = [rowSid EXCEPT ![r] = recSid]
  /\ rowState' = [rowState EXCEPT ![r] = Promoted(snapState[r])]
  /\ snapSid' = [snapSid EXCEPT ![r] = recSid]
  /\ snapState' = [snapState EXCEPT ![r] = Promoted(snapState[r])]
  /\ recPc' = "session" /\ recSid' = NoSid
  /\ UNCHANGED <<rowCount, rowStudent, rowEnded, srvVars, net, screen, liveVars,
                 loginVars, finPc, recTodo, snapEnded, fetchVars,
                 restarts>>

\* Mutant: the copy goes on saying that the session is to be started.
RecStartReplyOldCopy(r) ==
  /\ recPc = "startReply" /\ Current(r)
  /\ rowSid' = [rowSid EXCEPT ![r] = recSid]
  /\ rowState' = [rowState EXCEPT ![r] = Promoted(snapState[r])]
  /\ snapSid' = [snapSid EXCEPT ![r] = recSid]
  /\ liveId' = IF liveRow = r THEN recSid ELSE liveId
  /\ recPc' = "session" /\ recSid' = NoSid
  /\ UNCHANGED <<rowCount, rowStudent, rowEnded, srvVars, net, screen, liveRow,
                 liveState, loginVars, finPc, recTodo, snapState, snapEnded,
                 fetchVars, restarts>>

\* updateStartSessionToOnline writes what the snapshot says, not the row.
RecStartReply(r) ==
  /\ recPc = "startReply" /\ Current(r)
  /\ rowSid' = [rowSid EXCEPT ![r] = recSid]
  /\ rowState' = [rowState EXCEPT ![r] = Promoted(snapState[r])]
  /\ snapSid' = [snapSid EXCEPT ![r] = recSid]
  /\ snapState' = [snapState EXCEPT ![r] = Promoted(snapState[r])]
  /\ liveId' = IF liveRow = r THEN recSid ELSE liveId
  /\ recPc' = "session" /\ recSid' = NoSid
  /\ UNCHANGED <<rowCount, rowStudent, rowEnded, srvVars, net, screen, liveRow,
                 liveState, loginVars, finPc, recTodo, snapEnded, fetchVars,
                 restarts>>

\* A running session: only its data are sent.
RecSkip(r) ==
  /\ recPc = "session" /\ Current(r)
  /\ snapState[r] = START_ONLINE
  /\ RecAdvance(r)
  /\ UNCHANGED <<rowVars, srvVars, net, screen, liveVars, loginVars, finPc,
                 fetchVars, restarts>>

\* Mutant: a reply with status 0 does not count as an error.
RecFinishAnyStatus(r) ==
  /\ recPc = "session" /\ Current(r)
  /\ snapState[r] = START_ONLINE_FINISH_OFFLINE
  /\ snapSid[r] # NoSid /\ r \in snapEnded /\ net
  /\ recPc' = "finReply"
  /\ UNCHANGED <<rowVars, srvVars, net, screen, liveVars, loginVars, finPc,
                 recTodo, recSid, snapState, snapSid, snapEnded,
                 fetchVars, restarts>>

\* Mutant: whatever has an id is finished.
RecFinishRunning(r) ==
  /\ recPc = "session" /\ Current(r)
  /\ snapSid[r] # NoSid /\ net
  /\ ServerCloses(snapSid[r])
  /\ recPc' = "finReply"
  /\ UNCHANGED <<rowVars, net, screen, liveVars, loginVars, finPc, recTodo,
                 recSid, snapState, snapSid, snapEnded, fetchVars, restarts>>

\* Step 4.3: the finish call, with coverReSend; it needs a session id, and the
\* data a finish recorded on the row.
RecFinish(r) ==
  /\ recPc = "session" /\ Current(r)
  /\ snapState[r] = START_ONLINE_FINISH_OFFLINE
  /\ snapSid[r] # NoSid /\ r \in snapEnded /\ net
  /\ ServerCloses(snapSid[r])
  /\ recPc' = "finReply"
  /\ UNCHANGED <<rowVars, net, screen, liveVars, loginVars, finPc, recTodo,
                 recSid, snapState, snapSid, snapEnded, fetchVars, restarts>>

RecFinishFails(r) ==
  /\ recPc = "session" /\ Current(r)
  /\ snapState[r] = START_ONLINE_FINISH_OFFLINE
  /\ \/ UNCHANGED srvVars
     \/ snapSid[r] # NoSid /\ r \in snapEnded /\ net /\ ServerCloses(snapSid[r])
  /\ RecAdvance(r)
  /\ UNCHANGED <<rowVars, net, screen, liveVars, loginVars, finPc, fetchVars,
                 restarts>>

\* updateSessionUploadState
RecFinishReply(r) ==
  /\ recPc = "finReply" /\ Current(r)
  /\ rowState' = [rowState EXCEPT ![r] = START_ONLINE_FINISH_ONLINE]
  /\ RecAdvance(r)
  /\ UNCHANGED <<rowCount, rowSid, rowStudent, rowEnded, srvVars, net, screen,
                 liveVars, loginVars, finPc, fetchVars, restarts>>

-----------------------------------------------------------------------------
(***************************************************************************)
(* The network and the process.                                            *)
(***************************************************************************)
NetworkAvailable ==
  /\ net' = TRUE
  /\ TriggerRecover
  /\ UNCHANGED <<rowVars, srvVars, screen, liveVars, loginVars, finPc,
                 fetchVars, restarts>>

NetworkLost ==
  /\ net
  /\ net' = FALSE
  /\ UNCHANGED <<rowVars, srvVars, screen, liveVars, loginVars, finPc, recVars,
                 fetchVars, restarts>>

\* The process dies and is started again: only the table survives, and
\* NETWORK_INIT triggers the recovery.
Restart ==
  /\ restarts < MaxRestart
  /\ restarts' = restarts + 1
  /\ screen' = "login"
  /\ ResetDataSession
  /\ LoginEnds
  /\ finPc' = [f \in Finisher |-> "idle"]
  /\ recPc' = IF net THEN "list" ELSE "idle"
  /\ recTodo' = {}
  /\ snapState' = [r \in RowId |-> START_OFFLINE]
  /\ snapSid' = [r \in RowId |-> NoSid]
  /\ snapEnded' = {}
  /\ recSid' = NoSid
  /\ FetchEnds
  /\ UNCHANGED <<rowVars, srvVars, net>>

-----------------------------------------------------------------------------
Login == \/ \E s \in Student : \/ CheckOnline(s) \/ CheckOffline(s)
                              \/ ContinueOffline(s)
         \/ ContinueOnline
         \/ StartOffline \/ StartOnlineCall \/ StartOnlineReply
         \/ LeaveScreen

Finish(f) == \/ FinishCall(f) \/ FinishNoLocation(f) \/ FinishUnknown(f)
             \/ FinishOffline(f) \/ FinishUploadImage(f) \/ FinishSend(f)
             \/ FinishOk(f) \/ FinishRefused(f) \/ FinishReset(f)

RecoverRow(r) == \/ RecStart(r) \/ RecStartFails(r) \/ RecStartReply(r)
                 \/ RecSkip(r)
                 \/ RecFinish(r) \/ RecFinishFails(r) \/ RecFinishReply(r)

Next ==
  \/ Login
  \/ \E f \in Finisher : Finish(f)
  \/ FetchSend \/ FetchReply \/ FetchForcesLogout \/ FetchForcesLogoutNoImage
  \/ FetchLogoutDone
  \/ RecList \/ \E r \in RowId : RecoverRow(r)
  \/ NetworkAvailable \/ NetworkLost \/ Restart
  \/ \E x \in Sid : AdminCloses(x)

Spec == Init /\ [][Next]_vars

-----------------------------------------------------------------------------
Unfinished(st) == st \in {START_OFFLINE, START_ONLINE}

(* The inductive invariant, in parts.                                      *)

\* Ids held by a login are of sessions the server opened for its student.
LoginSound ==
  screen \in {"resume", "starting"} =>
    loginSid \in Sid /\ srvState[loginSid] # "unused"
      /\ srvStudent[loginSid] = loginStudent

FreshRows == \A r \in RowId : r > rowCount => rowState[r] = START_OFFLINE
                                              /\ rowSid[r] = NoSid

\* A session in memory that the server does not know is the last row.
LiveSound ==
  liveRow # NoRow => /\ liveId = rowSid[liveRow]
                     /\ rowSid[liveRow] = NoSid => liveRow = rowCount

\* What the recovery still has to do agrees with the table: its snapshot may
\* be old, but not about an id, not about an offline session being over, and
\* an offline session still running is never the one in memory.
SnapshotSound ==
  \A r \in recTodo :
    /\ snapSid[r] = rowSid[r]
    /\ rowSid[r] = NoSid =>
         IF Unfinished(snapState[r])
         THEN Unfinished(rowState[r]) /\ r < rowCount /\ liveRow # r
         ELSE ~Unfinished(rowState[r])

\* A reply the recovery waits for is about its current row.
ReplySound ==
  \A r \in recTodo : Current(r) =>
    /\ recPc = "startReply" =>
         /\ NotStarted(snapState[r])
         /\ recSid \in Sid /\ srvState[recSid] # "unused"
         /\ srvStudent[recSid] = rowStudent[r]
    /\ recPc = "finReply" =>
         snapSid[r] \in Sid /\ srvState[snapSid[r]] = "closed"

\* inProgressSession and localRiderSession are two variables for one session:
\* calls use the id of the first, the table is written through the second.
\* The id in memory is the id on the row, also after the recovery has opened
\* the session under the user's hands.
LiveIdIsRow == liveRow # NoRow => liveId = rowSid[liveRow]

\* The id on a row is of a session the server opened for that row's student,
\* whichever path wrote it: a login, a resumed session or the recovery.
SidOfStudent ==
  \A r \in 1 .. rowCount :
    rowSid[r] # NoSid => /\ srvState[rowSid[r]] # "unused"
                         /\ srvStudent[rowSid[r]] = rowStudent[r]

\* What the theorems are proved from: the two invariants above hold because
\* the login, the session in memory and the recovery agree with the table.
IInv == /\ TypeOK /\ FreshRows /\ LoginSound /\ LiveSound
        /\ SnapshotSound /\ ReplySound /\ SidOfStudent

\* An offline session that was finished stays finished: the recovery, which
\* writes from a snapshot, never puts it back to a running state.
OfflineFinishKept ==
  [][\A r \in RowId :
       rowSid[r] = NoSid /\ ~Unfinished(rowState[r])
         => ~Unfinished(rowState'[r])]_vars

\* The recovery gives a row its session id only when the session is finished,
\* or is not the one the user is in.
RunningNotPushed ==
  [][\A r \in RowId :
       r = liveRow /\ rowSid[r] = NoSid /\ rowSid'[r] # NoSid
         => ~Unfinished(rowState[r])]_vars

\* The recovery ends no session that is not over: what it has copied long ago
\* and sends now is still so. The app closes a session on the server for a row
\* that is in memory or no longer running, and for no other.
ClosedIsOver ==
  [][\A x \in Sid :
       srvState[x] # "closed" /\ srvState'[x] = "closed" /\ ~AdminCloses(x) =>
         \E r \in 1 .. rowCount :
           rowSid[r] = x /\ (r = liveRow \/ ~Unfinished(rowState[r]))]_vars

\* Whatever the recovery finds, it can go on without the network: it has a row
\* to handle, and a case for that row. A flag that is set with nothing to do, or
\* a row no case is for, would keep every later trigger from starting it.
RecoveryCanGoOn ==
  recPc \in {"session", "startReply", "finReply"} =>
    \E r \in recTodo :
      /\ Current(r)
      /\ recPc = "session" => \/ NotStarted(snapState[r])
                             \/ snapState[r] = START_ONLINE
                             \/ snapState[r] = START_ONLINE_FINISH_OFFLINE

\* How far the recovery has got with its current row: to be started, waiting
\* for the start reply, started, waiting for the finish reply.
StepsLeft(r) == IF recPc = "startReply" THEN 3
                ELSE IF recPc = "finReply" THEN 1
                ELSE IF NotStarted(snapState[r]) THEN 4 ELSE 2

\* Every step of the recovery takes it nearer its end: no row is handled twice,
\* and no trigger, login or finish meanwhile gives it more to do.
RecoveryAdvances ==
  [][\A r \in recTodo : Current(r) =>
       \/ UNCHANGED recVars
       \/ recTodo' \subseteq recTodo \ {r}
       \/ recTodo' = recTodo /\ StepsLeft(r)' < StepsLeft(r)]_vars

\* A finish can be resent at all if the row has the data of its finish, and an
\* id or the state of a row still to get one.
Resendable(r) == /\ r \in rowEnded
                 /\ \/ rowState[r] = START_FINISH_OFFLINE
                    \/ /\ rowState[r] = START_ONLINE_FINISH_OFFLINE
                       /\ rowSid[r] # NoSid

\* A finish that is saved for a running session can be resent: the state in
\* memory, which decides what is saved, may be another one than the row's, and
\* the recovery may be about to write what it copied before.
FirstSaveIsResendable ==
  [][\A r \in 1 .. rowCount :
       Unfinished(rowState[r]) /\ Finished(rowState'[r]) => Resendable(r)']_vars

\* The finish of an offline session that can be resent stays so, whatever comes
\* between saving and sending it: logins, recoveries, process deaths; unless the
\* session is still in memory, where a second finish can spoil it.
OfflineFinishStaysResendable ==
  [][\A r \in RowId :
       Resendable(r) /\ rowSid[r] = NoSid /\ liveRow # r => Resendable(r)']_vars

\* What decides whether a saved finish can be resent: an offline session that
\* runs is not taken for one opened online, in memory is what is in the table,
\* and the recovery's copy does not know of a finish the table has not.
ResendSound ==
  /\ \A r \in 1 .. rowCount : rowSid[r] = NoSid => rowState[r] # START_ONLINE
  /\ liveRow # NoRow /\ rowSid[liveRow] = NoSid => liveState = rowState[liveRow]
  /\ \A r \in recTodo : ~Unfinished(snapState[r]) => ~Unfinished(rowState[r])

FinSaved(f) == finPc[f] \in {"savedOffline", "savedOnline"}

\* Finishes do not overlap, and the server does not end what it does not know.
LoneCalls == ~UnknownIdIsEnded /\ \A f, g \in Finisher : f = g

\* As long as the only row has no id, nobody can have been told that its
\* session is over,
Untold ==
  rowCount = 0 \/ rowSid[1] = NoSid =>
    fetchSid = NoSid /\ \A f \in Finisher : finPc[f] # "ok"

\* it is saved once while it is in memory, with the data of its finish,
SavedOnce ==
  /\ Finished(rowState[1]) => 1 \in rowEnded
  /\ rowSid[1] = NoSid => NotStarted(rowState[1])
  /\ liveRow = 1 /\ rowSid[1] = NoSid /\ Finished(rowState[1])
       => \E f \in Finisher : FinSaved(f)

\* and the recovery has it on its list only when it was finished.
ListedIsOver == 1 \in recTodo => Finished(snapState[1]) /\ 1 \in rowEnded

LoneSound ==
  LoneCalls /\ rowCount <= 1 =>
    /\ Untold
    /\ rowCount = 1 => SavedOnce /\ ListedIsOver

LoneInv == ResendSound /\ LoneSound

\* With one row, finishes that do not overlap, and a server that does not call
\* an id it never issued ended, every finish that is saved can be resent: it
\* takes a second row, a second finish of the session in memory, or such an
\* answer, to save one that cannot.
LoneFinishIsResendable ==
  LoneCalls /\ rowCount = 1 /\ Finished(rowState[1]) => Resendable(1)

\* A saved finish leaves the queue, other than through the session in memory,
\* only when the server has closed that row's session.
ResendLeavesClosed ==
  [][\A r \in RowId :
       /\ Finished(rowState[r]) /\ rowState'[r] = START_ONLINE_FINISH_ONLINE
       /\ liveRow # r
       => rowSid[r] # NoSid /\ srvState[rowSid[r]] = "closed"]_vars

-----------------------------------------------------------------------------
(***************************************************************************)
(* The sessions as other components see them.                              *)
(***************************************************************************)
RowStatus ==
  [r \in RowId |-> IF Unfinished(rowState[r]) THEN "running"
                   ELSE IF Finished(rowState[r]) THEN "finished" ELSE "sent"]

Table == INSTANCE SessionTable
           WITH count <- rowCount, status <- RowStatus, sid <- rowSid,
                live <- liveRow

\* The life of the sessions, with all its coroutines, calls and old copies, is
\* one the abstract table allows: no row is lost or comes back to life, ids go
\* to the right rows, and the recovery leaves the user's session alone.
ImplementsTable == Table!TableSpec

-----------------------------------------------------------------------------
(* Statements of the documentation that the code does not meet.            *)

\* docs/finish-session-flow.md, invariant 1: every finish that fails is saved
\* for the recovery. A finish that closes the screen leaves a session finished.
FailedFinishIsSaved ==
  [][\A f \in Finisher :
       /\ finPc[f] # "idle" /\ finPc'[f] = "idle" /\ liveRow # NoRow
       /\ screen = "session" /\ screen' = "login"
       => ~Unfinished(rowState[liveRow])]_vars

\* docs/finish-session-flow.md, invariant 2: state 4 is set only when the
\* server confirms the session is closed.
FinishedOnlineIsClosed ==
  \A r \in 1 .. rowCount :
    rowState[r] = START_ONLINE_FINISH_ONLINE /\ rowSid[r] # NoSid
      => srvState[rowSid[r]] = "closed"
=============================================================================
