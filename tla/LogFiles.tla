------------------------------ MODULE LogFiles ------------------------------
(***************************************************************************)
(* Uploading the log files of the training sessions: LogRecorder names the *)
(* file of the session, pushLogFile uploads it when the session has been   *)
(* finished and marks the session's row, and recoverSendLogFilesFail sends *)
(* the logs of the rows without the mark when the network is back          *)
(* (RiderSessionViewModel.kt). What is in a file, and the deletion of old  *)
(* ones, are left out. A file is its session and whether its name has the  *)
(* suffix of login time and status.                                        *)
(***************************************************************************)
EXTENDS Integers

CONSTANT MaxLog  \* sessions opened (bound)

ASSUME MaxLogIsNat == MaxLog \in Nat

Log == 1 .. MaxLog
NoSession == 0
File == Log \X BOOLEAN
NoFile == <<NoSession, FALSE>>
Push == {NoSession} \cup Log  \* by the history screen, or the end of a session

VARIABLES
  rows,        \* how many rows rider_session has; a row is its session
  finished,    \* the sessions that have been finished
  inMemory,    \* localRiderSession
  record,      \* LogRecorder.recordLogFile
  disk,        \* the log files there are
  push,        \* where each pushLogFile is, and the file it uploads
  marked,      \* the rows with isSentLogState
  server,      \* the sessions whose log the server has
  recovering,  \* recoverUploadLogFiles
  recover      \* where recoverSendLogFilesFail is, and the rows it found

pushVars == <<record, push, marked>>
recoverVars == <<recovering, recover>>
logVars == <<rows, finished, inMemory, disk, server, pushVars, recoverVars>>

NoPush == [at |-> "none", file |-> NoFile]
NoRecovery == [at |-> "none", rows |-> {}]

LogInit == /\ rows = 0 /\ finished = {} /\ inMemory = NoSession
           /\ record = NoFile /\ disk = {}
           /\ push = [p \in Push |-> NoPush]
           /\ marked = {} /\ server = {}
           /\ recovering = FALSE /\ recover = NoRecovery
-----------------------------------------------------------------------------
OpenSession == /\ inMemory = NoSession /\ rows < MaxLog
               /\ rows' = rows + 1 /\ inMemory' = rows + 1
               /\ UNCHANGED <<finished, disk, server, pushVars, recoverVars>>

CreateLogFile(s, suffix) == /\ record' = <<s, suffix>>
                            /\ disk' = disk \cup {<<s, suffix>>}

\* The screen creates the file of a new session, with a suffix.
SessionStarted == /\ inMemory \in Log \ finished
                  /\ \A suffix \in BOOLEAN : <<inMemory, suffix>> \notin disk
                  /\ CreateLogFile(inMemory, TRUE)
                  /\ UNCHANGED <<rows, finished, inMemory, push, marked, server, recoverVars>>

\* After a restart; the time and status of the login may not be known.
ContinueSession == /\ inMemory = NoSession
                   /\ \E s \in (1 .. rows) \ finished, suffix \in BOOLEAN :
                        inMemory' = s /\ CreateLogFile(s, suffix)
                   /\ UNCHANGED <<rows, finished, push, marked, server, recoverVars>>

\* pushLogFile begins with a pause; the session is reset meanwhile.
FinishSession == /\ inMemory # NoSession
                 /\ \E suffix \in BOOLEAN : <<inMemory, suffix>> \in disk
                 /\ finished' = finished \cup {inMemory}
                 /\ push' = [push EXCEPT ![inMemory] = [at |-> "pause", file |-> NoFile]]
                 /\ inMemory' = NoSession
                 /\ UNCHANGED <<rows, record, disk, marked, server, recoverVars>>

PushFromHistory == /\ push[NoSession].at = "none"
                   /\ push' = [push EXCEPT ![NoSession].at = "pause"]
                   /\ UNCHANGED <<rows, finished, inMemory, record, disk, marked,
                                  server, recoverVars>>

\* recordLogFile!! fails if there is no file.
PushBegins(p) ==
  /\ push[p].at = "pause"
  /\ IF record = NoFile THEN push' = [push EXCEPT ![p] = NoPush]
     ELSE \E at \in {"upload", "failed"} :
            push' = [push EXCEPT ![p] = [at |-> at, file |-> record]]
  /\ UNCHANGED <<rows, finished, inMemory, record, disk, marked, server, recoverVars>>

PushUploads(p) ==
  /\ push[p].at = "upload"
  /\ \/ /\ push' = [push EXCEPT ![p].at = "sent"]
        /\ server' = server \cup {push[p].file[1]}
     \/ push' = [push EXCEPT ![p].at = "failed"] /\ UNCHANGED server
  /\ UNCHANGED <<rows, finished, inMemory, record, disk, marked, recoverVars>>

\* The row marked is that of the session in memory. Without one, or when the
\* file is not recorded any more, this fails, and the rest is not done.
PushMarks(p) ==
  /\ push[p].at \in {"sent", "failed"}
  /\ push' = [push EXCEPT ![p] = NoPush]
  /\ IF inMemory = NoSession \/ record = NoFile
     THEN UNCHANGED <<marked, record>>
     ELSE /\ marked' = IF push[p].at = "sent" THEN marked \cup {inMemory}
                                              ELSE marked \ {inMemory}
          /\ record' = NoFile
  /\ UNCHANGED <<rows, finished, inMemory, disk, server, recoverVars>>
-----------------------------------------------------------------------------
\* onNetworkUpdate
NetworkAvailable == /\ ~recovering
                    /\ recovering' = TRUE
                    /\ recover' = [at |-> "list", rows |-> {}]
                    /\ UNCHANGED <<rows, finished, inMemory, disk, server, pushVars>>

RecoverLists == /\ recover.at = "list"
                /\ recover' = [at |-> "upload", rows |-> (1 .. rows) \ marked]
                /\ UNCHANGED <<rows, finished, inMemory, disk, server, pushVars, recovering>>

\* The name the recovery gives a log has no suffix.
RecoveryFile(s) == <<s, FALSE>>

RecoverEnds == recovering' = FALSE /\ recover' = NoRecovery

\* Mutant: when a file is missing the recovery returns early, with the flag set.
RecoverUploadsOrReturns ==
  /\ recover.at = "upload" /\ recover.rows # {}
  /\ IF \A s \in recover.rows : RecoveryFile(s) \in disk
     THEN /\ server' = server \cup recover.rows
          /\ recover' = [recover EXCEPT !.at = "mark"]
     ELSE recover' = NoRecovery /\ UNCHANGED server
  /\ UNCHANGED <<rows, finished, inMemory, disk, pushVars, recovering>>

\* Mutant: files that are missing are left out, and all rows marked.
RecoverUploadsFound ==
  LET found == {s \in recover.rows : RecoveryFile(s) \in disk}
  IN /\ recover.at = "upload"
     /\ IF found # {} THEN /\ server' = server \cup found
                           /\ recover' = [recover EXCEPT !.at = "mark"]
                           /\ UNCHANGED recovering
                      ELSE RecoverEnds /\ UNCHANGED server
     /\ UNCHANGED <<rows, finished, inMemory, disk, pushVars>>

\* All files in one request: it fails if one is missing, or there is none.
RecoverUploads ==
  /\ recover.at = "upload"
  /\ IF recover.rows # {} /\ \A s \in recover.rows : RecoveryFile(s) \in disk
     THEN /\ server' = server \cup recover.rows
          /\ recover' = [recover EXCEPT !.at = "mark"]
          /\ UNCHANGED recovering
     ELSE RecoverEnds /\ UNCHANGED server
  /\ UNCHANGED <<rows, finished, inMemory, disk, pushVars>>

\* The network or the server fails.
RecoverFails == /\ recover.at = "upload"
                /\ RecoverEnds
                /\ UNCHANGED <<rows, finished, inMemory, disk, server, pushVars>>

RecoverMarks == /\ recover.at = "mark"
                /\ marked' = marked \cup recover.rows
                /\ RecoverEnds
                /\ UNCHANGED <<rows, finished, inMemory, disk, server, record, push>>

Restart == /\ inMemory' = NoSession /\ record' = NoFile
           /\ push' = [p \in Push |-> NoPush]
           /\ RecoverEnds
           /\ UNCHANGED <<rows, finished, disk, marked, server>>
-----------------------------------------------------------------------------
Recovery == RecoverLists \/ RecoverUploads \/ RecoverFails \/ RecoverMarks

LogNext ==
  \/ OpenSession \/ SessionStarted \/ ContinueSession \/ FinishSession
  \/ PushFromHistory
  \/ \E p \in Push : PushBegins(p) \/ PushUploads(p) \/ PushMarks(p)
  \/ NetworkAvailable \/ Recovery \/ Restart

LogSpec == LogInit /\ [][LogNext]_logVars
-----------------------------------------------------------------------------
LogType ==
  /\ rows \in 0 .. MaxLog /\ finished \subseteq 1 .. rows
  /\ inMemory \in (0 .. rows) \ finished
  /\ record \in File \cup {NoFile} /\ disk \subseteq File
  /\ push \in [Push -> [at : {"none", "pause", "upload", "sent", "failed"},
                        file : File \cup {NoFile}]]
  /\ marked \subseteq 1 .. rows /\ server \subseteq 1 .. rows
  /\ recovering <=> recover.at # "none"
  /\ recover \in [at : {"none", "list", "upload", "mark"}, rows : SUBSET (1 .. rows)]

\* A row is marked, by a push or by the recovery, after the server has taken its
\* log, whatever happened since the rows were listed or the upload began. The one
\* exception: a push of another session's log ends while the row is in memory.
OnlySentIsMarked ==
  [][\A s \in marked' \ marked :
       \/ s \in server
       \/ s = inMemory /\ \E p \in Push : push[p].at = "sent" /\ push[p].file[1] # s]_logVars

\* A recovery ends, with success or without, and gives back the flag that keeps
\* the next one from being started.
LogRecoveryEnds == recovering ~> ~recovering
=============================================================================
