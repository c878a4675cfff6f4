--------------------------- MODULE LogFilesProofs ---------------------------
(***************************************************************************)
(* Proofs about LogFiles, for any number of sessions: its types, with the  *)
(* flag of the recovery among them, and that a mark means a log that was   *)
(* sent. A file is only ever named after a session there is, which a type  *)
(* alone does not say.                                                     *)
(***************************************************************************)
EXTENDS LogFiles, TLAPS

\* Files, on the disk, recorded or uploaded, are of sessions there are.
FilesOf(n) == (1 .. n) \X BOOLEAN

Uploading == {"upload", "sent", "failed"}

FilesOfSessions ==
  /\ disk \subseteq FilesOf(rows)
  /\ record \in FilesOf(rows) \cup {NoFile}
  /\ \A p \in Push : push[p].at \in Uploading => push[p].file \in FilesOf(rows)

LogInv == LogType /\ FilesOfSessions

PushState == [at : {"none", "pause", "upload", "sent", "failed"},
              file : File \cup {NoFile}]
RecoveryState(n) == [at : {"none", "list", "upload", "mark"}, rows : SUBSET (1 .. n)]

LEMMA FilesGrow ==
  ASSUME NEW m \in Nat, NEW n \in Nat, m <= n
  PROVE  FilesOf(m) \subseteq FilesOf(n)
BY DEF FilesOf

LEMMA FilesAreFiles ==
  ASSUME NEW n \in 0 .. MaxLog
  PROVE  FilesOf(n) \subseteq File
BY MaxLogIsNat DEF FilesOf, File, Log
-----------------------------------------------------------------------------
\* A push goes on.
LEMMA PushGoes ==
  ASSUME LogInv, NEW p \in Push, NEW c \in PushState,
         c.at \in Uploading => c.file \in FilesOf(rows),
         push' = [push EXCEPT ![p] = c]
  PROVE  /\ push' \in [Push -> PushState]
         /\ \A q \in Push : push'[q].at \in Uploading => push'[q].file \in FilesOf(rows)
<1>1. push \in [Push -> PushState]
  BY DEF LogInv, LogType, PushState
<1>2. QED  BY <1>1 DEF LogInv, FilesOfSessions

LEMMA NoPushIsState == NoPush \in PushState /\ NoPush.at \notin Uploading
BY DEF NoPush, PushState, Uploading

\* Sessions are opened, continued and finished.
LEMMA SessionSteps ==
  ASSUME LogInv, OpenSession \/ SessionStarted \/ ContinueSession \/ FinishSession
  PROVE  LogInv'
<1>0. rows \in 0 .. MaxLog /\ rows \in Nat
  BY MaxLogIsNat DEF LogInv, LogType
<1>1. CASE OpenSession
  <2>1. rows' = rows + 1 /\ rows' \in 0 .. MaxLog /\ inMemory' = rows'
    BY <1>0, <1>1, MaxLogIsNat DEF OpenSession
  <2>2. UNCHANGED <<finished, disk, record, push, marked, server, recovering, recover>>
    BY <1>1 DEF OpenSession, pushVars, recoverVars
  <2>3. inMemory' \in (0 .. rows') \ finished
    BY <1>0, <2>1 DEF LogInv, LogType
  <2>4. 1 .. rows \subseteq 1 .. rows'
    BY <1>0, <2>1
  <2>5. LogType'
    <3>1. /\ rows' \in 0 .. MaxLog /\ finished' \subseteq 1 .. rows'
          /\ inMemory' \in (0 .. rows') \ finished'
          /\ marked' \subseteq 1 .. rows' /\ server' \subseteq 1 .. rows'
      BY <2>1, <2>2, <2>3, <2>4 DEF LogInv, LogType
    <3>2. recover' \in RecoveryState(rows')
      BY <2>2, <2>4 DEF RecoveryState, LogInv, LogType
    <3>3. QED  BY <2>2, <3>1, <3>2 DEF RecoveryState, LogInv, LogType
  <2>6. FilesOf(rows) \subseteq FilesOf(rows')
    BY <1>0, <2>1, FilesGrow
  <2>7. FilesOfSessions'
    BY <2>2, <2>6 DEF LogInv, FilesOfSessions
  <2>8. QED  BY <2>5, <2>7 DEF LogInv
<1>2. CASE SessionStarted \/ ContinueSession
  <2>1. PICK s \in 1 .. rows, suffix \in BOOLEAN :
          CreateLogFile(s, suffix) /\ s \notin finished /\ inMemory' \in {inMemory, s}
    <3>1. CASE SessionStarted
      <4>1. inMemory \in Log /\ inMemory \notin finished /\ inMemory \in 0 .. rows
        BY <3>1 DEF SessionStarted, LogInv, LogType
      <4>2. inMemory \in 1 .. rows
        BY <1>0, <4>1, MaxLogIsNat DEF Log
      <4>3. CreateLogFile(inMemory, TRUE) /\ inMemory' = inMemory
        BY <3>1 DEF SessionStarted
      <4>4. QED  BY <4>1, <4>2, <4>3
    <3>2. CASE ContinueSession
      BY <3>2 DEF ContinueSession
    <3>3. QED  BY <1>2, <3>1, <3>2
  <2>2. UNCHANGED <<rows, finished, push, marked, server, recovering, recover>>
    BY <1>2 DEF SessionStarted, ContinueSession, recoverVars
  <2>3. <<s, suffix>> \in FilesOf(rows)
    BY <2>1 DEF FilesOf
  <2>4. <<s, suffix>> \in File
    BY <1>0, <2>3, FilesAreFiles
  <2>5. inMemory' \in (0 .. rows) \ finished
    BY <1>0, <2>1 DEF LogInv, LogType
  <2>6. LogType'
    BY <2>1, <2>2, <2>4, <2>5 DEF LogInv, LogType, CreateLogFile
  <2>7. FilesOfSessions'
    BY <2>1, <2>2, <2>3 DEF LogInv, FilesOfSessions, CreateLogFile
  <2>8. QED  BY <2>6, <2>7 DEF LogInv
<1>3. CASE FinishSession
  <2> DEFINE c == [at |-> "pause", file |-> NoFile]
  <2>1. inMemory \in 1 .. rows /\ inMemory \in Push
    BY <1>0, <1>3, MaxLogIsNat DEF FinishSession, LogInv, LogType, NoSession, Push, Log
  <2>2. c \in PushState /\ c.at \notin Uploading
    BY DEF PushState, Uploading
  <2>3. push' = [push EXCEPT ![inMemory] = c]
    BY <1>3 DEF FinishSession
  <2>4. /\ push' \in [Push -> PushState]
        /\ \A q \in Push : push'[q].at \in Uploading => push'[q].file \in FilesOf(rows)
    <3> HIDE DEF c
    <3>1. QED  BY <2>1, <2>2, <2>3, PushGoes
  <2>5. /\ finished' = finished \cup {inMemory} /\ inMemory' = NoSession
        /\ UNCHANGED <<rows, record, disk, marked, server, recovering, recover>>
    BY <1>3 DEF FinishSession, recoverVars
  <2>6. inMemory' \in (0 .. rows) \ finished' /\ finished' \subseteq 1 .. rows
    BY <1>0, <2>1, <2>5 DEF LogInv, LogType, NoSession
  <2>7. QED
    BY <2>4, <2>5, <2>6 DEF LogInv, LogType, FilesOfSessions, PushState
<1>4. QED  BY <1>1, <1>2, <1>3

LEMMA PushSteps ==
  ASSUME LogInv, \/ PushFromHistory
                 \/ \E p \in Push : PushBegins(p) \/ PushUploads(p) \/ PushMarks(p)
  PROVE  LogInv'
<1>0. /\ rows \in 0 .. MaxLog /\ rows \in Nat
      /\ push \in [Push -> PushState]
  BY MaxLogIsNat DEF LogInv, LogType, PushState
<1>1. UNCHANGED <<rows, finished, inMemory, disk, recovering, recover>>
  BY DEF PushFromHistory, PushBegins, PushUploads, PushMarks, recoverVars
<1>2. PICK p \in Push, c \in PushState :
        /\ push' = [push EXCEPT ![p] = c]
        /\ c.at \in Uploading => c.file \in FilesOf(rows)
  <2>1. CASE PushFromHistory
    <3> DEFINE c == [push[NoSession] EXCEPT !.at = "pause"]
    <3>1. NoSession \in Push
      BY DEF Push
    <3>2. /\ c \in PushState /\ c.at \notin Uploading
          /\ push' = [push EXCEPT ![NoSession] = c]
      BY <1>0, <2>1, <3>1 DEF PushFromHistory, PushState, Uploading
    <3>3. QED  BY <3>1, <3>2
  <2>2. ASSUME NEW p \in Push, PushBegins(p)
        PROVE  \E c \in PushState : /\ push' = [push EXCEPT ![p] = c]
                                    /\ c.at \in Uploading => c.file \in FilesOf(rows)
    <3>1. CASE record = NoFile
      BY <2>2, <3>1, NoPushIsState DEF PushBegins
    <3>2. CASE record # NoFile
      <4>1. PICK at \in {"upload", "failed"} :
              push' = [push EXCEPT ![p] = [at |-> at, file |-> record]]
        BY <2>2, <3>2 DEF PushBegins
      <4>2. record \in FilesOf(rows) /\ record \in File
        BY <1>0, <3>2, FilesAreFiles DEF LogInv, FilesOfSessions
      <4>3. [at |-> at, file |-> record] \in PushState
        BY <4>2 DEF PushState
      <4>4. QED  BY <4>1, <4>2, <4>3
    <3>3. QED  BY <3>1, <3>2
  <2>3. ASSUME NEW p \in Push, PushUploads(p)
        PROVE  \E c \in PushState : /\ push' = [push EXCEPT ![p] = c]
                                    /\ c.at \in Uploading => c.file \in FilesOf(rows)
    <3>1. PICK at \in {"sent", "failed"} : push' = [push EXCEPT ![p].at = at]
      BY <2>3 DEF PushUploads
    <3> DEFINE c == [push[p] EXCEPT !.at = at]
    <3>2. push[p].file \in FilesOf(rows)
      BY <2>3 DEF PushUploads, LogInv, FilesOfSessions, Uploading
    <3>3. c \in PushState /\ c.file \in FilesOf(rows) /\ push' = [push EXCEPT ![p] = c]
      BY <1>0, <3>1, <3>2 DEF PushState
    <3>4. QED  BY <3>3
  <2>4. ASSUME NEW p \in Push, PushMarks(p)
        PROVE  \E c \in PushState : /\ push' = [push EXCEPT ![p] = c]
                                    /\ c.at \in Uploading => c.file \in FilesOf(rows)
    BY <2>4, NoPushIsState DEF PushMarks
  <2>5. QED  BY <2>1, <2>2, <2>3, <2>4
<1>3. /\ push' \in [Push -> PushState]
      /\ \A q \in Push : push'[q].at \in Uploading => push'[q].file \in FilesOf(rows)
  BY <1>2, PushGoes
<1>4. record' \in {record, NoFile}
  BY DEF PushFromHistory, PushBegins, PushUploads, PushMarks
<1>5. marked' \subseteq 1 .. rows
  <2>1. inMemory # NoSession => inMemory \in 1 .. rows
    BY <1>0 DEF LogInv, LogType, NoSession
  <2>2. marked' \subseteq marked \cup ({inMemory} \ {NoSession})
    BY DEF PushFromHistory, PushBegins, PushUploads, PushMarks
  <2>3. QED  BY <2>1, <2>2 DEF LogInv, LogType
<1>6. server' \subseteq 1 .. rows
  <2>1. ASSUME NEW q \in Push, PushUploads(q)
        PROVE  push[q].file[1] \in 1 .. rows
    <3>1. push[q].file \in FilesOf(rows)
      BY <2>1 DEF PushUploads, LogInv, FilesOfSessions, Uploading
    <3>2. \A f \in FilesOf(rows) : f[1] \in 1 .. rows
      BY DEF FilesOf
    <3>3. QED  BY <3>1, <3>2
  <2>2. CASE \E q \in Push : PushUploads(q)
    <3>1. PICK q \in Push : PushUploads(q)
      BY <2>2
    <3>2. UNCHANGED server \/ server' = server \cup {push[q].file[1]}
      BY <3>1 DEF PushUploads
    <3>3. push[q].file[1] \in 1 .. rows
      BY <2>1, <3>1
    <3>4. QED  BY <3>2, <3>3 DEF LogInv, LogType
  <2>3. CASE ~\E q \in Push : PushUploads(q)
    BY <2>3 DEF PushFromHistory, PushBegins, PushMarks, LogInv, LogType
  <2>4. QED  BY <2>2, <2>3
<1>7. LogType'
  BY <1>1, <1>3, <1>4, <1>5, <1>6 DEF LogInv, LogType, PushState
<1>8. FilesOfSessions'
  BY <1>1, <1>3, <1>4 DEF LogInv, FilesOfSessions
<1>9. QED  BY <1>7, <1>8 DEF LogInv

LEMMA RecoverySteps ==
  ASSUME LogInv, NetworkAvailable \/ Recovery \/ Restart
  PROVE  LogInv'
<1>0. /\ rows \in 0 .. MaxLog /\ rows \in Nat
      /\ recover \in RecoveryState(rows)
      /\ recovering <=> recover.at # "none"
  BY MaxLogIsNat DEF RecoveryState, LogInv, LogType
<1>1. UNCHANGED <<rows, finished, disk>>
  BY DEF NetworkAvailable, Recovery, RecoverLists, RecoverUploads, RecoverFails,
         RecoverMarks, Restart, pushVars
<1>2. /\ recover' \in RecoveryState(rows)
      /\ recovering' <=> recover'.at # "none"
  <2>1. CASE NetworkAvailable
    BY <2>1 DEF RecoveryState, NetworkAvailable
  <2>2. CASE RecoverLists
    BY <1>0, <2>2 DEF RecoveryState, RecoverLists
  <2>3. CASE RecoverUploads /\ ~RecoverEnds
    BY <1>0, <2>3 DEF RecoveryState, RecoverUploads
  <2>4. CASE RecoverEnds
    BY <2>4 DEF RecoveryState, RecoverEnds, NoRecovery
  <2>5. QED  BY <2>1, <2>2, <2>3, <2>4 DEF Recovery, RecoverFails, RecoverMarks, Restart
<1>3. /\ marked' \subseteq marked \cup recover.rows
      /\ server' \subseteq server \cup recover.rows
      /\ record' \in {record, NoFile} /\ inMemory' \in {inMemory, NoSession}
      /\ push' = push \/ push' = [p \in Push |-> NoPush]
  BY DEF NetworkAvailable, Recovery, RecoverLists, RecoverUploads, RecoverFails,
         RecoverMarks, Restart, pushVars
<1>4. marked' \subseteq 1 .. rows /\ server' \subseteq 1 .. rows
  BY <1>0, <1>3 DEF LogInv, LogType
<1>5. /\ push' \in [Push -> PushState]
      /\ \A p \in Push : push'[p].at \in Uploading => push'[p].file \in FilesOf(rows)
  BY <1>3, NoPushIsState DEF LogInv, LogType, FilesOfSessions, PushState
<1>6. NoSession \in (0 .. rows) \ finished
  BY <1>0 DEF LogInv, LogType, NoSession
<1>7. LogType'
  BY <1>1, <1>2, <1>3, <1>4, <1>5, <1>6 DEF RecoveryState, LogInv, LogType, PushState
<1>8. FilesOfSessions'
  BY <1>1, <1>3, <1>5 DEF LogInv, FilesOfSessions
<1>9. QED  BY <1>7, <1>8 DEF LogInv
-----------------------------------------------------------------------------
LEMMA LogInvariance == LogSpec => []LogInv
<1>1. LogInit => LogInv
  <2> SUFFICES ASSUME LogInit PROVE LogInv
    OBVIOUS
  <2>1. push \in [Push -> PushState] /\ \A p \in Push : push[p].at \notin Uploading
    BY NoPushIsState DEF LogInit
  <2>2. recover \in RecoveryState(rows)
        /\ ~recovering /\ recover.at = "none"
    BY DEF RecoveryState, LogInit, NoRecovery
  <2>3. LogType
    BY <2>1, <2>2, MaxLogIsNat DEF RecoveryState, LogInit, LogType, PushState, NoSession
  <2>4. QED  BY <2>1, <2>3 DEF LogInv, LogInit, FilesOfSessions
<1>2. LogInv /\ [LogNext]_logVars => LogInv'
  <2> SUFFICES ASSUME LogInv, [LogNext]_logVars PROVE LogInv'
    OBVIOUS
  <2>1. CASE UNCHANGED logVars
    BY <2>1 DEF LogInv, LogType, FilesOfSessions, logVars, pushVars, recoverVars
  <2>2. QED  BY <2>1, SessionSteps, PushSteps, RecoverySteps DEF LogNext
<1>3. QED  BY <1>1, <1>2, PTL DEF LogSpec

\* A row is marked, and a log is at the server, only for a session there is; the
\* session in memory is not finished; and the flag of the recovery is set just
\* while one runs, through failures, a process death and the pushes that go on.
THEOREM LogTypeCorrect == LogSpec => []LogType
BY LogInvariance, PTL DEF LogInv
-----------------------------------------------------------------------------
(* The marks. What has been sent stays at the server until it is marked.     *)

SentIsAtServer ==
  /\ \A p \in Push : push[p].at = "sent" => push[p].file[1] \in server
  /\ recover.at = "mark" => recover.rows \subseteq server

LEMMA SentStep ==
  ASSUME LogInv, SentIsAtServer, [LogNext]_logVars
  PROVE  SentIsAtServer'
<1>0. push \in [Push -> PushState] /\ recover \in RecoveryState(rows)
  BY DEF LogInv, LogType, PushState, RecoveryState
<1>1. server \subseteq server'
  BY DEF LogNext, OpenSession, SessionStarted, ContinueSession, FinishSession,
         PushFromHistory, PushBegins, PushUploads, PushMarks, NetworkAvailable, Recovery,
         RecoverLists, RecoverUploads, RecoverFails, RecoverMarks, Restart, logVars
<1>2. \A p \in Push : push'[p].at = "sent" => push'[p].file[1] \in server'
  <2>1. CASE UNCHANGED push \/ push' = [p \in Push |-> NoPush]
    BY <1>1, <2>1 DEF SentIsAtServer, NoPush
  <2>2. CASE FinishSession \/ PushFromHistory
    BY <1>0, <1>1, <2>2 DEF FinishSession, PushFromHistory, SentIsAtServer, PushState
  <2>3. ASSUME NEW q \in Push, PushBegins(q) \/ PushMarks(q)
        PROVE  \A p \in Push : push'[p].at = "sent" => push'[p].file[1] \in server'
    BY <1>0, <1>1, <2>3 DEF PushBegins, PushMarks, SentIsAtServer, PushState, NoPush
  <2>4. ASSUME NEW q \in Push, PushUploads(q)
        PROVE  \A p \in Push : push'[p].at = "sent" => push'[p].file[1] \in server'
    BY <1>0, <1>1, <2>4 DEF PushUploads, SentIsAtServer, PushState
  <2>5. QED
    BY <2>1, <2>2, <2>3, <2>4
       DEF LogNext, OpenSession, SessionStarted, ContinueSession, NetworkAvailable,
           Recovery, RecoverLists, RecoverUploads, RecoverFails, RecoverMarks, Restart,
           logVars, pushVars
<1>3. recover'.at = "mark" => recover'.rows \subseteq server'
  <2>1. CASE UNCHANGED recover
    BY <1>1, <2>1 DEF SentIsAtServer
  <2>2. CASE NetworkAvailable \/ RecoverLists \/ RecoverEnds
    BY <2>2 DEF NetworkAvailable, RecoverLists, RecoverEnds, NoRecovery
  <2>3. CASE RecoverUploads /\ ~RecoverEnds
    BY <1>0, <2>3 DEF RecoverUploads, RecoveryState
  <2>4. QED
    BY <2>1, <2>2, <2>3
       DEF LogNext, OpenSession, SessionStarted, ContinueSession, FinishSession,
           PushFromHistory, PushBegins, PushUploads, PushMarks, Recovery, RecoverFails,
           RecoverMarks, Restart, logVars, recoverVars
<1>4. QED  BY <1>2, <1>3 DEF SentIsAtServer

LEMMA SentInvariance == LogSpec => []SentIsAtServer
<1>1. LogInit => SentIsAtServer
  BY DEF LogInit, SentIsAtServer, NoPush, NoRecovery
<1>2. LogInv /\ SentIsAtServer /\ [LogNext]_logVars => SentIsAtServer'
  BY SentStep
<1>3. QED  BY <1>1, <1>2, LogInvariance, PTL DEF LogSpec

LEMMA MarkingStep ==
  ASSUME SentIsAtServer, [LogNext]_logVars, NEW s \in marked' \ marked
  PROVE  \/ s \in server
         \/ s = inMemory /\ \E p \in Push : push[p].at = "sent" /\ push[p].file[1] # s
<1>1. ASSUME NEW p \in Push, PushMarks(p)
      PROVE  \/ s \in server
             \/ s = inMemory /\ \E q \in Push : push[q].at = "sent" /\ push[q].file[1] # s
  <2>1. push[p].at = "sent" /\ s = inMemory
    BY <1>1 DEF PushMarks
  <2>2. CASE push[p].file[1] = s
    BY <2>1, <2>2 DEF SentIsAtServer
  <2>3. QED  BY <2>1, <2>2
<1>2. CASE RecoverMarks
  BY <1>2 DEF RecoverMarks, SentIsAtServer
<1>3. (\E p \in Push : PushMarks(p)) \/ RecoverMarks
  BY DEF LogNext, OpenSession, SessionStarted, ContinueSession, FinishSession,
         PushFromHistory, PushBegins, PushUploads, NetworkAvailable, Recovery,
         RecoverLists, RecoverUploads, RecoverFails, Restart, logVars, pushVars
<1>4. QED  BY <1>1, <1>2, <1>3

\* OnlySentIsMarked, RiderSessionViewModel.kt:443 and 520: a row is marked after
\* the server has taken its log, whatever happened since the rows were listed or
\* the upload began, unless a push of another log ends while it is in memory.
THEOREM MarksAreTrue == LogSpec => OnlySentIsMarked
<1>1. SentIsAtServer /\ [LogNext]_logVars
        => [\A s \in marked' \ marked :
              \/ s \in server
              \/ s = inMemory /\ \E p \in Push : push[p].at = "sent" /\ push[p].file[1] # s]_logVars
  BY MarkingStep
<1>2. QED  BY <1>1, SentInvariance, PTL DEF LogSpec, OnlySentIsMarked
=============================================================================
