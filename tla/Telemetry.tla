----------------------------- MODULE Telemetry -----------------------------
(***************************************************************************)
(* The positions and face authentications measured in a session: pushed to *)
(* the broker, filed in a local table as sent or unsent, and the unsent    *)
(* ones sent again by the re-upload of the session in memory, by the       *)
(* recovery of offline sessions, or on request of the server. The sessions *)
(* themselves are those of SessionTable, which SessionSync implements.     *)
(*                                                                         *)
(* One action is what a coroutine does with one sample: the call, and the  *)
(* filing or marking that follows its answer, are separate for a push and  *)
(* one step for a sample sent again, whose mark depends on nothing else.   *)
(***************************************************************************)
EXTENDS SessionTable

CONSTANTS
  Gps, Auth    \* the samples: positions, and authentications with an image

ASSUME SampleKinds == Gps \cap Auth = {}

Sample == Gps \cup Auth

VARIABLES
  net,        \* checkConnectionAvailable(), and the reach of the server
  pushPc,     \* where the coroutine that pushes a sample is
  filed,      \* the session a sample is filed under, NoRow if none
  sent,       \* the samples whose row says SENT_ONLINE
  taken,      \* the ids under which the broker took a sample
  upPc, upTodo, upBy,           \* checkAndReUploadData; the flag
                                \* isReUploadDataInSession is upPc # "idle"
  recPc, recTodo, recLeft,      \* recoverSendOfflineData, and its copies
  snapStatus, snapSid, snapData \* of the rows and of their unsent samples

sampleVars == <<pushPc, filed, sent, taken>>
upVars     == <<upPc, upTodo, upBy>>
recVars    == <<recPc, recTodo, recLeft, snapStatus, snapSid, snapData>>
vars == <<tableVars, net, sampleVars, upVars, recVars>>

SampleType == /\ pushPc \in [Sample -> {"new", "image", "ok", "failed", "done"}]
              /\ filed \in [Sample -> 0 .. count]
              /\ sent \subseteq Sample
              /\ taken \in [Sample -> SUBSET (Sid \cup {NoSid})]
UpType == /\ upPc \in {"idle", "auth", "gps", "dead"}
          /\ upTodo \subseteq Sample
          /\ upBy \in {"clock", "finish"}
RecType == /\ recPc \in {"idle", "list", "row", "data"}
           /\ recTodo \subseteq 1 .. count
           /\ recLeft \subseteq Sample
           /\ snapStatus \in [RowId -> Status]
           /\ snapSid \in [RowId -> Sid \cup {NoSid}]
           /\ snapData \in [RowId -> SUBSET Sample]
TypeOK == TableType /\ net \in BOOLEAN /\ SampleType /\ UpType /\ RecType

NoCopies == /\ recTodo' = {} /\ recLeft' = {}
            /\ snapStatus' = [r \in RowId |-> "running"]
            /\ snapSid' = [r \in RowId |-> NoSid]
            /\ snapData' = [r \in RowId |-> {}]

Init ==
  /\ TableInit
  /\ net \in BOOLEAN
  /\ pushPc = [s \in Sample |-> "new"]
  /\ filed = [s \in Sample |-> NoRow]
  /\ sent = {}
  /\ taken = [s \in Sample |-> {}]
  /\ upPc = "idle" /\ upTodo = {} /\ upBy = "clock"
  /\ recPc = "idle" /\ recTodo = {} /\ recLeft = {}
  /\ snapStatus = [r \in RowId |-> "running"]
  /\ snapSid = [r \in RowId |-> NoSid]
  /\ snapData = [r \in RowId |-> {}]

-----------------------------------------------------------------------------
(***************************************************************************)
(* Sending.                                                                *)
(***************************************************************************)
Goto(s, pc) == pushPc' = [pushPc EXCEPT ![s] = pc]

\* Sender.sendData, SenderAuth.sendAuth: the broker takes s under id x or not.
BrokerTakes(s, x) == net /\ taken' = [taken EXCEPT ![s] = @ \cup {x}]

\* The unsent samples of session r among set S, as the queries return them
Unsent(r, S) == {s \in S : filed[s] = r /\ s \notin sent}

\* handleRecoverUploadGpsSignal, handleRecoverUploadAuthen, and the mark that
\* follows: an image that cannot be uploaded stops it; what the broker answers
\* is not looked at.
Resend(s, x) ==
  \/ s \in Auth /\ UNCHANGED <<taken, sent>>
  \/ /\ s \in Auth => net
     /\ BrokerTakes(s, x) \/ UNCHANGED taken
     /\ sent' = sent \cup {s}

-----------------------------------------------------------------------------
(***************************************************************************)
(* A sample is pushed when it is measured.                                 *)
(***************************************************************************)
\* pushGPSData and pushAuthenticateData name inProgressSession.id, which is a
\* local id while the server has not got the session. The sender may also
\* fail after the broker has taken the sample.
Push(s) ==
  /\ \/ BrokerTakes(s, sid[live]) /\ \E pc \in {"ok", "failed"} : Goto(s, pc)
     \/ Goto(s, "failed") /\ UNCHANGED taken
  /\ UNCHANGED <<tableVars, net, filed, sent, upVars, recVars>>

\* Every accepted location
PushGps(s) == s \in Gps /\ pushPc[s] = "new" /\ live # NoRow /\ Push(s)

\* The image of an authentication is uploaded first; if that fails, after
\* three tries, the sample goes to the table at once.
UploadImage(s) ==
  /\ s \in Auth /\ pushPc[s] = "new" /\ live # NoRow
  /\ \/ net /\ Goto(s, "image")
     \/ Goto(s, "failed")
  /\ UNCHANGED <<tableVars, net, filed, sent, taken, upVars, recVars>>

PushAuth(s) == pushPc[s] = "image" /\ live # NoRow /\ Push(s)

\* The answer is filed under the session in memory by then.
File(s) ==
  /\ pushPc[s] \in {"ok", "failed"} /\ live # NoRow
  /\ filed' = [filed EXCEPT ![s] = live]
  /\ sent' = IF pushPc[s] = "ok" THEN sent \cup {s} ELSE sent
  /\ Goto(s, "done")
  /\ UNCHANGED <<tableVars, net, taken, upVars, recVars>>

\* With no session in memory the coroutine ends and the sample is dropped.
Drop(s) ==
  /\ pushPc[s] \in {"image", "ok", "failed"} /\ live = NoRow
  /\ Goto(s, "done")
  /\ UNCHANGED <<tableVars, net, filed, sent, taken, upVars, recVars>>

-----------------------------------------------------------------------------
(***************************************************************************)
(* checkAndReUploadData, called with each authentication and by a finish.  *)
(***************************************************************************)
ProcessDies ==
  /\ Forget
  /\ pushPc' = [s \in Sample |-> IF pushPc[s] = "new" THEN "new" ELSE "done"]
  /\ upPc' = "idle" /\ upTodo' = {} /\ upBy' = "clock"
  /\ recPc' = "idle" /\ NoCopies
  /\ UNCHANGED <<net, filed, sent, taken>>

\* Mutant: one flag for the re-upload and the recovery.
UpStartIfNoRecovery(by) ==
  /\ net /\ live # NoRow /\ upPc = "idle" /\ recPc = "idle"
  /\ sid[live] # NoSid
  /\ upPc' = "auth" /\ upBy' = by
  /\ upTodo' = Unsent(live, Auth)
  /\ UNCHANGED <<tableVars, net, sampleVars, recVars>>

UpStart(by) ==
  /\ net /\ live # NoRow /\ upPc = "idle"
  /\ sid[live] # NoSid
  /\ upPc' = "auth" /\ upBy' = by
  /\ upTodo' = Unsent(live, Auth)
  /\ UNCHANGED <<tableVars, net, sampleVars, recVars>>

\* Each iteration reads localRiderSession anew.
UpSend(s) ==
  /\ s \in upTodo /\ live # NoRow
  /\ Resend(s, sid[live])
  /\ upTodo' = upTodo \ {s}
  /\ UNCHANGED <<tableVars, net, pushPc, filed, upPc, upBy, recVars>>

UpTurn ==
  /\ upPc = "auth" /\ upTodo = {} /\ live # NoRow
  /\ upPc' = "gps" /\ upTodo' = Unsent(live, Gps)
  /\ UNCHANGED <<tableVars, net, sampleVars, upBy, recVars>>

\* Mutant: the flag is reset only when there was something to send.
UpEndIfSent ==
  /\ upPc = "gps" /\ upTodo = {} /\ \E s \in sent : filed[s] = live
  /\ upPc' = "idle" /\ upBy' = "clock"
  /\ UNCHANGED <<tableVars, net, sampleVars, upTodo, recVars>>

UpEnd ==
  /\ upPc = "gps" /\ upTodo = {}
  /\ upPc' = "idle" /\ upBy' = "clock"
  /\ UNCHANGED <<tableVars, net, sampleVars, upTodo, recVars>>

\* localRiderSession!! when the session is gone: in the finish the exception
\* is reported and the flag stays set; elsewhere nothing catches it.
UpFails ==
  /\ \/ upPc = "auth"
     \/ upPc = "gps" /\ upTodo # {}
  /\ live = NoRow
  /\ \/ /\ upBy = "finish"
        /\ upPc' = "dead" /\ upTodo' = {} /\ UNCHANGED upBy
        /\ UNCHANGED <<tableVars, net, sampleVars, recVars>>
     \/ upBy = "clock" /\ ProcessDies

-----------------------------------------------------------------------------
(***************************************************************************)
(* recoverSendOfflineData: the rows, and for each the samples that were    *)
(* unsent when the rows were listed.                                       *)
(***************************************************************************)
\* Steps 1 to 3
Listed ==
  LET notSent == {r \in 1 .. count : status[r] # "sent"}
  IN {r \in notSent : status[r] = "finished" \/ \E q \in notSent : q > r}

RecTrigger ==
  /\ recPc = "idle"
  /\ recPc' = "list"
  /\ UNCHANGED <<tableVars, net, sampleVars, upVars, recTodo, recLeft,
                 snapStatus, snapSid, snapData>>

RecList ==
  /\ recPc = "list"
  /\ recTodo' = Listed
  /\ recPc' = IF Listed = {} THEN "idle" ELSE "row"
  /\ snapStatus' = [r \in RowId |-> IF r \in Listed THEN status[r] ELSE "running"]
  /\ snapSid' = [r \in RowId |-> IF r \in Listed THEN sid[r] ELSE NoSid]
  /\ snapData' = [r \in RowId |-> IF r \in Listed THEN Unsent(r, Sample) ELSE {}]
  /\ UNCHANGED <<tableVars, net, sampleVars, upVars, recLeft>>

Current(r) == r \in recTodo /\ \A q \in recTodo : r <= q

RecAdvance(r) ==
  /\ recTodo' = recTodo \ {r}
  /\ recPc' = IF recTodo = {r} THEN "idle" ELSE "row"
  /\ recLeft' = {}
  /\ snapStatus' = [snapStatus EXCEPT ![r] = "running"]
  /\ snapSid' = [snapSid EXCEPT ![r] = NoSid]
  /\ snapData' = [snapData EXCEPT ![r] = {}]

\* Mutant: the new id is written to the table only.
RecOpenInTableOnly(r, x) ==
  /\ recPc = "row" /\ Current(r) /\ net
  /\ snapStatus[r] # "sent"
  /\ GiveId(r, x) /\ status'[r] = snapStatus[r]
  /\ recPc' = "data" /\ recLeft' = snapData[r]
  /\ UNCHANGED <<net, sampleVars, upVars, recTodo, snapStatus, snapSid,
                 snapData>>

\* Step 4.1: the session is opened on the server, under id x ...
RecOpen(r, x) ==
  /\ recPc = "row" /\ Current(r) /\ net
  /\ snapStatus[r] # "sent"
  /\ GiveId(r, x) /\ status'[r] = snapStatus[r]
  /\ snapSid' = [snapSid EXCEPT ![r] = x]
  /\ recPc' = "data" /\ recLeft' = snapData[r]
  /\ UNCHANGED <<net, sampleVars, upVars, recTodo, snapStatus, snapData>>

\* ... or it is open already, or cannot be opened; without an id nothing more
\* is done for it.
RecGoOn(r) ==
  /\ recPc = "row" /\ Current(r)
  /\ IF snapSid[r] = NoSid THEN RecAdvance(r)
     ELSE /\ recPc' = "data" /\ recLeft' = snapData[r]
          /\ UNCHANGED <<recTodo, snapStatus, snapSid, snapData>>
  /\ UNCHANGED <<tableVars, net, sampleVars, upVars>>

\* Mutant: the session in memory is named, if there is one.
RecSendForLive(r, s) ==
  /\ recPc = "data" /\ Current(r) /\ s \in recLeft
  /\ Resend(s, IF live = NoRow THEN snapSid[r] ELSE sid[live])
  /\ recLeft' = recLeft \ {s}
  /\ UNCHANGED <<tableVars, net, pushPc, filed, upVars, recPc, recTodo,
                 snapStatus, snapSid, snapData>>

\* Steps 4.2 and 4.3: the authentications, then the positions
RecSend(r, s) ==
  /\ recPc = "data" /\ Current(r) /\ s \in recLeft
  /\ s \in Gps => recLeft \cap Auth = {}
  /\ Resend(s, snapSid[r])
  /\ recLeft' = recLeft \ {s}
  /\ UNCHANGED <<tableVars, net, pushPc, filed, upVars, recPc, recTodo,
                 snapStatus, snapSid, snapData>>

\* Mutant: the finish is sent before the data.
RecFinishFirst(r) ==
  /\ recPc = "data" /\ Current(r) /\ net
  /\ snapStatus[r] = "finished" /\ MarkSent(r)
  /\ RecAdvance(r)
  /\ UNCHANGED <<net, sampleVars, upVars>>

\* The finish is sent and confirmed ...
RecFinish(r) ==
  /\ recPc = "data" /\ Current(r) /\ recLeft = {} /\ net
  /\ snapStatus[r] = "finished" /\ MarkSent(r)
  /\ RecAdvance(r)
  /\ UNCHANGED <<net, sampleVars, upVars>>

\* ... or fails, or there is none to send.
RecLeave(r) ==
  /\ recPc = "data" /\ Current(r) /\ recLeft = {}
  /\ RecAdvance(r)
  /\ UNCHANGED <<tableVars, net, sampleVars, upVars>>

-----------------------------------------------------------------------------
\* checkMissingDataSession, pushDataMissing: what the server misses of session
\* r is sent once more, whatever its row says; no row is marked.
PushMissing(s, r) ==
  /\ net /\ filed[s] = r /\ sid[r] # NoSid
  /\ sid[r] \notin taken[s]
  /\ BrokerTakes(s, sid[r])
  /\ UNCHANGED <<tableVars, net, pushPc, filed, sent, upVars, recVars>>

SessionStep == UserStep /\ UNCHANGED <<net, sampleVars, upVars, recVars>>
NetChanges == /\ net' = ~net
              /\ UNCHANGED <<tableVars, sampleVars, upVars, recVars>>

PushStep(s) == PushGps(s) \/ UploadImage(s) \/ PushAuth(s) \/ File(s) \/ Drop(s)
UpStep == \/ \E by \in {"clock", "finish"} : UpStart(by)
          \/ \E s \in Sample : UpSend(s)
          \/ UpTurn \/ UpEnd \/ UpFails
RecRow(r) == \/ \E x \in Sid : RecOpen(r, x)
             \/ RecGoOn(r) \/ RecFinish(r) \/ RecLeave(r)
             \/ \E s \in Sample : RecSend(r, s)

Next ==
  \/ \E s \in Sample : PushStep(s)
  \/ UpStep
  \/ RecTrigger \/ RecList \/ \E r \in RowId : RecRow(r)
  \/ \E s \in Sample, r \in RowId : PushMissing(s, r)
  \/ SessionStep \/ NetChanges \/ ProcessDies

Spec == Init /\ [][Next]_vars

-----------------------------------------------------------------------------
\* A sample is filed at most once, at the end of its push.
FiledOnce == \A s \in Sample : pushPc[s] # "done" => filed[s] = NoRow

\* The recovery's copies of the rows agree with the table on what no other
\* coroutine may change: the id, and what was unsent belongs to the row.
CopiesSound ==
  \A r \in recTodo :
    /\ snapSid[r] = sid[r]
    /\ \A s \in snapData[r] : filed[s] = r

\* What the recovery has still to send is of its current row, and a position
\* it has been through is marked.
LeftSound ==
  /\ recPc # "data" => recLeft = {}
  /\ recPc = "data" =>
       \A r \in recTodo : Current(r) =>
         /\ snapSid[r] # NoSid
         /\ recLeft \subseteq snapData[r]
         /\ (snapData[r] \cap Gps) \ recLeft \subseteq sent

\* What the next two properties follow from
TInv == TypeOK /\ FiledOnce /\ CopiesSound /\ LeftSound

\* Whatever the user does meanwhile - another session resumed, the recovered
\* one ended by an administrator, its id given while the list was under way -
\* the recovery sends a sample under the id of the session it is filed under.
RecoveryNamesOwnSession ==
  [][\A s \in recLeft \ recLeft' :
       taken'[s] \subseteq taken[s] \cup ({sid[filed[s]]} \cap Sid)]_vars

\* A session leaves the recovery as sent only when the positions that were
\* unsent when it was listed are marked: its finish, after which no list
\* holds the session again, is the last thing sent for it.
DataBeforeFinish ==
  [][\A r \in recTodo \ recTodo' :
       status[r] # "sent" /\ status'[r] = "sent"
         => snapData[r] \cap Gps \subseteq sent]_vars

-----------------------------------------------------------------------------
(* A statement of a comment that the code does not meet.                   *)

\* RiderSessionViewModel, above checkAndReUploadData: the data whose push has
\* failed are pushed again. What is marked as sent, and so never is, has been
\* taken by the broker.
SentWasTaken == \A s \in sent : taken[s] # {}
=============================================================================
