---------------------------- MODULE SessionTable ----------------------------
(***************************************************************************)
(* What other components may rely on about the sessions of a device: which *)
(* rows there are, whether each is running, finished and still to be sent, *)
(* or sent, under which id the server knows it, and which one is in        *)
(* memory. SessionSync implements it; the telemetry is built on it.        *)
(***************************************************************************)
EXTENDS Integers

CONSTANTS Sid, NoSid, MaxRow

ASSUME NoSidIsNoId == NoSid \notin Sid
ASSUME MaxRowIsNat == MaxRow \in Nat

RowId == 1 .. MaxRow
NoRow == 0
Status == {"running", "finished", "sent"}

VARIABLES
  count,    \* rows so far; ids are 1 .. count
  status,   \* where each session is
  sid,      \* the id of each session, NoSid while the server has not got it
  live      \* the session in memory

tableVars == <<count, status, sid, live>>

TableType == /\ count \in 0 .. MaxRow
             /\ status \in [RowId -> Status]
             /\ sid \in [RowId -> Sid \cup {NoSid}]
             /\ live \in 0 .. count

TableInit == /\ count = 0
             /\ status = [r \in RowId |-> "running"]
             /\ sid = [r \in RowId |-> NoSid]
             /\ live = NoRow

\* A session is opened, or resumed on a new row that takes over the state of
\* the session it replaces in memory.
Insert(st, x) ==
  /\ count < MaxRow
  /\ x = NoSid \/ live = NoRow => st = "running"
  /\ count' = count + 1
  /\ status' = [status EXCEPT ![count + 1] = st]
  /\ sid' = [sid EXCEPT ![count + 1] = x]
  /\ live' = count + 1

\* A session is resumed on its row: one the server knows, or the last.
Attach(r) ==
  /\ r \in 1 .. count
  /\ sid[r] = NoSid => r = count
  /\ live' = r
  /\ UNCHANGED <<count, status, sid>>

\* The session in memory is ended, and the end is sent or saved.
End(st) ==
  /\ live # NoRow
  /\ st \in {"finished", "sent"}
  /\ status' = [status EXCEPT ![live] = st]
  /\ UNCHANGED <<count, sid, live>>

Forget == live' = NoRow /\ UNCHANGED <<count, status, sid>>

\* The recovery opens r on the server: never the session the user is in, nor
\* one a user may still go on with, and what was finished stays finished.
GiveId(r, x) ==
  /\ r \in 1 .. count
  /\ sid[r] = NoSid /\ status[r] = "running" => r # live /\ r < count
  /\ sid' = [sid EXCEPT ![r] = x]
  /\ \E st \in {"running", "finished"} :
       /\ sid[r] = NoSid => (st = "running" <=> status[r] = "running")
       /\ status' = [status EXCEPT ![r] = st]
  /\ UNCHANGED <<count, live>>

\* The server has confirmed a finish that the recovery sent.
MarkSent(r) ==
  /\ r \in 1 .. count
  /\ sid[r] # NoSid
  /\ status' = [status EXCEPT ![r] = "sent"]
  /\ UNCHANGED <<count, sid, live>>

\* What users, the administrator and the process do to the sessions
UserStep ==
  \/ \E st \in Status, x \in Sid \cup {NoSid} : Insert(st, x)
  \/ \E r \in RowId : Attach(r)
  \/ \E st \in Status : End(st)
  \/ Forget

TableNext ==
  \/ UserStep
  \/ \E r \in RowId, x \in Sid : GiveId(r, x)
  \/ \E r \in RowId : MarkSent(r)

TableSpec == TableInit /\ [][TableNext]_tableVars
=============================================================================
