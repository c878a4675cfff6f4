-------------------------- MODULE TelemetryProofs --------------------------
(***************************************************************************)
(* What the recovery sends, and when it lets a session go: proved for any  *)
(* number of sessions, ids and samples.                                    *)
(*                                                                         *)
(* TInv is inductive: the recovery's copies agree with the table about ids *)
(* because nobody but the recovery gives an id to a row that has none.     *)
(***************************************************************************)
EXTENDS Telemetry, TLAPS

-----------------------------------------------------------------------------
(* The sessions: what the table's steps leave alone.                       *)

\* What users do adds rows and changes where a session is, never an id.
LEMMA UserStepKeepsIds ==
  ASSUME TableType, UserStep
  PROVE  /\ TableType' /\ count <= count'
         /\ \A r \in 1 .. count : sid'[r] = sid[r]
<1>0. count \in Nat
  BY MaxRowIsNat DEF TableType
<1>1. ASSUME NEW st \in Status, NEW x \in Sid \cup {NoSid}, Insert(st, x)
      PROVE  /\ TableType' /\ count <= count'
             /\ \A r \in 1 .. count : sid'[r] = sid[r]
  <2> USE <1>1, MaxRowIsNat DEF TableType, RowId, Insert
  <2>1. count' = count + 1 /\ count' \in 0 .. MaxRow /\ live' = count'
    OBVIOUS
  <2>2. status' \in [RowId -> Status] /\ sid' \in [RowId -> Sid \cup {NoSid}]
    OBVIOUS
  <2>3. \A r \in 1 .. count : sid'[r] = sid[r]
    OBVIOUS
  <2> QED
    BY <2>1, <2>2, <2>3
<1>2. ASSUME NEW r \in RowId, Attach(r)
      PROVE  TableType' /\ count' = count /\ sid' = sid
  BY <1>2 DEF Attach, TableType
<1>3. ASSUME NEW st \in Status, End(st)
      PROVE  TableType' /\ count' = count /\ sid' = sid
  BY <1>3 DEF End, TableType
<1>4. ASSUME Forget
      PROVE  TableType' /\ count' = count /\ sid' = sid
  BY <1>0, <1>4 DEF Forget, NoRow, TableType
<1> QED
  BY <1>0, <1>1, <1>2, <1>3, <1>4 DEF UserStep

LEMMA GiveIdType ==
  ASSUME TableType, NEW r \in RowId, NEW x \in Sid, GiveId(r, x)
  PROVE  TableType' /\ count' = count /\ sid' = [sid EXCEPT ![r] = x]
BY DEF TableType, GiveId, Status

LEMMA MarkSentType ==
  ASSUME TableType, NEW r \in RowId, MarkSent(r)
  PROVE  TableType' /\ count' = count /\ sid' = sid
BY DEF TableType, MarkSent, Status

LEMMA StutterType ==
  ASSUME TableType, UNCHANGED tableVars
  PROVE  TableType' /\ count' = count /\ sid' = sid
BY DEF TableType, tableVars

-----------------------------------------------------------------------------
(* The samples: what a push and a sending leave well typed.                *)

LEMMA ResendType ==
  ASSUME SampleType, NEW s \in Sample, NEW x \in Sid \cup {NoSid}, Resend(s, x)
  PROVE  /\ sent' \subseteq Sample /\ sent \subseteq sent'
         /\ taken' \in [Sample -> SUBSET (Sid \cup {NoSid})]
         /\ s \in Gps => s \in sent'
         /\ taken'[s] \subseteq taken[s] \cup {x}
         /\ \A q \in Sample \ {s} : taken'[q] = taken[q]
BY SampleKinds DEF SampleType, Resend, BrokerTakes, Sample

LEMMA PushType ==
  ASSUME TypeOK, NEW s \in Sample, PushStep(s)
  PROVE  SampleType' /\ sent \subseteq sent'
<1> USE DEF TypeOK, SampleType
<1>1. live \in 0 .. count /\ count \in Nat
      /\ (live # NoRow => sid[live] \in Sid \cup {NoSid})
  BY MaxRowIsNat DEF TableType, NoRow, RowId
<1>2. ASSUME live # NoRow, Push(s) PROVE SampleType' /\ sent \subseteq sent'
  <2>1. taken' \in [Sample -> SUBSET (Sid \cup {NoSid})]
    BY <1>1, <1>2 DEF Push, BrokerTakes, Goto
  <2>2. pushPc' \in [Sample -> {"new", "image", "ok", "failed", "done"}]
    BY <1>2 DEF Push, Goto
  <2> QED
    BY <1>2, <2>1, <2>2 DEF Push, tableVars
<1>3. CASE PushGps(s) \/ PushAuth(s)
  BY <1>2, <1>3 DEF PushGps, PushAuth
<1>4. CASE UploadImage(s)
  BY <1>4 DEF UploadImage, Goto, tableVars
<1>5. CASE File(s)
  BY <1>1, <1>5 DEF File, Goto, tableVars
<1>6. CASE Drop(s)
  BY <1>6 DEF Drop, Goto, tableVars
<1> QED
  BY <1>3, <1>4, <1>5, <1>6 DEF PushStep

-----------------------------------------------------------------------------
(* Every part of TypeOK that an action may disturb.                        *)

\* Rows are only added, so what points at rows stays in range.
LEMMA RowsGrow ==
  ASSUME TypeOK, TableType', count <= count'
  PROVE  /\ filed \in [Sample -> 0 .. count']
         /\ recTodo \subseteq 1 .. count'
BY MaxRowIsNat DEF TypeOK, SampleType, RecType, TableType

LEMMA SamplesKept ==
  ASSUME TypeOK, TableType', count <= count', UNCHANGED sampleVars
  PROVE  SampleType'
BY RowsGrow DEF TypeOK, SampleType, sampleVars

LEMMA UploadKept == UpType /\ UNCHANGED upVars => UpType'
BY DEF UpType, upVars

LEMMA RecoveryKept ==
  ASSUME TypeOK, TableType', count <= count', UNCHANGED recVars
  PROVE  RecType'
BY RowsGrow DEF TypeOK, RecType, recVars

LEMMA UploadType ==
  ASSUME TypeOK, UpStep
  PROVE  TypeOK'
<1>0. count \in Nat /\ SampleType /\ UpType /\ RecType /\ TableType
      /\ net \in BOOLEAN
  BY MaxRowIsNat DEF TypeOK, TableType
<1>1. ASSUME NEW by \in {"clock", "finish"}, UpStart(by) PROVE TypeOK'
  <2>1. TableType' /\ count' = count /\ UpType'
    BY <1>0, <1>1, StutterType DEF UpStart, UpType, Unsent, Sample
  <2> QED
    BY <1>0, <1>1, <2>1, SamplesKept, RecoveryKept DEF UpStart, TypeOK
<1>2. ASSUME NEW s \in Sample, UpSend(s) PROVE TypeOK'
  <2>1. TableType' /\ count' = count /\ UpType'
    BY <1>0, <1>2, StutterType DEF UpSend, UpType
  <2>2. sid[live] \in Sid \cup {NoSid}
    BY <1>0, <1>2, MaxRowIsNat DEF UpSend, TableType, NoRow, RowId
  <2>3. SampleType'
    BY <1>0, <1>2, <2>1, <2>2, ResendType DEF UpSend, SampleType
  <2> QED
    BY <1>0, <1>2, <2>1, <2>3, RecoveryKept DEF UpSend, TypeOK
<1>3. CASE UpTurn \/ UpEnd
  <2>1. TableType' /\ count' = count /\ UpType'
    BY <1>0, <1>3, StutterType DEF UpTurn, UpEnd, UpType, Unsent, Sample
  <2> QED
    BY <1>0, <1>3, <2>1, SamplesKept, RecoveryKept DEF UpTurn, UpEnd, TypeOK
<1>4. ASSUME ProcessDies PROVE TypeOK'
  <2>1. TableType' /\ count' = count
    BY <1>0, <1>4, MaxRowIsNat DEF ProcessDies, Forget, TableType, NoRow
  <2>2. SampleType' /\ UpType'
    BY <1>0, <1>4, <2>1 DEF ProcessDies, SampleType, UpType
  <2>3. RecType'
    BY <1>4 DEF ProcessDies, NoCopies, RecType, Status
  <2> QED
    BY <1>0, <1>4, <2>1, <2>2, <2>3 DEF ProcessDies, TypeOK
<1>5. CASE UpFails
  <2>1. ASSUME upPc' = "dead", upTodo' = {}, UNCHANGED upBy,
               UNCHANGED <<tableVars, net, sampleVars, recVars>>
        PROVE  TypeOK'
    <3>1. TableType' /\ count' = count /\ UpType'
      BY <1>0, <2>1, StutterType DEF UpType
    <3> QED
      BY <1>0, <2>1, <3>1, SamplesKept, RecoveryKept DEF TypeOK
  <2> QED
    BY <1>4, <1>5, <2>1 DEF UpFails
<1> QED
  BY <1>1, <1>2, <1>3, <1>5 DEF UpStep

\* The recovery's turn to the next row, whatever became of this one
LEMMA AdvanceType ==
  ASSUME TypeOK, NEW r \in RowId, RecAdvance(r), TableType', count' = count
  PROVE  RecType'
BY DEF TypeOK, RecType, RecAdvance, Status

LEMMA RecoveryType ==
  ASSUME TypeOK, RecTrigger \/ RecList \/ \E r \in RowId : RecRow(r)
  PROVE  TypeOK'
<1>0. count \in Nat /\ SampleType /\ UpType /\ RecType /\ TableType
      /\ net \in BOOLEAN
  BY MaxRowIsNat DEF TypeOK, TableType
<1>1. CASE RecTrigger
  <2>1. TableType' /\ count' = count /\ RecType'
    BY <1>0, <1>1, StutterType DEF RecTrigger, RecType
  <2> QED
    BY <1>0, <1>1, <2>1, SamplesKept, UploadKept DEF RecTrigger, TypeOK
<1>2. CASE RecList
  <2>1. TableType' /\ count' = count
    BY <1>0, <1>2, StutterType DEF RecList
  <2>2. snapStatus' \in [RowId -> Status] /\ snapSid' \in [RowId -> Sid \cup {NoSid}]
    BY <1>0, <1>2 DEF RecList, TableType, Status
  <2>3. snapData' \in [RowId -> SUBSET Sample]
    BY <1>2 DEF RecList, Unsent
  <2>4. RecType'
    BY <1>0, <1>2, <2>1, <2>2, <2>3 DEF RecList, RecType, Listed
  <2> QED
    BY <1>0, <1>2, <2>1, <2>4, SamplesKept, UploadKept DEF RecList, TypeOK
<1>3. ASSUME NEW r \in RowId, NEW x \in Sid, RecOpen(r, x) PROVE TypeOK'
  <2>1. TableType' /\ count' = count
    BY <1>0, <1>3, GiveIdType DEF RecOpen
  <2>2. RecType'
    BY <1>0, <1>3, <2>1 DEF RecOpen, RecType
  <2> QED
    BY <1>0, <1>3, <2>1, <2>2, SamplesKept, UploadKept DEF RecOpen, TypeOK
<1>4. ASSUME NEW r \in RowId, RecGoOn(r) PROVE TypeOK'
  <2>1. TableType' /\ count' = count
    BY <1>0, <1>4, StutterType DEF RecGoOn
  <2>2. RecType'
    BY <1>0, <1>4, <2>1, AdvanceType DEF RecGoOn, RecType
  <2> QED
    BY <1>0, <1>4, <2>1, <2>2, SamplesKept, UploadKept DEF RecGoOn, TypeOK
<1>5. ASSUME NEW r \in RowId, RecFinish(r) \/ RecLeave(r) PROVE TypeOK'
  <2>1. TableType' /\ count' = count
    BY <1>0, <1>5, StutterType, MarkSentType DEF RecFinish, RecLeave
  <2>2. RecType'
    BY <1>5, <2>1, AdvanceType DEF RecFinish, RecLeave
  <2> QED
    BY <1>0, <1>5, <2>1, <2>2, SamplesKept, UploadKept
    DEF RecFinish, RecLeave, TypeOK
<1>6. ASSUME NEW r \in RowId, NEW s \in Sample, RecSend(r, s) PROVE TypeOK'
  <2>1. TableType' /\ count' = count /\ RecType'
    BY <1>0, <1>6, StutterType DEF RecSend, RecType
  <2>2. snapSid[r] \in Sid \cup {NoSid}
    BY <1>0 DEF RecType
  <2>3. SampleType'
    BY <1>0, <1>6, <2>1, <2>2, ResendType DEF RecSend, SampleType
  <2> QED
    BY <1>0, <1>6, <2>1, <2>3, UploadKept DEF RecSend, TypeOK
<1> QED
  BY <1>1, <1>2, <1>3, <1>4, <1>5, <1>6 DEF RecRow

LEMMA NextType ==
  ASSUME TypeOK, [Next]_vars
  PROVE  TypeOK'
<1>0. count \in Nat /\ TableType
  BY MaxRowIsNat DEF TypeOK, TableType
<1>1. ASSUME NEW s \in Sample, PushStep(s) PROVE TypeOK'
  <2>1. /\ UNCHANGED <<tableVars, net, upVars, recVars>>
    BY <1>1 DEF PushStep, PushGps, UploadImage, PushAuth, Push, File, Drop
  <2>2. TableType' /\ count' = count
    BY <1>0, <2>1, StutterType
  <2> QED
    BY <1>0, <1>1, <2>1, <2>2, PushType, UploadKept, RecoveryKept DEF TypeOK
<1>2. ASSUME NEW s \in Sample, NEW r \in RowId, PushMissing(s, r) PROVE TypeOK'
  <2>1. TableType' /\ count' = count
    BY <1>0, <1>2, StutterType DEF PushMissing
  <2>2. SampleType'
    <3>1. sid[r] \in Sid \cup {NoSid}
      BY <1>0 DEF TableType
    <3> QED
      BY <1>2, <2>1, <3>1 DEF PushMissing, BrokerTakes, TypeOK, SampleType
  <2> QED
    BY <1>0, <1>2, <2>1, <2>2, UploadKept, RecoveryKept DEF PushMissing, TypeOK
<1>3. CASE SessionStep
  <2>1. TableType' /\ count <= count'
    BY <1>0, <1>3, UserStepKeepsIds DEF SessionStep
  <2> QED
    BY <1>3, <2>1, SamplesKept, UploadKept, RecoveryKept DEF SessionStep, TypeOK
<1>4. CASE NetChanges \/ UNCHANGED vars
  <2>1. /\ net' \in BOOLEAN
        /\ UNCHANGED <<tableVars, sampleVars, upVars, recVars>>
    BY <1>4 DEF NetChanges, TypeOK, vars
  <2>2. TableType' /\ count' = count
    BY <1>0, <2>1, StutterType
  <2> QED
    BY <1>0, <2>1, <2>2, SamplesKept, UploadKept, RecoveryKept DEF TypeOK
<1>5. CASE ProcessDies
  <2>1. TableType' /\ count' = count
    BY <1>0, <1>5, MaxRowIsNat DEF ProcessDies, Forget, TableType, NoRow
  <2>2. SampleType' /\ UpType'
    BY <1>5, <2>1 DEF ProcessDies, TypeOK, SampleType, UpType
  <2>3. RecType'
    BY <1>5 DEF ProcessDies, NoCopies, RecType, Status
  <2> QED
    BY <1>5, <2>1, <2>2, <2>3 DEF ProcessDies, TypeOK
<1> QED
  BY <1>1, <1>2, <1>3, <1>4, <1>5, UploadType, RecoveryType DEF Next

-----------------------------------------------------------------------------
(* The recovery's copies.                                                  *)

\* What leaves the recovery alone keeps its copies sound: it gives no id to a
\* row there is, files no sample that has a row, and unmarks none.
LEMMA CopiesKept ==
  ASSUME TInv, UNCHANGED recVars,
         \A r \in 1 .. count : sid'[r] = sid[r],
         \A s \in Sample : filed[s] # NoRow => filed'[s] = filed[s],
         sent \subseteq sent'
  PROVE  CopiesSound' /\ LeftSound'
<1>1. \A r \in recTodo : r \in 1 .. count /\ snapData[r] \subseteq Sample /\ r # NoRow
  BY MaxRowIsNat DEF TInv, TypeOK, RecType, TableType, RowId, NoRow
<1>2. CopiesSound'
  BY <1>1 DEF TInv, CopiesSound, recVars
<1>3. LeftSound'
  BY DEF TInv, LeftSound, Current, recVars
<1> QED
  BY <1>2, <1>3

\* So does going on to the next row: there is nothing left to send then.
LEMMA AdvanceKeepsCopies ==
  ASSUME TInv, NEW r \in RowId, RecAdvance(r), r \in recTodo,
         sid' = sid, filed' = filed
  PROVE  CopiesSound' /\ LeftSound'
<1>1. \A q \in recTodo' : q \in recTodo /\ q \in RowId /\ q # r
  BY MaxRowIsNat DEF RecAdvance, TInv, TypeOK, RecType, TableType, RowId
<1>2. \A q \in recTodo' : snapSid'[q] = snapSid[q] /\ snapData'[q] = snapData[q]
  BY <1>1 DEF RecAdvance, TInv, TypeOK, RecType
<1>3. CopiesSound'
  BY <1>1, <1>2 DEF TInv, CopiesSound
<1>4. LeftSound'
  BY DEF RecAdvance, LeftSound
<1> QED
  BY <1>3, <1>4

\* Only one row is the current one.
LEMMA CurrentIsOne ==
  ASSUME TypeOK, NEW q, NEW r, Current(q), Current(r)
  PROVE  q = r
BY MaxRowIsNat DEF TypeOK, RecType, TableType, Current

LEMMA RecoveryKeepsCopies ==
  ASSUME TInv, RecTrigger \/ RecList \/ \E r \in RowId : RecRow(r)
  PROVE  CopiesSound' /\ LeftSound'
<1>0. TypeOK /\ TableType /\ RecType /\ CopiesSound /\ LeftSound
  BY DEF TInv, TypeOK
<1>1. CASE RecTrigger
  BY <1>0, <1>1 DEF RecTrigger, CopiesSound, LeftSound, Current, tableVars,
     sampleVars
<1>2. CASE RecList
  <2>1. \A r \in Listed : r \in RowId
    BY <1>0, MaxRowIsNat DEF Listed, TableType, RowId
  <2> QED
    BY <1>0, <1>2, <2>1 DEF RecList, CopiesSound, LeftSound, tableVars,
       sampleVars, Unsent
<1>3. ASSUME NEW r \in RowId, NEW x \in Sid, RecOpen(r, x)
      PROVE  CopiesSound' /\ LeftSound'
  <2>1. /\ sid' = [sid EXCEPT ![r] = x] /\ snapSid' = [snapSid EXCEPT ![r] = x]
        /\ snapSid'[r] = x
        /\ UNCHANGED <<recTodo, snapData, filed, sent>>
        /\ recPc' = "data" /\ recLeft' = snapData[r]
    BY <1>0, <1>3, GiveIdType DEF RecOpen, RecType, sampleVars
  <2>2. \A q \in recTodo : q \in RowId /\ snapSid'[q] = sid'[q]
    BY <1>0, <2>1, MaxRowIsNat DEF TableType, RecType, RowId, CopiesSound
  <2>3. \A q : Current(q)' => q = r
    BY <1>0, <1>3, <2>1, CurrentIsOne DEF RecOpen, Current
  <2> QED
    BY <1>0, <2>1, <2>2, <2>3, NoSidIsNoId DEF CopiesSound, LeftSound
<1>4. ASSUME NEW r \in RowId, RecGoOn(r) PROVE CopiesSound' /\ LeftSound'
  <2>1. sid' = sid /\ UNCHANGED <<filed, sent>> /\ r \in recTodo
    BY <1>4 DEF RecGoOn, Current, tableVars, sampleVars
  <2>2. CASE snapSid[r] = NoSid
    BY <1>4, <2>1, <2>2, AdvanceKeepsCopies DEF RecGoOn
  <2>3. CASE snapSid[r] # NoSid
    <3>1. /\ recPc' = "data" /\ recLeft' = snapData[r]
          /\ UNCHANGED <<recTodo, snapSid, snapData>>
      BY <1>4, <2>3 DEF RecGoOn
    <3>2. \A q : Current(q)' => q = r
      BY <1>0, <1>4, <3>1, CurrentIsOne DEF RecGoOn, Current
    <3> QED
      BY <1>0, <2>1, <2>3, <3>1, <3>2 DEF CopiesSound, LeftSound
  <2> QED
    BY <2>2, <2>3
<1>5. ASSUME NEW r \in RowId, RecFinish(r) \/ RecLeave(r)
      PROVE  CopiesSound' /\ LeftSound'
  <2>1. sid' = sid /\ filed' = filed /\ r \in recTodo /\ RecAdvance(r)
    BY <1>0, <1>5, MarkSentType DEF RecFinish, RecLeave, Current, tableVars,
       sampleVars
  <2> QED
    BY <2>1, AdvanceKeepsCopies
<1>6. ASSUME NEW r \in RowId, NEW s \in Sample, RecSend(r, s)
      PROVE  CopiesSound' /\ LeftSound'
  <2>1. /\ sent \subseteq sent'
        /\ s \in Gps => s \in sent'
        /\ sid' = sid /\ filed' = filed /\ recLeft' = recLeft \ {s}
        /\ UNCHANGED <<recPc, recTodo, snapSid, snapData>>
    BY <1>0, <1>6, ResendType DEF RecSend, tableVars, RecType, TypeOK
  <2>2. CopiesSound'
    BY <1>0, <2>1 DEF CopiesSound
  <2>3. ASSUME NEW q \in recTodo, Current(q)
        PROVE  /\ snapSid[q] # NoSid /\ recLeft' \subseteq snapData[q]
               /\ (snapData[q] \cap Gps) \ recLeft' \subseteq sent'
    BY <1>0, <1>6, <2>1, <2>3 DEF LeftSound, RecSend
  <2> QED
    BY <1>6, <2>1, <2>2, <2>3 DEF LeftSound, Current, RecSend
<1> QED
  BY <1>1, <1>2, <1>3, <1>4, <1>5, <1>6 DEF RecRow

LEMMA TInvInit == Init => TInv
<1> SUFFICES ASSUME Init PROVE TInv
  OBVIOUS
<1> USE MaxRowIsNat DEF Init, TableInit
<1>1. TableType /\ SampleType /\ UpType /\ RecType /\ net \in BOOLEAN
  BY DEF TableType, SampleType, UpType, RecType, NoRow, Status
<1>2. FiledOnce /\ CopiesSound /\ LeftSound
  BY DEF FiledOnce, CopiesSound, LeftSound
<1> QED
  BY <1>1, <1>2 DEF TInv, TypeOK

\* A push that is under way has not filed its sample.
LEMMA PushFilesOnce ==
  ASSUME TInv, NEW s \in Sample, PushStep(s)
  PROVE  /\ FiledOnce'
         /\ \A q \in Sample : filed[q] # NoRow => filed'[q] = filed[q]
<1> USE DEF TInv, TypeOK, SampleType, FiledOnce
<1>1. CASE PushGps(s) \/ UploadImage(s) \/ PushAuth(s)
  <2>1. filed' = filed /\ pushPc[s] # "done" /\ \E pc : Goto(s, pc)
    BY <1>1 DEF PushGps, UploadImage, PushAuth, Push
  <2> QED
    BY <2>1 DEF Goto
<1>2. CASE File(s)
  BY <1>2 DEF File, Goto
<1>3. CASE Drop(s)
  BY <1>3 DEF Drop, Goto
<1> QED
  BY <1>1, <1>2, <1>3 DEF PushStep

LEMMA TInvStep ==
  ASSUME TInv, [Next]_vars
  PROVE  TInv'
<1>0. TypeOK /\ TypeOK' /\ FiledOnce
  BY NextType DEF TInv
<1> SUFFICES FiledOnce' /\ CopiesSound' /\ LeftSound'
  BY <1>0 DEF TInv
<1>1. ASSUME NEW s \in Sample, PushStep(s)
      PROVE  FiledOnce' /\ CopiesSound' /\ LeftSound'
  <2>1. sent \subseteq sent' /\ sid' = sid /\ UNCHANGED recVars
    BY <1>0, <1>1, PushType
    DEF PushStep, PushGps, UploadImage, PushAuth, Push, File, Drop, tableVars
  <2> QED
    BY <1>1, <2>1, PushFilesOnce, CopiesKept
<1>2. ASSUME ProcessDies PROVE FiledOnce' /\ CopiesSound' /\ LeftSound'
  BY <1>0, <1>2
  DEF ProcessDies, NoCopies, FiledOnce, CopiesSound, LeftSound, TypeOK, SampleType
<1>3. ASSUME sent \subseteq sent', UNCHANGED <<pushPc, filed, recVars>>,
             \A r \in 1 .. count : sid'[r] = sid[r]
      PROVE  FiledOnce' /\ CopiesSound' /\ LeftSound'
  BY <1>0, <1>3, CopiesKept DEF FiledOnce
<1>4. ASSUME NEW s \in Sample, UpSend(s)
      PROVE  FiledOnce' /\ CopiesSound' /\ LeftSound'
  <2>1. sid[live] \in Sid \cup {NoSid}
    BY <1>0, <1>4, MaxRowIsNat DEF UpSend, TypeOK, TableType, NoRow, RowId
  <2>2. sent \subseteq sent'
    BY <1>0, <1>4, <2>1, ResendType DEF UpSend, TypeOK
  <2> QED
    BY <1>3, <1>4, <2>2 DEF UpSend, tableVars
<1>5. CASE UpStep
  BY <1>2, <1>3, <1>4, <1>5
  DEF UpStep, UpStart, UpTurn, UpEnd, UpFails, sampleVars, tableVars
<1>6. CASE \E s \in Sample, r \in RowId : PushMissing(s, r)
  BY <1>3, <1>6 DEF PushMissing, tableVars
<1>7. CASE SessionStep
  BY <1>0, <1>3, <1>7, UserStepKeepsIds DEF SessionStep, TypeOK, sampleVars
<1>8. CASE NetChanges \/ UNCHANGED vars
  BY <1>3, <1>8 DEF NetChanges, vars, tableVars, sampleVars
<1>9. CASE RecTrigger \/ RecList \/ \E r \in RowId : RecRow(r)
  <2>1. filed' = filed /\ pushPc' = pushPc
    BY <1>9 DEF RecTrigger, RecList, RecRow, RecOpen, RecGoOn, RecFinish,
       RecLeave, RecSend, sampleVars
  <2> QED
    BY <1>0, <1>9, <2>1, RecoveryKeepsCopies DEF FiledOnce
<1> QED
  BY <1>1, <1>2, <1>5, <1>6, <1>7, <1>8, <1>9 DEF Next

\* The recovery's copies name the right sessions, and what it has been through
\* is marked, in every state of the telemetry.
THEOREM CopiesAreSound == Spec => []TInv
BY TInvInit, TInvStep, PTL DEF Spec

-----------------------------------------------------------------------------
(* What the recovery sends, and when it lets a session go.                 *)

\* Actions that are not the recovery's take nothing off its list, except the
\* death of the process.
LEMMA OthersLeaveRecovery ==
  ASSUME [Next]_vars,
         ~(RecTrigger \/ RecList \/ \E r \in RowId : RecRow(r))
  PROVE  \/ UNCHANGED recVars
         \/ ProcessDies
BY DEF Next, PushStep, PushGps, UploadImage, PushAuth, Push, File, Drop, UpStep,
   UpStart, UpSend, UpTurn, UpEnd, UpFails, PushMissing, SessionStep,
   NetChanges, vars

LEMMA NamesOwnSession ==
  ASSUME TInv, [Next]_vars, NEW s \in recLeft \ recLeft'
  PROVE  taken'[s] \subseteq taken[s] \cup ({sid[filed[s]]} \cap Sid)
<1>0. TypeOK /\ CopiesSound /\ LeftSound /\ recPc = "data" /\ s \in Sample
  BY DEF TInv, LeftSound, TypeOK, RecType
<1>1. CASE ~(RecTrigger \/ RecList \/ \E r \in RowId : RecRow(r))
  BY <1>1, OthersLeaveRecovery DEF ProcessDies, recVars
<1>2. CASE RecTrigger \/ RecList
  BY <1>0, <1>2 DEF RecTrigger, RecList
<1>3. ASSUME NEW r \in RowId, RecRow(r)
      PROVE  taken'[s] \subseteq taken[s] \cup ({sid[filed[s]]} \cap Sid)
  <2>1. CASE \E q \in Sample : RecSend(r, q)
    <3>1. PICK q \in Sample : RecSend(r, q)
      BY <2>1
    <3>2. s = q
      BY <3>1 DEF RecSend
    <3>3. /\ r \in recTodo /\ snapSid[r] = sid[r] /\ filed[s] = r
          /\ snapSid[r] \in Sid
      BY <1>0, <3>1, <3>2
      DEF RecSend, Current, LeftSound, CopiesSound, TypeOK, RecType
    <3>4. taken'[s] \subseteq taken[s] \cup {snapSid[r]}
      BY <1>0, <3>1, <3>2, <3>3, ResendType DEF RecSend, TypeOK
    <3> QED
      BY <3>3, <3>4
  <2>2. CASE RecFinish(r) \/ RecLeave(r)
    BY <2>2 DEF RecFinish, RecLeave
  <2>3. CASE RecGoOn(r) \/ \E x \in Sid : RecOpen(r, x)
    BY <1>0, <2>3 DEF RecGoOn, RecOpen
  <2> QED
    BY <1>3, <2>1, <2>2, <2>3 DEF RecRow
<1> QED
  BY <1>1, <1>2, <1>3

\* Whatever goes on meanwhile, a sample sent by the recovery is sent under the
\* id of the session it is filed under.
THEOREM RecoveryNamesOwn == Spec => RecoveryNamesOwnSession
<1>1. TInv /\ [Next]_vars =>
        [\A s \in recLeft \ recLeft' :
           taken'[s] \subseteq taken[s] \cup ({sid[filed[s]]} \cap Sid)]_vars
  BY NamesOwnSession
<1> QED
  BY <1>1, CopiesAreSound, PTL DEF Spec, RecoveryNamesOwnSession

LEMMA FinishIsLast ==
  ASSUME TInv, [Next]_vars, NEW r \in recTodo \ recTodo',
         status[r] # "sent", status'[r] = "sent"
  PROVE  snapData[r] \cap Gps \subseteq sent
<1>0. TypeOK /\ LeftSound /\ r \in recTodo
  BY DEF TInv
<1>1. CASE ~(RecTrigger \/ RecList \/ \E q \in RowId : RecRow(q))
  BY <1>1, OthersLeaveRecovery DEF ProcessDies, Forget, recVars
<1>2. CASE RecTrigger \/ RecList
  BY <1>2 DEF RecTrigger, RecList, tableVars
<1>3. ASSUME NEW q \in RowId, RecRow(q)
      PROVE  snapData[r] \cap Gps \subseteq sent
  <2>1. CASE RecFinish(q)
    <3>1. r = q /\ recLeft = {} /\ recPc = "data" /\ Current(q)
      BY <2>1 DEF RecFinish, RecAdvance
    <3> QED
      BY <1>0, <3>1 DEF LeftSound
  <2>2. CASE RecLeave(q) \/ RecGoOn(q) \/ \E s \in Sample : RecSend(q, s)
    BY <2>2 DEF RecLeave, RecGoOn, RecSend, tableVars
  <2>3. CASE \E x \in Sid : RecOpen(q, x)
    BY <2>3 DEF RecOpen
  <2> QED
    BY <1>3, <2>1, <2>2, <2>3 DEF RecRow
<1> QED
  BY <1>1, <1>2, <1>3

\* The finish of a recovered session is sent after every position that was
\* unsent when the session was listed.
THEOREM FinishComesLast == Spec => DataBeforeFinish
<1>1. TInv /\ [Next]_vars =>
        [\A r \in recTodo \ recTodo' :
           status[r] # "sent" /\ status'[r] = "sent"
             => snapData[r] \cap Gps \subseteq sent]_vars
  BY FinishIsLast
<1> QED
  BY <1>1, CopiesAreSound, PTL DEF Spec, DataBeforeFinish
=============================================================================
