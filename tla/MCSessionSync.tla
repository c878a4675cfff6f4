--------------------------- MODULE MCSessionSync ---------------------------
(***************************************************************************)
(* Model-checking definitions for SessionSync: symmetry, and the fairness  *)
(* under which its liveness properties are checked.                        *)
(***************************************************************************)
EXTENDS SessionSync, TLC

Symmetry == Permutations(Sid) \cup Permutations(Finisher)

\* To keep the instance small, a second session on the server, a second student,
\* a restart and finishes that overlap are looked at one at a time, the latter
\* two with one row, and the last three without a forced logout; with a second
\* session a fetch and the recovery do not overlap.
UsedIds == {x \in Sid : srvState[x] # "unused"}
SeveralStudents == \/ loginStudent # AnyStudent
                   \/ \E r \in 1 .. rowCount : rowStudent[r] # AnyStudent
                   \/ \E x \in UsedIds : srvStudent[x] # AnyStudent
FinishesOverlap == \E f, g \in Finisher : f # g /\ finPc[f] # "idle" /\ finPc[g] # "idle"
OneAtATime ==
  LET single == ~SeveralStudents /\ Cardinality(UsedIds) <= 1
  IN  /\ Cardinality(UsedIds) > 1 => ~SeveralStudents /\ "idle" \in {fetchPc, recPc}
      /\ SeveralStudents => fetchPc = "idle"
      /\ restarts > 0 \/ FinishesOverlap => single /\ rowCount <= 1 /\ fetchPc = "idle"
      /\ restarts > 0 => ~FinishesOverlap

\* The recovery coroutine and a finish that has been saved go on running; a
\* connectivity event is delivered again and again; a call repeated for ever
\* is answered with success some time.
RecoverySteps == RecList \/ \E r \in RowId : RecoverRow(r)

Fairness ==
  /\ WF_vars(RecoverySteps)
  /\ \A f \in Finisher : WF_vars(FinishReset(f))
  /\ WF_vars(NetworkAvailable)
  /\ \A r \in RowId : SF_vars(RecStart(r)) /\ SF_vars(RecFinish(r))

\* A process that was restarted has one row (bound).
FairSpec == Init /\ [][Next /\ (restarts' > 0 => rowCount' <= 1)]_vars /\ Fairness

\* A row waits in vain when the server, which is bounded, has no id left, and
\* none is on its way to the row.
IdsUsedUp(r) ==
  /\ NotStarted(rowState[r])
  /\ \A x \in Sid : srvState[x] # "unused"
  /\ ~(recPc = "startReply" /\ Current(r))
Sent(r) == rowState[r] = START_ONLINE_FINISH_ONLINE

\* A saved finish is resent until the server has it, when the network stays:
\* no interleaving of logins, finishes, recoveries and process deaths loses it.
SavedFinishIsSent ==
  <>[]net => \A r \in RowId :
                Finished(rowState[r]) ~> Sent(r) \/ IdsUsedUp(r)

\* The finishes that can be resent are resent until the server has them: no row
\* blocks the rows behind it in the recovery, and no restart loses one.
ResendableIsSent ==
  <>[]net => \A r \in RowId : Resendable(r) ~> Sent(r) \/ IdsUsedUp(r)

\* The recovery gives recoverUploadInProgress back.
RecoveryEnds == recPc # "idle" ~> recPc = "idle"
=============================================================================
