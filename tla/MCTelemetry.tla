---------------------------- MODULE MCTelemetry ----------------------------
(***************************************************************************)
(* Model-checking definitions for Telemetry: symmetry, and the fairness    *)
(* under which its liveness properties are checked.                        *)
(***************************************************************************)
EXTENDS Telemetry, TLC

Symmetry == Permutations(Sid)

\* The coroutine of a re-upload and that of a recovery go on running, and so
\* does that of a push once it has begun; the camera keeps authenticating the
\* student, which starts the re-upload; a call repeated for ever gets through.
UpGoesOn == (\E s \in Sample : UpSend(s)) \/ UpTurn \/ UpEnd \/ UpFails
RecGoesOn == RecList \/ \E r \in RowId : RecRow(r)
Marks(s) == s \notin sent /\ s \in sent'

Fairness ==
  /\ WF_vars(UpGoesOn) /\ WF_vars(RecGoesOn)
  /\ WF_vars(UpStart("clock"))
  /\ \A s \in Sample : /\ WF_vars(PushAuth(s) \/ File(s) \/ Drop(s))
                       /\ SF_vars(UpSend(s) /\ Marks(s))

FairSpec == Spec /\ Fairness

\* The re-upload gives isReUploadDataInSession back, unless the exception of a
\* finish, on a session that is gone, has left it set: then the process must
\* die for anything to be re-uploaded while a session runs.
UploadEnds == upPc \in {"auth", "gps"} ~> upPc \in {"idle", "dead"}

\* What failed to be sent in the session in memory is sent before it ends, if
\* it goes on, online, for long enough: neither a recovery under way nor the
\* re-upload's flag, given back late, keeps it from being tried.
LiveSampleIsTried ==
  \A s \in Sample :
    <>[](net /\ live # NoRow /\ sid[live] # NoSid /\ filed[s] = live)
      => <>(s \in sent \/ upPc = "dead")
=============================================================================
