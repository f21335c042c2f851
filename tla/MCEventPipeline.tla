--------------------------- MODULE MCEventPipeline ---------------------------
(* Small instances of EventPipeline for TLC. *)
EXTENDS EventPipeline, Harnesses

LogAndStderr == {"log", "stderr"}

\* For the safety run lines of several events that end a session: a failed
\* turn of codex (the terminal event is not the line's last) and a result line
\* of the other harnesses; and a line of stderr that no parser knows.
VerdictFrames == { <<"failed", "turnEnd">>, <<"plain", "completed">> }
QuietFrames == { <<>> }

\* For the liveness run also a line without events and the end of a turn of
\* codex, which is no verdict, and a line of stderr with an event.
AnyFrames == VerdictFrames \cup { <<>>, <<"plain", "turnEnd">> }
PlainFrames == { <<"plain">> }

\* The pipeline tells only these types apart; the frames are frames of the
\* harnesses, and those it leaves out add nothing but length.
Kind(event) == IF event \in Verdicts THEN event ELSE IF event = "turnCompleted" THEN "turnEnd" ELSE "plain"
KindsOf(frame) == [i \in DOMAIN frame |-> Kind(frame[i])]
ASSUME FramesAreReal ==
  /\ AnyFrames \subseteq {KindsOf(f) : f \in AllFrames}
  /\ QuietFrames \cup PlainFrames \subseteq {KindsOf(f) : f \in AllErrFrames}

TwoAndOne == [s \in {"log", "stderr"} |-> IF s = "log" THEN 2 ELSE 1]
OneAndOne == [s \in {"log", "stderr"} |-> 1]
=============================================================================
