----------------------------- MODULE Watch_proofs -----------------------------
(***************************************************************************)
(* The foreground run, for any number of turns and restarts: what its exit *)
(* code says of the session. That the followers come to an end is liveness *)
(* and stays with the model checker.                                       *)
(***************************************************************************)
EXTENDS Watch, TLAPS

-----------------------------------------------------------------------------
(* The session as a run follows it. *)

Statuses == {"working"} \cup Ended

\* The first turn of a session that nobody stopped, under the daemon that
\* started it.
First == turns = 1 /\ restarts = 0 /\ ~stopAsked /\ Up

WatchTypes ==
  /\ turns \in Nat \ {0} /\ restarts \in Nat
  /\ refused \in BOOLEAN
  /\ status \in Statuses
  /\ lock = "stop" => stopAsked /\ was \in Statuses
  /\ loop = "holds" => held \in Verdicts
  /\ isLast => said \in Verdicts
  /\ status = "stopped" => stopAsked
  /\ pc # "ended" => code = None

\* A verdict is stored, told or heard only of a session that is over, since the
\* status is written first, or whose row could not be written.
Over == Terminal(status) \/ refused
HeardIsOver == First /\ (said # None \/ mail # {} \/ pc = "finish") => Over

WatchInv == WatchTypes /\ HeardIsOver

LEMMA WatchInitially == Init => WatchInv
<1> SUFFICES ASSUME Init PROVE WatchInv
  OBVIOUS
<1>1. HeardIsOver
  BY DEF Init, HeardIsOver
<1>2. refused \in BOOLEAN
  BY DEF Init
<1>3. WatchTypes
  BY <1>2 DEF Init, WatchTypes, Statuses
<1> QED BY <1>1, <1>3 DEF WatchInv

-----------------------------------------------------------------------------
(* The steps of the session. *)

\* A turn that is not the first leaves nothing to say.
LEMMA LaterTurn ==
  ASSUME turns \in Nat \ {0}, turns' = turns + 1
  PROVE  turns' \in Nat \ {0} /\ HeardIsOver'
<1>1. turns' # 1 /\ turns' \in Nat \ {0}
  OBVIOUS
<1> QED BY <1>1 DEF HeardIsOver, First

LEMMA OverNow == ASSUME Over' PROVE HeardIsOver'
BY DEF HeardIsOver

\* What was over stays over, and nothing is heard that was not over.
LEMMA OverStill ==
  ASSUME WatchInv, First' => First, Over => Over',
         said' # None \/ mail' # {} \/ pc' = "finish" =>
            said # None \/ mail # {} \/ pc = "finish" \/ Over
  PROVE  HeardIsOver'
BY DEF WatchInv, HeardIsOver

\* An outcome goes to the row, or is refused; either way the session is over.
LEMMA Written ==
  ASSUME WatchInv, NEW v \in Ended, Writes(v)
  PROVE  status' \in {v, status} /\ refused' \in BOOLEAN /\ Over'
BY DEF Writes, Sets, Refuses, Over, Terminal, WatchInv, WatchTypes

\* What a loop that throws writes and tells.
LEMMA ThrownIsOver ==
  ASSUME WatchInv, Thrown, turns' = turns, restarts' = restarts, daemon' = daemon, stopAsked' = stopAsked, pc' = pc
  PROVE  /\ status' \in {"failed", status} /\ refused' \in BOOLEAN /\ UNCHANGED log
         /\ HeardIsOver'
<1>1. CASE turns = 1 /\ restarts = 0
  <2>1. Writes("failed") /\ UNCHANGED log
    BY <1>1 DEF Thrown, log
  <2> QED BY <2>1, Written, OverNow DEF Ended
<1>2. CASE ~(turns = 1 /\ restarts = 0)
  <2>1. UNCHANGED <<row, mail, log>>
    BY <1>2 DEF Thrown, log
  <2> QED BY <2>1, OverStill DEF row, log, Over, Terminal, First, Up, WatchInv, WatchTypes
<1> QED BY <1>1, <1>2

LEMMA ReportSteps ==
  ASSUME WatchInv, turns' = turns, restarts' = restarts, daemon' = daemon, stopAsked' = stopAsked, pc' = pc,
         (Tells("failed") /\ Sets("failed")) \/ ReportRefused
  PROVE  /\ status' \in {"failed", status} /\ refused' \in BOOLEAN /\ HeardIsOver'
         /\ isLast' => said' = "failed" \/ (isLast /\ said' = said)
<1>1. CASE Tells("failed") /\ Writes("failed")
  BY <1>1, Written, OverNow DEF Tells, Logs, Ended
<1>2. CASE Thrown
  BY <1>2, ThrownIsOver DEF log
<1> QED BY <1>1, <1>2 DEF ReportRefused, Writes

LEMMA TurnSteps ==
  ASSUME WatchInv,
         Started \/ (\E v \in Verdicts : Arrives(v)) \/ Commits \/ Throws \/ TailThrows
  PROVE  WatchInv'
<1> USE DEF WatchInv, WatchTypes, Statuses, Ended, Verdicts, Terminal
<1>1. CASE Started
  BY <1>1, OverStill DEF Started, row, log, stop, life, follower, First, Up, Over
<1>2. ASSUME NEW v \in Verdicts, Arrives(v) PROVE WatchInv'
  BY <1>2, OverStill DEF Arrives, row, log, stop, life, follower, First, Up, Over
<1>3. CASE Commits
  <2>1. /\ held \in Verdicts /\ said' = held /\ loop' # "holds"
        /\ UNCHANGED <<turns, restarts, lock, was, stopAsked, pc, code>>
    BY <1>3 DEF Commits, Tells, Logs, life, follower
  <2>2. CASE status = "stopped"
    <3>1. UNCHANGED row
      BY <1>3, <2>2 DEF Commits
    <3> QED BY <2>1, <2>2, <3>1, OverNow DEF row, Over
  <2>3. CASE status # "stopped"
    <3>1. Writes(held)
      BY <1>3, <2>3 DEF Commits
    <3> QED BY <2>1, <3>1, Written, OverNow
  <2> QED BY <2>2, <2>3
<1>4. CASE Throws
  <2>1. loop' # "holds" /\ UNCHANGED <<turns, restarts, daemon, lock, was, stopAsked, pc, code>>
    BY <1>4 DEF Throws, life, follower
  <2>2. (Tells("failed") /\ Sets("failed")) \/ ReportRefused
    BY <1>4 DEF Throws
  <2> QED BY <2>1, <2>2, ReportSteps
<1>5. CASE TailThrows
  <2>1. loop' # "holds" /\ UNCHANGED <<turns, restarts, daemon, lock, was, stopAsked, pc, code>>
    BY <1>5 DEF TailThrows, life, follower
  <2>2. ReportRefused
    BY <1>5 DEF TailThrows, ReportRefused
  <2> QED BY <2>1, <2>2, ReportSteps
<1> QED BY <1>1, <1>2, <1>3, <1>4, <1>5

\* A start that fails.
LEMMA FailureSteps ==
  ASSUME WatchInv, NEW owner, Failure(owner),
         turns' = turns, restarts' = restarts, daemon' = daemon, stopAsked' = stopAsked, pc' = pc
  PROVE  /\ status' \in {"failed", status} /\ refused' \in BOOLEAN /\ HeardIsOver'
         /\ isLast' => said' = "failed" \/ (isLast /\ said' = said)
BY Written, OverNow DEF Failure, Logs, log, Ended

LEMMA StartSteps ==
  ASSUME WatchInv, StartFails \/ (\E owner \in {"send", "dispatch", "resume"} : StartRefused(owner))
  PROVE  WatchInv'
<1>1. PICK owner : Failure(owner)
  BY DEF StartFails, StartRefused
<1>2. /\ UNCHANGED <<turns, restarts, daemon, was, stopAsked, pc, code, held>>
      /\ loop' \in {"off", "stuck"} /\ lock' \in {lock, "free"}
  BY DEF StartFails, StartRefused, turn, life, follower
<1>3. /\ status' \in {"failed", status} /\ refused' \in BOOLEAN /\ HeardIsOver'
      /\ isLast' => said' = "failed" \/ (isLast /\ said' = said)
  BY <1>1, <1>2, FailureSteps
<1> QED BY <1>2, <1>3 DEF WatchInv, WatchTypes, Statuses, Ended, Verdicts

LEMMA EndSteps == ASSUME WatchInv, NEW resumable \in BOOLEAN, Ends(resumable) PROVE WatchInv'
<1> USE DEF WatchInv, WatchTypes, Statuses, Ended, Verdicts, Terminal
<1>0. UNCHANGED <<held, was, stopAsked, restarts, pc, code>>
  BY DEF Ends, life, follower
<1>1. CASE Dispatches(resumable)
  <2>1. /\ lock' = "dispatch" /\ loop' = "starts" /\ turns' = turns + 1 /\ status' = "working"
        /\ refused' = refused /\ isLast' = FALSE
    BY <1>1 DEF Ends, Sets
  <2> QED BY <1>0, <2>1, LaterTurn
<1>2. CASE ~Dispatches(resumable)
  <2>1. /\ status' = (IF Terminal(status) THEN status ELSE IF isLast THEN said ELSE "failed")
        /\ loop' = "off" /\ UNCHANGED <<refused, lock, turns>>
        /\ isLast' => said' = "failed" \/ (isLast /\ said' = said)
    BY <1>2 DEF Ends, Sets, Logs, log
  <2> QED BY <1>0, <2>1, OverNow DEF Over
<1> QED BY <1>1, <1>2

LEMMA RequestSteps == ASSUME WatchInv, Sends \/ AutoResumes PROVE WatchInv'
<1> USE DEF WatchInv, WatchTypes, Statuses, Ended, Verdicts, Terminal
<1>0. UNCHANGED <<was, stopAsked, restarts, pc, code, mail>>
  BY DEF Sends, AutoResumes, life, follower
<1>1. CASE Begins("send") \/ Begins("resume")
  <2>1. /\ lock' \in {"send", "resume"} /\ loop' = "starts" /\ turns' = turns + 1
        /\ status' = "working" /\ refused' = refused /\ isLast' = FALSE
    BY <1>1 DEF Begins, Sets, LogsOther
  <2> QED BY <1>0, <2>1, LaterTurn
<1>2. CASE LogsOther /\ UNCHANGED <<row, turn, lock>> /\ daemon' = daemon
  BY <1>0, <1>2, OverStill DEF LogsOther, row, turn, First, Up, Over
<1> QED BY <1>1, <1>2 DEF Sends, AutoResumes, life

LEMMA StopSteps == ASSUME WatchInv, Stops \/ StopEnds \/ StopFails PROVE WatchInv'
<1> USE DEF WatchInv, WatchTypes, Statuses, Ended, Verdicts, Terminal
<1>1. stopAsked' /\ UNCHANGED <<turns, restarts, loop, held, pc, code>>
  BY DEF Stops, StopEnds, StopFails, turn, life, follower
<1>2. HeardIsOver'
  BY <1>1 DEF HeardIsOver, First
<1>3. CASE Stops
  BY <1>1, <1>2, <1>3 DEF Stops, Sets, log
<1>4. CASE StopEnds
  <2>1. status' \in {status, said} /\ (status' # status => isLast) /\ refused' = refused /\ lock' = "free"
        /\ (isLast' => said' = "completed" \/ (isLast /\ said' = said))
    BY <1>4 DEF StopEnds, Sets, row, log
  <2> QED BY <1>1, <1>2, <2>1
<1>5. CASE StopFails
  BY <1>1, <1>2, <1>5 DEF StopFails, Sets, Refuses, log
<1> QED BY <1>3, <1>4, <1>5

LEMMA DaemonSteps == ASSUME WatchInv, Shutdown \/ Dies \/ Boots PROVE WatchInv'
<1> USE DEF WatchInv, WatchTypes, Statuses, Ended, Verdicts, Terminal
<1>1. ~First'
  <2>1. CASE Shutdown \/ Dies
    BY <2>1 DEF Shutdown, Dies, First, Up
  <2>2. CASE Boots
    <3>1. restarts' = restarts + 1
      BY <2>2 DEF Boots
    <3> QED BY <3>1 DEF First
  <2> QED BY <2>1, <2>2
<1>2. HeardIsOver'
  BY <1>1 DEF HeardIsOver
<1>3. CASE Shutdown
  <2>1. /\ status' \in {status, "interrupted"} /\ refused' \in BOOLEAN /\ loop' # "holds"
        /\ isLast' => said' = "failed" \/ (isLast /\ said' = said)
        /\ UNCHANGED <<turns, restarts, lock, was, stopAsked, pc, code>>
    <3>1. loop' # "holds" /\ UNCHANGED <<turns, restarts, lock, was, stopAsked, pc, code>>
      BY <1>3 DEF Shutdown, stop, follower
    <3>2. CASE UNCHANGED <<row, log, mail>>
      BY <3>1, <3>2 DEF row, log
    <3>3. CASE Writes("interrupted") /\ said' = "failed"
      BY <3>1, <3>3 DEF Writes, Sets, Refuses
    <3> QED BY <1>3, <3>2, <3>3 DEF Shutdown
  <2> QED BY <1>2, <2>1
<1>4. CASE Dies
  BY <1>2, <1>4 DEF Dies, row, log, follower
<1>5. CASE Boots
  <2>1. /\ restarts' = restarts + 1 /\ UNCHANGED <<refused, turns, held, lock, was, stopAsked, pc, code>>
        /\ status' \in {status, "failed", "orphaned"} /\ (loop' = "holds" => loop = "holds")
        /\ isLast' => said' = "failed" \/ (isLast /\ said' = said)
    BY <1>5 DEF Boots, stop, log, follower
  <2> QED BY <1>2, <2>1
<1> QED BY <1>3, <1>4, <1>5

-----------------------------------------------------------------------------
(* The steps of the followers. *)

\* A follower changes nothing of the session and hears of it what is so.
LEMMA Hearing ==
  ASSUME WatchInv, session' = session, pc' # "ended" => code' = code /\ pc # "ended",
         First /\ (mail' # {} \/ pc' = "finish") =>
            mail # {} \/ pc = "finish" \/ said # None \/ Over
  PROVE  WatchInv'
<1> USE DEF session, row, log, turn, stop, life, Over
<1>1. WatchTypes'
  BY DEF WatchInv, WatchTypes
<1>2. HeardIsOver'
  BY DEF WatchInv, HeardIsOver, First, Up, Terminal
<1> QED BY <1>1, <1>2 DEF WatchInv

LEMMA FollowSteps == ASSUME WatchInv, Follows PROVE WatchInv'
<1>1. Subscribe /\ mail' # {} => Over
  BY DEF Subscribe, Over
<1>2. CASE WaitGets \/ WaitSubscribes \/ WaitHears
  BY <1>1, <1>2, Hearing DEF WaitGets, WaitSubscribes, WaitHears, HangUp, Exit
<1>3. CASE LogsReads \/ LogsSubscribes \/ LogsHears \/ LogsPolls
  BY <1>1, <1>3, Hearing DEF LogsReads, LogsSubscribes, LogsHears, LogsPolls, HangUp, Exit
<1>4. CASE RunSubscribes
  BY <1>1, <1>4, Hearing DEF RunSubscribes, First
<1>5. CASE RunReadsLog
  BY <1>5, Hearing DEF RunReadsLog, HangUp
<1>6. CASE RunHears
  BY <1>6, Hearing DEF RunHears, HangUp
<1>7. CASE RunFinishes \/ RunPolls
  BY <1>7, Hearing DEF RunFinishes, RunPolls, HangUp, Exit
<1> QED BY <1>2, <1>3, <1>4, <1>5, <1>6, <1>7 DEF Follows

LEMMA WatchStep == WatchInv /\ [Next]_vars => WatchInv'
<1> SUFFICES ASSUME WatchInv, [Next]_vars PROVE WatchInv'
  OBVIOUS
<1>1. CASE UNCHANGED vars
  BY <1>1 DEF vars, session, row, log, turn, stop, life, follower, WatchInv, WatchTypes, HeardIsOver, Over, First, Up,
     Terminal
<1> QED BY <1>1, TurnSteps, StartSteps, EndSteps, RequestSteps, StopSteps, DaemonSteps, FollowSteps DEF Next

-----------------------------------------------------------------------------

LEMMA OkIsCompleted ==
  ASSUME WatchInv, [Next]_vars, kind = "run", pc # "ended", code' = "ok", First
  PROVE  status = "completed" \/ (refused /\ status = "working")
<1>1. code = None /\ code' # code
  BY NoneAssumption DEF WatchInv, WatchTypes, NoneAssumption
<1>2. RunFinishes \/ RunPolls
  BY <1>1 DEF Next, Started, StartFails, StartRefused, Arrives, Commits, Ends, TailThrows, Throws, Sends, Stops,
     StopEnds, StopFails, Shutdown, Dies, Boots, AutoResumes, Follows, WaitGets, WaitSubscribes, WaitHears,
     RunSubscribes, RunReadsLog, RunHears, LogsReads, LogsSubscribes, LogsHears, LogsPolls, follower, vars
<1>3. Over /\ Code(status) = "ok"
  BY <1>2 DEF RunFinishes, RunPolls, Exit, First, WatchInv, HeardIsOver, Over
<1>4. status # "stopped" /\ status \in Statuses
  BY DEF First, WatchInv, WatchTypes
<1> QED BY <1>3, <1>4 DEF Over, Terminal, Ended, Statuses, Code

\* The exit code of run is the outcome (foreground, finishFromStore of run.ts):
\* of a session with one turn that nobody stopped, 0 under the daemon that
\* started it means completed, or a row that the store kept from being written,
\* however the subscription, the request for the log, the poll, the end of the
\* turn and refused writes fall together.
THEOREM ExitIsOutcome == Spec => RunTellsOutcome
<1>1. WatchInv /\ [Next]_vars =>
        [kind = "run" /\ pc # "ended" /\ code' = "ok" /\ turns = 1 /\ ~stopAsked /\ Up /\ restarts = 0
           => status = "completed" \/ (refused /\ status = "working")]_vars
  BY OkIsCompleted DEF First
<1> QED BY <1>1, WatchInitially, WatchStep, PTL DEF Spec, RunTellsOutcome
=============================================================================
