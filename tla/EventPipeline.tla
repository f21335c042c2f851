---------------------------- MODULE EventPipeline ----------------------------
(***************************************************************************)
(* The path of one session's events: a detached harness appends lines to   *)
(* its log files, the tailers of a SessionRuntime read complete lines and  *)
(* normalize them into a buffer, the daemon's event loop takes the events  *)
(* one by one and commits each with the read cursor in one transaction.    *)
(* The daemon may be killed and restarted at any step: the buffer is lost, *)
(* the files and the database stay, and a new runtime reads on from the    *)
(* committed cursor.  Stop and the power shutdown cut into the same path.  *)
(*                                                                         *)
(* Simplifications:                                                        *)
(*   - Cursors count lines.  The tailer holds a half-written line back, so *)
(*     every offset it hands out is the end of a line.                     *)
(*   - A line is the sequence of the event types it normalizes to; parsing *)
(*     is a function of the line.                                          *)
(*   - A flush reads its lines one at a time, before Finish and            *)
(*     DrainRuntime.  One that stops short, at its deadline or at a file   *)
(*     error, leaves lines unread; the half line it may end on is one of   *)
(*     them (finishPartial hands it on as a line of its own).              *)
(*   - Deliver and Commit are two steps because the store may be busy in   *)
(*     between; the retries themselves change nothing.                     *)
(*   - A session row is one turn's worth of status and cursor; the queue,  *)
(*     native ids and the locks of other operations are SessionLifecycle's.*)
(***************************************************************************)
EXTENDS Naturals, Sequences

CONSTANTS
  Streams,       \* the log files: stdout is "log", the other is "stderr"
  Frames,        \* the event sequences a line can normalize to
  ErrFrames,     \* the same for lines of stderr: never a terminal event
  MaxLines,      \* MaxLines[s] bounds the lines ever written to file s
  MaxTurns,      \* bounds the turns of the session
  MaxRestarts,   \* bounds the times the daemon goes down, either way
  MaxFaults      \* bounds the times that the store or a log file gives out

Terminal == {"completed", "failed"}
EventTypes == Terminal \cup {"plain", "turnEnd"}

ASSUME StreamsAssumption == Streams = {"log", "stderr"}
ASSUME FramesAssumption ==
  /\ Frames \subseteq Seq(EventTypes)
  /\ ErrFrames \subseteq Seq(EventTypes)
\* A line that ends a session goes on with one event at most, codex's end of
\* the turn: read again after a terminal event was discarded, a longer one
\* would be stored out of order.
ASSUME VerdictAssumption ==
  \A f \in Frames \cup ErrFrames : \A i \in 1..Len(f) : f[i] \in Terminal => Len(f) <= i + 1
ASSUME BoundsAssumption ==
  /\ MaxLines \in [Streams -> Nat]
  /\ MaxTurns \in Nat /\ MaxRestarts \in Nat /\ MaxFaults \in Nat

VARIABLES
  \* The harness and its files.
  out,         \* out[s]: the frames of the complete lines in file s
  alive,       \* the process of the current turn runs
  turn,        \* turns started so far
  \* The database.
  store,       \* the events table of the session, oldest first
  saved,       \* saved[s]: the session row's cursor into file s
  status,      \* the session row's status
  \* The daemon process and the runtime of the current turn.
  daemon,      \* "up", "down" or how far the shutdown has come
  restarts,    \* times the daemon went down so far
  rt,          \* "none", "live" or "done"
  polled,      \* the runtime was reattached: it only polls the pid
  read,        \* read[s]: lines of file s handled
  buffer,      \* normalized events, oldest first
  yielded,     \* events handed to the event loop
  consumed,    \* events the event loop is finished with
  safe,        \* safe[s]: the cursor the next commit stores
  quietLine,   \* quietLine[s]: a line without events held back, 0 if none
  quietAt,     \* quietAt[s]: events that must be yielded before it is passed
  consumer,    \* the event loop: "none", "pending", "running", "ended", "gone"
  locked,      \* sessionLocks holds the session
  starting,    \* the start of a turn has thrown and is yet to be reported
  stopReq,     \* the runtime was told to stop
  stopping,    \* the stop operation in progress, or NoStop
  wasActive,   \* the shutdown's snapshot of active sessions has this one, so
               \* its runtime was told of the shutdown (shutdownRequested)
  \* History.
  base,        \* base[s]: lines in file s when the current turn started
  dropped,     \* terminal events the event loop discarded under the lock
  faults,      \* times that the store or a file failed so far
  split,       \* an outcome was written to the row or to the log alone
  refused      \* the store refused an outcome in this life of the daemon

harness  == <<out, alive, turn>>
db       == <<store, saved, status>>
runtime  == <<rt, polled, read, buffer, yielded, consumed, safe, quietLine, quietAt>>
control  == <<consumer, locked, starting, stopReq, stopping, wasActive>>
history  == <<faults, base, dropped, split, refused>>
vars     == <<harness, db, daemon, restarts, runtime, control, history>>
-----------------------------------------------------------------------------
(* Values. *)

Origins == {"turn", "exit", "tail", "stop", "shutdown", "fault"}

\* The idx-th of the events that a line stands for, of them in all.
AnyEvent == [stream : Streams \cup Origins, line : Nat, idx : Nat, of : Nat,
             type : EventTypes]

IsLast(ev) == ev.idx = ev.of

\* An event the daemon makes itself has no source key.
Report(origin, type) ==
  [stream |-> origin, line |-> 0, idx |-> 0, of |-> 1, type |-> type]

NoStop == [active |-> FALSE, events |-> 0, from |-> "none"]

NoLines == [s \in Streams |-> 0]

Later(m, n) == IF m < n THEN n ELSE m

IsTerminal(st) == st \in {"completed", "failed", "stopped", "interrupted", "orphaned"}

Running == daemon # "down"

\* The events of the n-th line of file s, as the runtime buffers them.
LineEvents(s, n) ==
  [i \in 1..Len(out[s][n]) |->
     [stream |-> s, line |-> n, idx |-> i, of |-> Len(out[s][n]), type |-> out[s][n][i]]]

Stored(ev) == \E n \in 1..Len(store) : store[n] = ev

LastType == IF store = <<>> THEN "none" ELSE store[Len(store)].type

Drained == rt = "done" /\ consumed = Len(buffer)

\* The event loop has its next step ready - an event to take, or the end of
\* the stream.
LoopReady ==
  consumer = "running" /\ yielded = consumed /\ (yielded < Len(buffer) \/ rt = "done")

\* Neither the loop nor a start that has thrown has a step ready.  They are
\* microtasks: no timer, request or file event of the daemon gets a turn
\* before them.
Idle == ~LoopReady /\ ~starting

Fault == faults < MaxFaults /\ faults' = faults + 1

\* emit and setStatus, the two writes of an outcome that the daemon reports
\* itself: what the store refuses is not tried again, and nobody is told.  (A
\* loop that a boot attached ends the daemon by that: a Crash follows.)
BothWritten(origin, type, outcome) ==
  /\ store' = Append(store, Report(origin, type)) /\ status' = outcome
  /\ split' = FALSE /\ UNCHANGED refused

WriteRefused(origin, type) ==
  /\ refused' = TRUE /\ UNCHANGED status
  /\ \/ UNCHANGED <<store, split>>
     \/ store' = Append(store, Report(origin, type)) /\ split' = TRUE

\* Only the row is told.  create waits for the first turn's loop and takes what
\* it throws for a start that failed.
RowFailed == status' = "failed" /\ split' = TRUE /\ UNCHANGED <<store, refused>>
CreateTells == turn = 1 /\ RowFailed

Tell(origin, type, outcome) ==
  \/ BothWritten(origin, type, outcome) /\ UNCHANGED faults
  \/ WriteRefused(origin, type) /\ Fault

NothingTold == UNCHANGED <<store, status, faults, split, refused>>

\* The row takes over the outcome that is last in the log.
Adopted ==
  /\ UNCHANGED store
  /\ \/ status' = LastType /\ split' = FALSE /\ UNCHANGED <<faults, refused>>
     \/ Fault /\ refused' = TRUE /\ UNCHANGED <<status, split>>

-----------------------------------------------------------------------------
(* The harness. *)

HarnessWrite(s) ==
  /\ alive
  /\ Len(out[s]) < MaxLines[s]
  /\ \E frame \in (IF s = "log" THEN Frames ELSE ErrFrames) :
       out' = [out EXCEPT ![s] = Append(@, frame)]
  /\ UNCHANGED <<alive, turn, db, daemon, restarts, runtime, control, history>>

HarnessExit ==
  /\ alive
  /\ alive' = FALSE
  /\ UNCHANGED <<out, turn, db, daemon, restarts, runtime, control, history>>
-----------------------------------------------------------------------------
(* The runtime: tailing, buffering and the end of the process. *)

\* FileTailer.pump hands the next complete line to handleLine.
Pump(s) ==
  /\ Running /\ rt = "live" /\ Idle
  /\ read[s] < Len(out[s])
  /\ LET n == read[s] + 1
         evs == LineEvents(s, n)
     IN /\ read' = [read EXCEPT ![s] = n]
        /\ buffer' = buffer \o evs
        /\ IF evs # <<>>
             THEN UNCHANGED <<safe, quietLine, quietAt>>
             ELSE IF Len(buffer) <= yielded
               THEN /\ safe' = [safe EXCEPT ![s] = Later(@, n)]
                    /\ quietLine' = [quietLine EXCEPT ![s] = 0]
                    /\ quietAt' = [quietAt EXCEPT ![s] = 0]
               ELSE /\ quietLine' = [quietLine EXCEPT ![s] = n]
                    /\ quietAt' = [quietAt EXCEPT ![s] = Len(buffer)]
                    /\ UNCHANGED safe
  /\ UNCHANGED <<harness, db, daemon, restarts, rt, polled, yielded, consumed, control, history>>

\* What the exit handler reports when no terminal frame was read.  A runtime
\* that spawned the process learns its exit code, any at all; one that polls
\* the pid has the last frame to judge by, and what stderr says of a crash.
SynthesizedTypes ==
  IF polled
    THEN IF buffer # <<>> /\ buffer[Len(buffer)].type = "turnEnd"
           THEN Terminal ELSE {"failed"}
    ELSE Terminal

HasTerminal == \E n \in 1..Len(buffer) : buffer[n].type \in Terminal

\* The flush has read both files to their ends, or it has given up.
Flushed ==
  \/ (\A s \in Streams : read[s] = Len(out[s])) /\ UNCHANGED faults
  \/ (\E s \in Streams : read[s] < Len(out[s])) /\ Fault

\* The files are flushed before the buffer is judged.
Finish ==
  /\ Running /\ rt = "live" /\ ~alive /\ Idle
  /\ Flushed
  /\ rt' = "done"
  /\ IF HasTerminal \/ stopReq \/ wasActive
       THEN UNCHANGED buffer
       ELSE \E type \in SynthesizedTypes : buffer' = Append(buffer, Report("exit", type))
  /\ UNCHANGED <<harness, db, daemon, restarts, polled, read, yielded, consumed, safe,
                 quietLine, quietAt, control, base, dropped, split, refused>>
-----------------------------------------------------------------------------
(* The event loop. *)

\* The cursor follows a line with its last event only: a daemon killed between
\* two events of a line reads the line again.
MutantEventCursor(ev, s) == IF ev.stream = s THEN ev.line ELSE 0

EventCursor(ev, s) == IF ev.stream = s /\ IsLast(ev) THEN ev.line ELSE 0

\* A terminal frame is discarded while a lifecycle operation holds the session.
MutantDiscarded(ev) == locked

Discarded(ev) == locked /\ ev.type \in Terminal

\* events() yields the next event to attachDriverEvents.
Deliver ==
  /\ Running /\ LoopReady /\ yielded < Len(buffer)
  /\ LET ev == buffer[yielded + 1]
         passed(s) == quietLine[s] # 0 /\ quietAt[s] <= yielded + 1
     IN /\ yielded' = yielded + 1
        /\ safe' = [s \in Streams |->
             Later(Later(safe[s], EventCursor(ev, s)), IF passed(s) THEN quietLine[s] ELSE 0)]
        /\ quietLine' = [s \in Streams |-> IF passed(s) THEN 0 ELSE quietLine[s]]
        /\ quietAt' = [s \in Streams |-> IF passed(s) THEN 0 ELSE quietAt[s]]
        /\ IF Discarded(ev)
             THEN /\ consumed' = yielded + 1
                  /\ dropped' = IF ev.stream \in Streams THEN dropped \cup {ev} ELSE dropped
             ELSE UNCHANGED <<consumed, dropped>>
  /\ UNCHANGED <<harness, db, daemon, restarts, rt, polled, read, buffer, control, faults,
                 base, split, refused>>

\* What an event makes of the session's status: the last terminal event wins,
\* except against a stop.
MutantStatusFirst(ev) ==
  IF ev.type \in Terminal /\ ~IsTerminal(status) THEN ev.type ELSE status

StatusFrom(ev) ==
  IF ev.type \in Terminal /\ status # "stopped" THEN ev.type ELSE status

\* The source key of the event is in the table already.
MutantIsReplay(ev) == FALSE

IsReplay(ev) == ev.stream \in Streams /\ Stored(ev)

\* persistDriverEvent: the event, the cursor and the status in one transaction;
\* updateSessionFromEvent passes over a status that it cannot write.
Commit ==
  /\ Running /\ consumer = "running"
  /\ consumed < yielded
  /\ LET ev == buffer[yielded]
     IN /\ store' = IF IsReplay(ev) THEN store ELSE Append(store, ev)
        /\ \/ /\ status' = IF IsReplay(ev) THEN status ELSE StatusFrom(ev)
              /\ UNCHANGED <<faults, split>>
           \/ /\ ~IsReplay(ev) /\ StatusFrom(ev) # status
              /\ Fault /\ split' = TRUE /\ UNCHANGED status
  /\ saved' = safe
  /\ consumed' = yielded
  /\ UNCHANGED <<harness, daemon, restarts, rt, polled, read, buffer, yielded, safe,
                 quietLine, quietAt, control, base, dropped, refused>>

\* The store stays busy, or its file system is gone, while the daemon drains:
\* the event loop leaves with the event in hand.
CommitGivenUp ==
  /\ daemon \notin {"up", "down"} /\ consumer = "running"
  /\ consumed < yielded
  /\ consumer' = "gone"
  /\ Fault
  /\ UNCHANGED <<harness, db, daemon, restarts, runtime, locked, starting, stopReq, stopping,
                 wasActive, base, dropped, split, refused>>

\* Any other store error ends the event loop.  Its report goes to the same
\* store: when that is refused too, the row stays as it is with no loop.
CommitFails ==
  /\ daemon = "up" /\ consumer = "running"
  /\ consumed < yielded
  /\ consumer' = "gone"
  /\ Fault
  /\ BothWritten("fault", "failed", "failed") \/ WriteRefused("fault", "failed") \/ CreateTells
  /\ UNCHANGED <<harness, saved, daemon, restarts, runtime, locked, starting, stopReq, stopping,
                 wasActive, base, dropped>>

MutantStreamOver == rt = "done"

StreamOver == yielded = Len(buffer)

\* After the loop: a session that is still working gets a terminal status.
StreamEnd ==
  /\ Running /\ LoopReady /\ StreamOver
  /\ consumer' = "ended"
  /\ IF daemon # "up" \/ IsTerminal(status)
       THEN NothingTold
       ELSE \/ IF LastType \in Terminal THEN Adopted ELSE Tell("tail", "failed", "failed")
            \/ Fault /\ CreateTells
  /\ UNCHANGED <<harness, saved, daemon, restarts, runtime, locked, starting, stopReq, stopping,
                 wasActive, base, dropped>>
-----------------------------------------------------------------------------
(* Turns. *)

\* No harness runs and none of the session's output is on its way.
Startable ==
  /\ daemon = "up" /\ turn < MaxTurns /\ Idle
  /\ ~alive /\ ~locked
  /\ rt = "none" \/ Drained
  /\ consumer # "pending"

Announced ==
  /\ store' = Append(store, Report("turn", "plain"))
  /\ status' = "working" /\ split' = FALSE

\* The process, and a runtime that starts at the files' ends.
Spawned ==
  /\ alive' = TRUE
  /\ rt' = "live" /\ polled' = FALSE
  /\ read' = [s \in Streams |-> Len(out[s])]
  /\ safe' = [s \in Streams |-> Len(out[s])]
  /\ base' = [s \in Streams |-> Len(out[s])]
  /\ buffer' = <<>> /\ yielded' = 0 /\ consumed' = 0
  /\ quietLine' = NoLines /\ quietAt' = NoLines
  /\ stopReq' = FALSE

\* session.create for the first turn, runResumeTurn for the others; create
\* attaches the event loop later (a send that overtakes create's wait is
\* SessionLifecycle's subject).
StartTurn ==
  /\ Startable /\ turn' = turn + 1
  /\ Announced /\ Spawned
  /\ consumer' = IF turn = 0 THEN "pending" ELSE "running"
  /\ UNCHANGED <<out, saved, daemon, restarts, locked, starting, stopping, wasActive, faults,
                 dropped, refused>>

\* The start throws: there is no process to be had, or the store refuses a
\* write before the spawn or after it.
StartThrows ==
  /\ Startable /\ turn' = turn + 1
  /\ starting' = TRUE
  /\ \/ Announced /\ UNCHANGED <<alive, runtime, consumer, stopReq, base, faults>>
     \/ /\ Fault
        /\ UNCHANGED store
        /\ UNCHANGED <<status, split>> \/ (status' = "working" /\ split' = FALSE)
        /\ UNCHANGED <<alive, runtime, consumer, stopReq, base>>
     \/ Fault /\ Announced /\ Spawned /\ consumer' = "none"
  /\ UNCHANGED <<out, saved, daemon, restarts, locked, stopping, wasActive, dropped, refused>>

\* Its caller writes the failure to the row; only tryDispatch puts an event
\* into the log as well.
StartReported ==
  /\ starting
  /\ starting' = FALSE
  /\ \/ RowFailed /\ UNCHANGED faults
     \/ Tell("fault", "failed", "failed")
  /\ UNCHANGED <<harness, saved, daemon, restarts, runtime, consumer, locked, stopReq, stopping,
                 wasActive, base, dropped>>

\* The poll for the native session id is over: the event loop starts, unless
\* the daemon is shutting down.
AttachConsumer ==
  /\ Running /\ consumer = "pending"
  /\ IF daemon = "up"
       THEN consumer' = "running" /\ UNCHANGED stopReq
       ELSE consumer' = "none" /\ stopReq' = TRUE
  /\ UNCHANGED <<harness, db, daemon, restarts, runtime, locked, starting, stopping, wasActive,
                 history>>

\* session.stop up to its await: the status first, then the signal.
StopBegin ==
  /\ daemon = "up" /\ ~locked /\ Idle
  /\ rt # "none"
  /\ locked' = TRUE
  /\ stopReq' = TRUE
  /\ stopping' = [active |-> TRUE, events |-> Len(store), from |-> status]
  /\ status' = IF IsTerminal(status) THEN status ELSE "stopped"
  /\ UNCHANGED <<harness, store, saved, daemon, restarts, runtime, consumer, starting, wasActive,
                 history>>

\* driver.stop returns: the process is gone and the runtime closed.
MutantStopped == ~alive /\ (rt = "none" \/ Drained)

Stopped == ~alive /\ rt # "live"

\* session.stop after its await: a terminal event that made it into the log
\* meanwhile is adopted, otherwise the stop reports the turn's end itself.
\* When a write is refused the stop fails and the old status is put back.
StopEnd ==
  /\ Running /\ stopping.active /\ Idle
  /\ Stopped
  /\ stopping' = NoStop
  /\ IF daemon # "up"
       THEN NothingTold /\ UNCHANGED locked
       ELSE /\ locked' = FALSE
            /\ \/ /\ IF Len(store) > stopping.events /\ LastType \in Terminal
                       THEN status' = LastType /\ split' = FALSE /\ UNCHANGED store
                       ELSE /\ UNCHANGED <<status, split>>
                            /\ store' = IF IsTerminal(stopping.from) THEN store
                                        ELSE Append(store, Report("stop", "completed"))
                  /\ UNCHANGED <<faults, refused>>
               \/ /\ Fault
                  /\ status' \in {status, stopping.from} /\ UNCHANGED store
                  /\ split' = TRUE /\ refused' = TRUE
  /\ UNCHANGED <<harness, saved, daemon, restarts, runtime, consumer, starting, stopReq,
                 wasActive, base, dropped>>
-----------------------------------------------------------------------------
(* Power shutdown, crash and restart. *)

\* handleShutdown until its first await: no request is admitted from here on.
ShutdownBegin ==
  /\ daemon = "up" /\ Idle
  /\ restarts < MaxRestarts /\ restarts' = restarts + 1
  /\ daemon' = "draining"
  /\ wasActive' = (status = "working")
  /\ UNCHANGED <<harness, db, runtime, consumer, locked, starting, stopReq, stopping, history>>

\* markInterrupted, after a bounded wait for the lock's owner.
MarkInterrupted ==
  /\ daemon = "draining" /\ Idle
  /\ daemon' = "marked"
  /\ IF wasActive
       THEN locked' = TRUE /\ Tell("shutdown", "failed", "interrupted")
       ELSE NothingTold /\ UNCHANGED locked
  /\ UNCHANGED <<harness, saved, restarts, runtime, consumer, starting, stopReq, stopping,
                 wasActive, base, dropped>>

KillHarness ==
  /\ daemon = "marked" /\ Idle
  /\ daemon' = "killed"
  /\ alive' = (alive /\ ~wasActive)
  /\ UNCHANGED <<out, turn, db, restarts, runtime, control, history>>

\* drainForShutdown: the runtime reads to the end of the files, as far as it
\* gets, and closes.
DrainRuntime ==
  /\ daemon = "killed" /\ Idle
  /\ daemon' = "waiting"
  /\ IF wasActive /\ rt = "live"
       THEN Flushed /\ rt' = "done"
       ELSE UNCHANGED <<rt, faults>>
  /\ UNCHANGED <<harness, db, restarts, polled, read, buffer, yielded, consumed, safe,
                 quietLine, quietAt, control, base, dropped, split, refused>>

\* What dies with the daemon process.
ForgetAll ==
  /\ rt' = "none" /\ polled' = FALSE
  /\ read' = NoLines /\ safe' = NoLines
  /\ buffer' = <<>> /\ yielded' = 0 /\ consumed' = 0
  /\ quietLine' = NoLines /\ quietAt' = NoLines
  /\ consumer' = "none" /\ locked' = FALSE /\ starting' = FALSE
  /\ stopReq' = FALSE
  /\ stopping' = NoStop /\ wasActive' = FALSE
  /\ refused' = FALSE

\* The drain's promise resolves once a started event loop has consumed all.
MutantDrainResolved == wasActive /\ rt # "none" => Drained

DrainResolved ==
  wasActive /\ rt # "none" /\ consumer \in {"running", "ended", "gone"} => Drained

Exit ==
  /\ daemon = "waiting" /\ Idle
  /\ DrainResolved
  /\ daemon' = "down"
  /\ ForgetAll
  /\ UNCHANGED <<harness, db, restarts, faults, base, dropped, split>>

Crash ==
  /\ Running /\ (daemon = "up" => restarts < MaxRestarts)
  /\ restarts' = IF daemon = "up" THEN restarts + 1 ELSE restarts
  /\ daemon' = "down"
  /\ ForgetAll
  /\ UNCHANGED <<harness, db, faults, base, dropped, split>>

MutantRecovered == status = "working" /\ alive

\* What recover looks at: every row that the last daemon left active.
Recovered == status = "working"

\* recover: a working session is reattached at its committed cursor.
Restart ==
  /\ daemon = "down"
  /\ daemon' = "up"
  /\ IF Recovered
       THEN /\ rt' = "live" /\ polled' = TRUE
            /\ read' = saved /\ safe' = saved
            /\ consumer' = "running"
       ELSE UNCHANGED <<rt, polled, read, safe, consumer>>
  /\ UNCHANGED <<harness, db, restarts, buffer, yielded, consumed, quietLine, quietAt, locked,
                 starting, stopReq, stopping, wasActive, history>>

\* The harness is gone and its pid somebody else's, which the log is told; or
\* the attach throws, or there is no log or no identity to trust: then only the
\* row says so.
RestartGivesUp ==
  /\ daemon = "down" /\ Recovered
  /\ daemon' = "up"
  /\ \/ /\ ~alive /\ status' = "failed" /\ split' = FALSE
        /\ store' = Append(store, Report("fault", "failed")) /\ UNCHANGED faults
     \/ /\ Fault /\ status' = IF alive THEN "orphaned" ELSE "failed"
        /\ split' = TRUE /\ UNCHANGED store
  /\ UNCHANGED <<harness, saved, restarts, runtime, control, base, dropped, refused>>
-----------------------------------------------------------------------------
Init ==
  /\ out = [s \in Streams |-> <<>>] /\ alive = FALSE /\ turn = 0
  /\ store = <<>> /\ saved = NoLines /\ status = "none"
  /\ daemon = "up" /\ restarts = 0
  /\ rt = "none" /\ polled = FALSE
  /\ read = NoLines /\ safe = NoLines
  /\ buffer = <<>> /\ yielded = 0 /\ consumed = 0
  /\ quietLine = NoLines /\ quietAt = NoLines
  /\ consumer = "none" /\ locked = FALSE /\ starting = FALSE /\ stopReq = FALSE
  /\ stopping = NoStop /\ wasActive = FALSE
  /\ faults = 0 /\ base = NoLines /\ dropped = {} /\ split = FALSE /\ refused = FALSE

Next ==
  \/ \E s \in Streams : HarnessWrite(s)
  \/ HarnessExit
  \/ \E s \in Streams : Pump(s)
  \/ Finish
  \/ Deliver \/ Commit \/ CommitGivenUp \/ CommitFails \/ StreamEnd
  \/ StartTurn \/ StartThrows \/ StartReported \/ AttachConsumer \/ StopBegin \/ StopEnd
  \/ ShutdownBegin \/ MarkInterrupted \/ KillHarness \/ DrainRuntime \/ Exit
  \/ Crash \/ Restart \/ RestartGivesUp

Spec == Init /\ [][Next]_vars
-----------------------------------------------------------------------------
(* Properties. *)

Statuses ==
  {"none", "working", "completed", "failed", "stopped", "interrupted", "orphaned"}

FlagsOK ==
  /\ alive \in BOOLEAN /\ polled \in BOOLEAN /\ locked \in BOOLEAN
  /\ starting \in BOOLEAN /\ stopReq \in BOOLEAN /\ wasActive \in BOOLEAN
  /\ split \in BOOLEAN /\ refused \in BOOLEAN

TypeOK ==
  /\ FlagsOK
  /\ out \in [Streams -> Seq(Frames \cup ErrFrames)] /\ turn \in Nat
  /\ store \in Seq(AnyEvent)
  /\ saved \in [Streams -> Nat]
  /\ status \in Statuses
  /\ daemon \in {"up", "draining", "marked", "killed", "waiting", "down"}
  /\ restarts \in Nat /\ faults \in Nat
  /\ rt \in {"none", "live", "done"}
  /\ read \in [Streams -> Nat] /\ safe \in [Streams -> Nat]
  /\ buffer \in Seq(AnyEvent)
  /\ yielded \in 0..Len(buffer) /\ consumed \in 0..yielded
  /\ quietLine \in [Streams -> Nat] /\ quietAt \in [Streams -> Nat]
  /\ consumer \in {"none", "pending", "running", "ended", "gone"}
  /\ stopping \in [active : BOOLEAN, events : Nat, from : Statuses]
  /\ base \in [Streams -> Nat] /\ dropped \subseteq AnyEvent

Settled(s, l, i) == Stored(LineEvents(s, l)[i]) \/ LineEvents(s, l)[i] \in dropped

AllSettled(s, from, to) ==
  \A l \in (from + 1)..to : \A i \in 1..Len(out[s][l]) : Settled(s, l, i)

\* The committed cursor never passes an event of the turn that is neither in
\* the log nor deliberately discarded: a restart at any step loses nothing.
CursorCovered == \A s \in Streams : AllSettled(s, base[s], saved[s])

\* However often lines are read again, an event is stored once.
ExactlyOnce ==
  \A m, n \in 1..Len(store) :
    store[m].stream \in Streams /\ store[m] = store[n] => m = n

\* The status a client polls and the terminal event a late subscriber is
\* given tell the same outcome, but for the failures that the code writes to
\* the row alone (a create, a send or an attach that threw) and for a store
\* that refused one of the two writes.
StatusMatchesLog ==
  status \in Terminal /\ ~split =>
    \E n \in 1..Len(store) :
      /\ store[n].type = status
      /\ \A m \in (n + 1)..Len(store) : store[m].type \notin Terminal

\* The pipeline implements the log's promise.
EL == INSTANCE EventLog WITH log <- store, Frames <- Frames \cup ErrFrames
ImplementsEventLog == EL!Spec
-----------------------------------------------------------------------------
(* Liveness. *)

\* Timers and promises of a running daemon fire; killTree ends in SIGKILL; the
\* next CLI command starts a daemon that is down.  Nothing is assumed of a
\* harness that nobody kills, of crashes, or of a store that refuses.
Fairness ==
  /\ \A s \in Streams : WF_vars(Pump(s))
  /\ WF_vars(Finish) /\ WF_vars(Deliver) /\ WF_vars(Commit) /\ WF_vars(StreamEnd)
  /\ WF_vars(StartReported) /\ WF_vars(AttachConsumer) /\ WF_vars(StopEnd)
  /\ WF_vars(MarkInterrupted) /\ WF_vars(KillHarness) /\ WF_vars(DrainRuntime) /\ WF_vars(Exit)
  /\ WF_vars(Restart \/ RestartGivesUp)
  /\ WF_vars(stopping.active /\ HarnessExit)

FairSpec == Spec /\ Fairness

\* A session whose harness has died does not stay working, unless the store
\* refused to be told: that row waits for the next daemon.
DeadHarnessReported ==
  (status = "working" /\ ~alive) ~> (status # "working" \/ refused)

\* Once the daemon begins to drain, its process ends, unless a commit was given
\* up on the way: then an event stays that nobody consumes, and the promise that
\* the shutdown awaits has no other way to resolve (daemon.ts 1862-1866,
\* session-runtime.ts 362-370).
GivenUp == wasActive /\ consumer = "gone" /\ consumed < Len(buffer)
ShutdownEnds == (daemon = "draining") ~> (daemon = "down" \/ GivenUp)

\* A stop gets its outcome, or the daemon that owes it goes down.
StopEnds == stopping.active ~> ~stopping.active

\* In a daemon life that is not cut short, every line of an attached turn is
\* settled, also when the turn was stopped or had reported its end before,
\* unless a store error ended its event loop or the last flush stopped short
\* of the line.
OutputSettled ==
  \A s \in Streams : \A l \in 1..MaxLines[s] :
    (daemon = "up" /\ restarts = MaxRestarts
       /\ consumer \in {"pending", "running"} /\ l <= Len(out[s])) ~>
      (consumer = "gone" \/ (faults > 0 /\ rt = "done" /\ read[s] < l)
         \/ (l <= Len(out[s]) /\ AllSettled(s, base[s], l)))
=============================================================================
