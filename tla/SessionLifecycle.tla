-------------------------- MODULE SessionLifecycle --------------------------
(***************************************************************************)
(* The life of one headless session across the turns, requests and lives   *)
(* of the daemon that act on it: create, send with its one-slot queue, the *)
(* dispatch of a queued message when a turn ends, stop, release, the power *)
(* shutdown, a crash at any step, and at boot the healing, the recovery    *)
(* and the auto-resume of what the daemon finds.                           *)
(*                                                                         *)
(* Simplifications:                                                        *)
(*   - A process identity (pid and start time) is the number of the turn   *)
(*     it was spawned for; 0 stands for none.                              *)
(*   - A turn's output is its native session id and at most one terminal   *)
(*     frame; cursors, files and all other events are EventPipeline's.     *)
(*   - The daemon is one thread: `step` is the synchronous code it is in   *)
(*     the middle of, where only the harness and a crash can cut in.  The  *)
(*     lock that a starting turn holds is never seen by others.            *)
(*   - Every driver can resume, and a process has a readable start time.   *)
(*   - A turn that starts while the poll of create is still on gets its    *)
(*     own loop; the second one, which that poll then attaches to it, is   *)
(*     left out (LoopsDontOverlap says when it comes to that).             *)
(***************************************************************************)
EXTENDS Naturals, Sequences, FiniteSets

CONSTANTS
  Msgs, NoMsg,   \* the messages users send, and the empty slot
  MaxTurns,      \* bounds the processes ever spawned
  MaxRestarts,   \* bounds the times the daemon goes down, either way
  AutoResume,    \* the autoResume.enabled setting
  Faults         \* TRUE: store writes and log attaches may fail

ASSUME MsgsAssumption == NoMsg \notin Msgs
ASSUME LimitsAssumption == MaxTurns \in Nat /\ MaxRestarts \in Nat
ASSUME SwitchesAssumption == AutoResume \in BOOLEAN /\ Faults \in BOOLEAN

Turns == 1..MaxTurns
Ends == {"completed", "failed"}
Active == {"starting", "working"}
TerminalStatus == Ends \cup {"stopped", "orphaned", "interrupted"}
Starting == {"cleared", "announced", "spawned", "written"}

VARIABLES
  \* The harness processes and what they wrote.
  turn,        \* processes spawned so far
  procs,       \* the processes that are alive
  frame,       \* frame[t]: the terminal frame of turn t in the log file
  \* The session row, the events table and the sidecar file.
  status, rowPid,
  native,      \* the row has a native session id
  slot,        \* the pending message, or NoMsg
  storeBusy,   \* the row's failure is a store-busy one
  last,        \* the last event of the log, "other" unless terminal
  logged,      \* turns whose terminal frame is in the log
  sidecar,     \* the process recorded beside the log files
  \* The daemon process.
  daemon,      \* "up", "down" or how far the shutdown has come
  restarts,
  step,        \* the synchronous code in progress: "idle", "dispatch", "scan"
               \* or how far the start of a turn has come
  launch,      \* that turn's message and the path that started it
  lock,        \* sessionLocks: "free", "stop" or "shutdown"
  stopping,    \* what session.stop read before its await
  killPid,     \* the pid in the shutdown's snapshot of active sessions
  \* The runtime in the driver's handle map and the loop that reads it.
  handle,      \* its process, 0 if the map has no entry
  rt,          \* "none", "live" or "done"
  rtNative,    \* it knows the native session id
  inbox,       \* its events not yet taken by the loop
  sawFrame,    \* it has read the terminal frame
  muted,       \* it was told of a stop or shutdown: it reports no exit
  loop,        \* "none", "pending", "on", "ended" or "gone"
  hand,        \* the event the loop is committing, or NoEvent
  \* History.
  stale,       \* a message that the last cancel could not get out of the slot
  sent,        \* messages accepted
  ran,         \* ran[m]: processes that were given m
  untracked    \* processes whose start was cut before the row knew them

world   == <<turn, procs, frame>>
row     == <<status, rowPid, native, slot, storeBusy>>
files   == <<last, logged, sidecar>>
control == <<step, launch, lock, stopping, killPid>>
reader  == <<handle, rt, rtNative, inbox, sawFrame, muted, loop, hand>>
history == <<stale, sent, ran, untracked>>
vars    == <<world, row, files, daemon, restarts, control, reader, history>>
-----------------------------------------------------------------------------
NoEvent == [kind |-> "none", type |-> "other"]
NativeEvent == [kind |-> "native", type |-> "other"]
FrameEvent(type) == [kind |-> "frame", type |-> type]
ExitEvent(type) == [kind |-> "exit", type |-> type]
Event == [kind : {"none", "native", "frame", "exit"}, type : Ends \cup {"other"}]

NoLaunch == [msg |-> NoMsg, via |-> "none"]
NotStopping == [from |-> "none", grew |-> FALSE]

MutantDrained == rt = "done"

\* The runtime is closed and the loop has consumed all of its events.
Drained == rt = "done" /\ inbox = <<>> /\ hand = NoEvent

MutantBusy == handle # 0 /\ ~Drained

\* No second harness: a live runtime, one not read to its end, or a live pid.
Busy == (handle # 0 /\ ~Drained) \/ rowPid \in procs

\* The loop has its next step ready.  It is a microtask: no timer, request or
\* file event of the daemon gets a turn before it.
LoopReady == loop = "on" /\ hand = NoEvent /\ (inbox # <<>> \/ rt = "done")

Running == daemon # "down"
Idle == Running /\ step = "idle" /\ ~LoopReady
Serving == Idle /\ daemon = "up"

NativeKnown == native \/ rtNative

\* clearPending: a store that refuses leaves the message where it is.
ClearPending ==
  \/ slot' = NoMsg /\ stale' = NoMsg
  \/ Faults /\ slot' = slot /\ stale' = slot
-----------------------------------------------------------------------------
(* The harness. *)

HarnessWrites ==
  /\ \E t \in procs, type \in Ends :
       frame[t] = "none" /\ frame' = [frame EXCEPT ![t] = type]
  /\ UNCHANGED <<turn, procs, row, files, daemon, restarts, control, reader, history>>

HarnessExits ==
  /\ \E t \in procs : procs' = procs \ {t}
  /\ UNCHANGED <<turn, frame, row, files, daemon, restarts, control, reader, history>>
-----------------------------------------------------------------------------
(* The runtime. *)

\* Every line of Claude's has the id, a hook's too, of which no event is made.
ReadNative ==
  /\ Idle /\ rt = "live" /\ ~rtNative
  /\ rtNative' = TRUE
  /\ inbox' = Append(inbox, NativeEvent) \/ UNCHANGED inbox
  /\ UNCHANGED <<world, row, files, daemon, restarts, control, handle, rt, sawFrame,
                 muted, loop, hand, history>>

ReadFrame ==
  /\ Idle /\ rt = "live" /\ ~sawFrame
  /\ handle \notin logged /\ frame[handle] \in Ends
  /\ sawFrame' = TRUE
  /\ inbox' = Append(inbox, FrameEvent(frame[handle]))
  /\ UNCHANGED <<world, row, files, daemon, restarts, control, handle, rt, rtNative,
                 muted, loop, hand, history>>

\* The exit is seen after the files were read to their ends; an event of its
\* own is made up only when no terminal frame was among what was read.
Finish ==
  /\ Idle /\ rt = "live" /\ handle \notin procs
  /\ frame[handle] = "none" \/ sawFrame \/ handle \in logged
  /\ rt' = "done"
  /\ IF muted \/ sawFrame
       THEN UNCHANGED inbox
       ELSE \E type \in Ends : inbox' = Append(inbox, ExitEvent(type))
  /\ UNCHANGED <<world, row, files, daemon, restarts, control, handle, rtNative, sawFrame,
                 muted, loop, hand, history>>
-----------------------------------------------------------------------------
(* The event loop. *)

\* A terminal frame is discarded while a lifecycle operation holds the lock.
Take ==
  /\ Running /\ step = "idle" /\ LoopReady /\ inbox # <<>>
  /\ inbox' = Tail(inbox)
  /\ IF lock # "free" /\ Head(inbox).type \in Ends
       THEN UNCHANGED hand
       ELSE hand' = Head(inbox)
  /\ UNCHANGED <<world, row, files, daemon, restarts, control, handle, rt, rtNative,
                 sawFrame, muted, loop, history>>

\* What any new event of the log does to a stop in progress.
Grew == [stopping EXCEPT !.grew = (lock = "stop")]

\* persistDriverEvent and updateSessionFromEvent.
Commit ==
  /\ Running /\ step = "idle" /\ hand # NoEvent
  /\ hand' = NoEvent
  /\ last' = hand.type /\ stopping' = Grew
  /\ logged' = IF hand.kind = "frame" THEN logged \cup {handle} ELSE logged
  /\ native' = (native \/ hand.kind = "native")
  /\ IF hand.type \in Ends /\ status # "stopped"
       THEN status' = hand.type /\ storeBusy' = (storeBusy /\ hand.type = "completed")
       ELSE UNCHANGED <<status, storeBusy>>
  /\ UNCHANGED <<world, rowPid, slot, sidecar, daemon, restarts, step, launch, lock, killPid,
                 handle, rt, rtNative, inbox, sawFrame, muted, loop, history>>

\* The store refuses for good: the loop is over and the session failed, in the
\* log and the row as far as they take it.  While draining the event is left to
\* the next daemon.
CommitFails ==
  /\ Faults
  /\ Running /\ step = "idle" /\ hand # NoEvent
  /\ loop' = "gone"
  /\ \/ daemon = "up" /\ last' = "failed" /\ stopping' = Grew
     \/ UNCHANGED <<last, stopping>>
  /\ \/ daemon = "up" /\ status' = "failed" /\ storeBusy' \in BOOLEAN
     \/ UNCHANGED <<status, storeBusy>>
  /\ UNCHANGED <<world, rowPid, native, slot, logged, sidecar, daemon, restarts, step, launch,
                 lock, killPid, handle, rt, rtNative, inbox, sawFrame, muted, hand, history>>

MutantTailCall == "idle"

\* The tail of the loop calls tryDispatch.
TailCall == "dispatch"

\* A session that is still active when its stream is over gets a terminal
\* status, told to the log if nothing there tells it.
EndActive ==
  IF last \in Ends
    THEN /\ status' = last /\ UNCHANGED <<last, stopping>>
         /\ storeBusy' = (storeBusy /\ last = "completed")
    ELSE /\ status' = "failed" /\ storeBusy' = FALSE
         /\ last' = "failed" /\ stopping' = Grew

\* A write of it is refused: create's own catch may still write the status, and
\* the queue is not looked at.
EndRefused ==
  /\ Faults /\ status \in Active
  /\ \/ UNCHANGED <<last, stopping>>
     \/ last \notin Ends /\ last' = "failed" /\ stopping' = Grew
  /\ \/ UNCHANGED <<status, storeBusy>>
     \/ status' = "failed" /\ storeBusy' \in BOOLEAN

StreamEnd ==
  /\ Running /\ step = "idle" /\ LoopReady /\ inbox = <<>>
  /\ loop' = "ended"
  /\ \/ /\ daemon # "up" \/ status \notin Active
        /\ step' = IF daemon = "up" THEN TailCall ELSE "idle"
        /\ UNCHANGED <<status, storeBusy, last, stopping>>
     \/ daemon = "up" /\ status \in Active /\ EndActive /\ step' = TailCall
     \/ daemon = "up" /\ EndRefused /\ UNCHANGED step
  /\ UNCHANGED <<world, rowPid, native, slot, logged, sidecar, daemon, restarts, launch, lock,
                 killPid, handle, rt, rtNative, inbox, sawFrame, muted, hand, history>>
-----------------------------------------------------------------------------
(* Starting a turn: session.create, or runResumeTurn for session.send, for   *)
(* tryDispatch and for the auto-resume at boot.                              *)

Begin(m, via) == step' = "cleared" /\ launch' = [msg |-> m, via |-> via]

\* The row is there, its driver about to be started in the background.
Create ==
  /\ Serving /\ status = "none" /\ turn < MaxTurns
  /\ status' = "starting"
  /\ Begin(NoMsg, "create")
  /\ UNCHANGED <<world, rowPid, native, slot, storeBusy, files, daemon, restarts, lock,
                 stopping, killPid, reader, history>>

MutantSendable(m) ==
  /\ Serving /\ status # "none" /\ m \notin sent
  /\ status = "interrupted" => native /\ rowPid \notin procs

\* What both ways of session.send ask first.
Sendable(m) ==
  /\ Serving /\ status # "none" /\ m \notin sent
  /\ status = "interrupted" => native /\ rowPid \notin procs
  /\ lock = "free"

\* Behind a live turn the message takes the slot, last one wins.
SendQueued(m) ==
  /\ Sendable(m)
  /\ status = "starting" \/ Busy
  /\ slot' = m
  /\ last' = "other" \/ (Faults /\ UNCHANGED last)
  /\ sent' = sent \cup {m}
  /\ step' = "dispatch"
  /\ UNCHANGED <<world, status, rowPid, native, storeBusy, logged, sidecar, daemon, restarts,
                 launch, lock, stopping, killPid, reader, stale, ran, untracked>>

\* A session that can resume starts the message now; a stale queued one loses.
SendNow(m) ==
  /\ Sendable(m)
  /\ ~(status = "starting" \/ Busy) /\ turn < MaxTurns
  /\ ClearPending
  /\ sent' = sent \cup {m}
  /\ Begin(m, "send")
  /\ UNCHANGED <<world, status, rowPid, native, storeBusy, files, daemon, restarts,
                 lock, stopping, killPid, reader, ran, untracked>>

\* tryDispatch's conditions; if one fails the slot stays as it is.
Dispatchable ==
  /\ daemon = "up" /\ lock = "free"
  /\ slot # NoMsg /\ NativeKnown
  /\ status # "starting" /\ ~Busy

MutantSlotTaken == slot

\* The slot is cleared before the start, so that a crash cannot send twice.
SlotTaken == NoMsg

TryDispatch ==
  /\ Running /\ step = "dispatch"
  /\ IF Dispatchable
       THEN slot' = SlotTaken /\ Begin(slot, "dispatch")
       ELSE step' = "idle" /\ UNCHANGED <<slot, launch>>
  /\ UNCHANGED <<world, status, rowPid, native, storeBusy, files, daemon, restarts,
                 lock, stopping, killPid, reader, history>>

\* The status and turn.started.
Announce ==
  /\ step = "cleared"
  /\ step' = "announced"
  /\ status' = "working"
  /\ last' = "other"
  /\ UNCHANGED <<world, rowPid, native, slot, storeBusy, logged, sidecar, daemon, restarts,
                 launch, lock, stopping, killPid, reader, history>>

\* driver.start and driver.send: the process and the runtime that replaces the
\* one in the handle map.  A resumed turn needs the native session id.
Spawn ==
  /\ step = "announced"
  /\ launch.via = "create" \/ NativeKnown
  /\ turn < MaxTurns
  /\ step' = "spawned"
  /\ turn' = turn + 1 /\ procs' = procs \cup {turn + 1}
  /\ handle' = turn + 1 /\ rt' = "live"
  /\ rtNative' = (launch.via # "create")
  /\ inbox' = <<>> /\ hand' = NoEvent /\ sawFrame' = FALSE /\ muted' = FALSE
  /\ loop' = "none"
  /\ ran' = [m \in Msgs |-> IF m = launch.msg THEN ran[m] + 1 ELSE ran[m]]
  /\ UNCHANGED <<frame, row, files, daemon, restarts, launch, lock, stopping, killPid,
                 stale, sent, untracked>>

WriteSidecar ==
  /\ step = "spawned"
  /\ step' = "written"
  /\ sidecar' = handle
  /\ UNCHANGED <<world, row, last, logged, daemon, restarts, launch, lock, stopping, killPid,
                 reader, history>>

\* The row learns the process.  create polls for the native session id before
\* it attaches the event loop; runResumeTurn attaches it at once.
Record ==
  /\ step = "written"
  /\ step' = "idle" /\ launch' = NoLaunch
  /\ rowPid' = handle
  /\ IF launch.via = "create"
       THEN loop' = "pending" /\ UNCHANGED <<status, native>>
       ELSE loop' = "on" /\ status' = "working" /\ native' = NativeKnown
  /\ UNCHANGED <<world, slot, storeBusy, files, daemon, restarts, lock, stopping, killPid,
                 handle, rt, rtNative, inbox, sawFrame, muted, hand, history>>

\* A start fails when there is no native id to resume or no process to be had,
\* and with the store at either end of it.
StartFails == step = "announced" \/ (Faults /\ step \in {"cleared", "written"})

MutantSlotRestored == slot

\* tryDispatch and the auto-resume put the message back.
SlotRestored ==
  IF launch.via \in {"dispatch", "resume"} /\ launch.msg # NoMsg THEN launch.msg ELSE slot

\* The failure is written to the row, for a queued or resumed turn to the log
\* too, and the slot restored, each in a try of its own.
LaunchFails ==
  /\ StartFails
  /\ step' = "idle" /\ launch' = NoLaunch
  /\ \/ /\ status' = "failed"
        /\ storeBusy' \in (IF launch.via = "send" THEN {storeBusy}
                          ELSE IF step = "announced" THEN {FALSE} ELSE BOOLEAN)
     \/ Faults /\ status' \in {status, "working"} /\ UNCHANGED storeBusy
  /\ slot' = SlotRestored \/ (Faults /\ UNCHANGED slot)
  /\ \/ last' = IF launch.via \in {"dispatch", "resume"} THEN "failed" ELSE last
     \/ Faults /\ UNCHANGED last
  /\ \/ /\ untracked' = IF step = "written" THEN untracked \cup {handle} ELSE untracked
        /\ UNCHANGED <<rowPid, native>>
     \/ /\ step = "written" /\ launch.via # "create"
        /\ rowPid' = handle /\ native' = NativeKnown /\ UNCHANGED untracked
  /\ UNCHANGED <<world, logged, sidecar, daemon, restarts, lock, stopping, killPid, reader,
                 stale, sent, ran>>

\* The poll for the native session id is over; it fails with the row's update.
AttachLoop ==
  /\ Idle /\ loop = "pending"
  /\ \/ /\ daemon = "up" /\ loop' = "on" /\ native' = NativeKnown
        /\ UNCHANGED <<status, storeBusy, muted>>
     \/ /\ daemon # "up" /\ loop' = "none" /\ muted' = TRUE
        /\ UNCHANGED <<status, storeBusy, native>>
     \/ /\ Faults /\ daemon = "up" /\ rtNative /\ loop' = "none"
        /\ \/ status' = "failed" /\ storeBusy' \in BOOLEAN
           \/ UNCHANGED <<status, storeBusy>>
        /\ UNCHANGED <<native, muted>>
  /\ UNCHANGED <<world, rowPid, slot, files, daemon, restarts, control, handle, rt, rtNative,
                 inbox, sawFrame, hand, history>>
-----------------------------------------------------------------------------
(* Stop and release. *)

\* Stop cancels the queue even when it does nothing else, as when the store does
\* not take its status.
StopRefused ==
  /\ Serving /\ status # "none"
  /\ \/ lock # "free" \/ (status \in TerminalStatus /\ handle = 0 /\ rowPid \notin procs)
     \/ Faults /\ status \in Active
  /\ ClearPending
  /\ UNCHANGED <<world, status, rowPid, native, storeBusy, files, daemon, restarts, control,
                 reader, sent, ran, untracked>>

StopTarget == IF handle # 0 THEN handle ELSE rowPid

MutantStatusAtStop == status

StatusAtStop == IF status \in Active THEN "stopped" ELSE status

\* The status first, then the signal.
StopBegin ==
  /\ Serving /\ status # "none" /\ lock = "free"
  /\ ~(status \in TerminalStatus /\ handle = 0 /\ rowPid \notin procs)
  /\ ClearPending
  /\ lock' = "stop"
  /\ stopping' = [from |-> status, grew |-> FALSE]
  /\ status' = StatusAtStop
  /\ muted' = (handle # 0)
  /\ UNCHANGED <<world, rowPid, native, storeBusy, files, daemon, restarts, step, launch,
                 killPid, handle, rt, rtNative, inbox, sawFrame, loop, hand, sent, ran,
                 untracked>>

\* driver.stop has returned: a terminal event that reached the log meanwhile
\* is adopted, otherwise the stop reports the end itself.  If the store refuses
\* that, the stop takes its status back, should the store take this.
StopEnd ==
  /\ Serving /\ lock = "stop"
  /\ StopTarget \notin procs /\ rt # "live"
  /\ lock' = "free" /\ stopping' = NotStopping
  /\ \/ /\ ClearPending
        /\ IF stopping.grew /\ last \in Ends
             THEN /\ status' = last /\ UNCHANGED last
                  /\ storeBusy' = (storeBusy /\ last = "completed")
             ELSE /\ UNCHANGED <<status, storeBusy>>
                  /\ last' = IF stopping.from \in Active THEN "completed" ELSE last
     \/ /\ Faults /\ status' \in {stopping.from, status}
        /\ UNCHANGED <<slot, stale, last, storeBusy>>
  /\ UNCHANGED <<world, rowPid, native, logged, sidecar, daemon, restarts, step, launch,
                 killPid, reader, sent, ran, untracked>>

\* `codedeck done`: no lock is taken.
Release ==
  /\ Serving /\ status # "none"
  /\ ClearPending
  /\ \/ /\ \/ status \in TerminalStatus /\ (status # "interrupted" \/ rowPid \in procs)
           \/ Faults
        /\ UNCHANGED <<status, last, stopping>>
     \/ /\ ~(status \in TerminalStatus /\ (status # "interrupted" \/ rowPid \in procs))
        /\ \E type \in Ends :
             /\ status' = type
             /\ \/ last' = type /\ stopping' = Grew
                \/ Faults /\ UNCHANGED <<last, stopping>>
  /\ UNCHANGED <<world, rowPid, native, storeBusy, logged, sidecar, daemon, restarts, step,
                 launch, lock, killPid, reader, sent, ran, untracked>>
-----------------------------------------------------------------------------
(* The power shutdown. *)

\* handleShutdown up to its first real wait.  A lock owner would be waited
\* for, but a session whose lock is held is not active (LockOwnerEnded).  The
\* store may refuse to list the active sessions, or either part of the mark.
ShutdownBegin ==
  /\ Serving /\ restarts < MaxRestarts
  /\ restarts' = restarts + 1
  /\ daemon' = "draining"
  /\ \/ /\ status \in Active
        /\ killPid' = rowPid
        /\ lock' = "shutdown"
        /\ muted' = (handle # 0)
        /\ \/ /\ last' = "failed" /\ stopping' = Grew
              /\ \/ status' = "interrupted" /\ storeBusy' = FALSE
                 \/ Faults /\ UNCHANGED <<status, storeBusy>>
           \/ Faults /\ UNCHANGED <<last, stopping, status, storeBusy>>
     \/ /\ status \notin Active \/ Faults
        /\ UNCHANGED <<killPid, lock, muted, status, storeBusy, last, stopping>>
  /\ UNCHANGED <<world, rowPid, native, slot, logged, sidecar, step, launch, handle, rt,
                 rtNative, inbox, sawFrame, loop, hand, history>>

\* killTree on the pid of the snapshot: a process it does not name lives on.
KillHarness ==
  /\ daemon = "draining" /\ Idle
  /\ daemon' = "killed"
  /\ procs' = procs \ {killPid}
  /\ UNCHANGED <<turn, frame, row, files, restarts, control, reader, history>>

\* drainForShutdown closes the runtime of a session in the snapshot.
DrainRuntime ==
  /\ daemon = "killed" /\ Idle
  /\ daemon' = "waiting"
  /\ IF lock = "shutdown" /\ rt = "live"
       THEN /\ rt' = "done"
            /\ IF sawFrame \/ handle \in logged \/ frame[handle] = "none"
                 THEN UNCHANGED <<inbox, sawFrame>>
                 ELSE sawFrame' = TRUE /\ inbox' = Append(inbox, FrameEvent(frame[handle]))
       ELSE UNCHANGED <<rt, inbox, sawFrame>>
  /\ UNCHANGED <<world, row, files, restarts, control, handle, rtNative, muted, loop, hand,
                 history>>

\* What dies with the daemon process.
Forget ==
  /\ step' = "idle" /\ launch' = NoLaunch
  /\ lock' = "free" /\ stopping' = NotStopping /\ killPid' = 0
  /\ handle' = 0 /\ rt' = "none" /\ rtNative' = FALSE /\ inbox' = <<>>
  /\ sawFrame' = FALSE /\ muted' = FALSE /\ loop' = "none" /\ hand' = NoEvent

Exit ==
  /\ daemon = "waiting" /\ Idle
  /\ lock = "shutdown" /\ loop \in {"on", "ended", "gone"} => Drained
  /\ daemon' = "down"
  /\ Forget
  /\ UNCHANGED <<world, row, files, restarts, history>>

Crash ==
  /\ Running /\ (daemon = "up" => restarts < MaxRestarts)
  /\ restarts' = IF daemon = "up" THEN restarts + 1 ELSE restarts
  /\ daemon' = "down"
  /\ untracked' = IF step \in {"spawned", "written"} THEN untracked \cup {handle} ELSE untracked
  /\ Forget
  /\ UNCHANGED <<world, row, files, stale, sent, ran>>
-----------------------------------------------------------------------------
(* Boot: reviveStoreBusyFailures and recover, then the auto-resume scan. *)

\* The sidecar knows a process that the row may not.
BootPid == IF sidecar # 0 THEN sidecar ELSE rowPid

Healing == status = "failed" /\ storeBusy /\ BootPid # 0

MutantRecovered == Healing \/ status = "working"

Recovered == Healing \/ status \in Active

BootCommon ==
  /\ daemon = "down" /\ daemon' = "up"
  /\ UNCHANGED <<world, native, slot, logged, sidecar, restarts, launch, lock, stopping,
                 killPid, stale, sent, ran>>

\* The auto-resume takes up what a shutdown interrupted.
Scanned == {"interrupted"}

BootQuiet ==
  /\ BootCommon /\ ~Recovered
  /\ step' = IF AutoResume /\ status \in Scanned THEN "scan" ELSE "idle"
  /\ UNCHANGED <<status, rowPid, storeBusy, last, reader, untracked>>

\* No process to look for; one whose pid is somebody else's by now; or an
\* attach that throws.
BootGivesUp ==
  /\ BootCommon /\ Recovered
  /\ \/ BootPid = 0 /\ status' = "failed" /\ UNCHANGED <<storeBusy, last>>
     \/ /\ BootPid # 0 /\ BootPid \notin procs /\ ~Healing
        /\ status' = "failed" /\ storeBusy' = FALSE /\ last' = "failed"
     \/ /\ Faults /\ BootPid # 0
        /\ status' = IF BootPid \in procs THEN "orphaned" ELSE "failed"
        /\ storeBusy' = (storeBusy /\ ~Healing) /\ UNCHANGED last
  /\ UNCHANGED <<rowPid, step, reader, untracked>>

\* The live or dead process is taken up where the log was left.
BootReattach ==
  /\ BootCommon /\ Recovered /\ BootPid # 0
  /\ handle' = BootPid /\ rt' = "live" /\ rtNative' = native
  /\ loop' = "on"
  /\ rowPid' = IF rowPid = 0 THEN BootPid ELSE rowPid
  /\ status' = IF Healing \/ BootPid \in procs THEN "working" ELSE status
  /\ storeBusy' = (storeBusy /\ ~Healing)
  /\ untracked' = untracked \ {rowPid'}
  /\ UNCHANGED <<last, step, inbox, sawFrame, muted, hand>>

\* autoResumeInterruptedSessions: the session must be resumable, its harness
\* dead, and the interruption recent enough.
Scan ==
  /\ step = "scan"
  /\ \/ /\ native /\ rowPid \notin procs /\ turn < MaxTurns
        /\ ClearPending /\ Begin(slot, "resume")
     \/ step' = "idle" /\ UNCHANGED <<slot, stale, launch>>
  /\ UNCHANGED <<world, status, rowPid, native, storeBusy, files, daemon, restarts,
                 lock, stopping, killPid, reader, sent, ran, untracked>>
-----------------------------------------------------------------------------
Init ==
  /\ turn = 0 /\ procs = {} /\ frame = [t \in Turns |-> "none"]
  /\ status = "none" /\ rowPid = 0 /\ native = FALSE /\ slot = NoMsg /\ storeBusy = FALSE
  /\ last = "other" /\ logged = {} /\ sidecar = 0
  /\ daemon = "up" /\ restarts = 0
  /\ step = "idle" /\ launch = NoLaunch
  /\ lock = "free" /\ stopping = NotStopping /\ killPid = 0
  /\ handle = 0 /\ rt = "none" /\ rtNative = FALSE /\ inbox = <<>>
  /\ sawFrame = FALSE /\ muted = FALSE /\ loop = "none" /\ hand = NoEvent
  /\ stale = NoMsg /\ sent = {} /\ ran = [m \in Msgs |-> 0] /\ untracked = {}

Next ==
  \/ HarnessWrites \/ HarnessExits
  \/ ReadNative \/ ReadFrame \/ Finish
  \/ Take \/ Commit \/ CommitFails \/ StreamEnd
  \/ Create \/ TryDispatch \/ Announce \/ Spawn \/ WriteSidecar \/ Record \/ LaunchFails
  \/ \E m \in Msgs : SendQueued(m) \/ SendNow(m)
  \/ AttachLoop
  \/ StopRefused \/ StopBegin \/ StopEnd \/ Release
  \/ ShutdownBegin \/ KillHarness \/ DrainRuntime \/ Exit \/ Crash
  \/ BootQuiet \/ BootGivesUp \/ BootReattach \/ Scan

Spec == Init /\ [][Next]_vars
-----------------------------------------------------------------------------
(* Properties. *)

FlagsOK ==
  /\ native \in BOOLEAN /\ storeBusy \in BOOLEAN
  /\ rtNative \in BOOLEAN /\ sawFrame \in BOOLEAN /\ muted \in BOOLEAN

TypeOK ==
  /\ FlagsOK
  /\ turn \in 0..MaxTurns /\ procs \subseteq 1..turn
  /\ frame \in [Turns -> Ends \cup {"none"}]
  /\ status \in {"none"} \cup Active \cup TerminalStatus
  /\ rowPid \in 0..turn /\ sidecar \in 0..turn /\ handle \in 0..turn /\ killPid \in 0..turn
  /\ slot \in Msgs \cup {NoMsg} /\ stale \in Msgs \cup {NoMsg}
  /\ last \in Ends \cup {"other"} /\ logged \subseteq 0..turn
  /\ daemon \in {"up", "draining", "killed", "waiting", "down"}
  /\ restarts \in 0..MaxRestarts
  /\ step \in {"idle", "dispatch", "scan"} \cup Starting
  /\ launch \in [msg : Msgs \cup {NoMsg}, via : {"none", "create", "send", "dispatch", "resume"}]
  /\ lock \in {"free", "stop", "shutdown"}
  /\ stopping \in [from : {"none"} \cup Active \cup TerminalStatus, grew : BOOLEAN]
  /\ rt \in {"none", "live", "done"} /\ (rt # "none" <=> handle # 0)
  /\ inbox \in Seq(Event) /\ hand \in Event
  /\ loop \in {"none", "pending", "on", "ended", "gone"}
  /\ sent \subseteq Msgs /\ ran \in [Msgs -> Nat] /\ untracked \subseteq 0..turn

\* No second harness is started while one is alive that the row could know:
\* all but one of the live processes had their start cut short.
OneHarness == Cardinality(procs \ untracked) <= 1

\* Only an ended session's lock is held across a wait: the shutdown never has
\* to wait for an owner, and never marks a session under one.
LockOwnerEnded == lock = "stop" => status \in TerminalStatus

\* A stop in progress has emptied the slot, unless the store would not let it,
\* and no send can fill it: when it is over, no message that came after it is
\* left for a dispatch to start.
StopCancels == lock = "stop" => slot \in {NoMsg, stale}

\* No event loop of an earlier turn is left to read the new turn's runtime, nor
\* a poll that will attach one.  The exception: a stop within the two seconds
\* that create polls for the native session id, of a harness that had written
\* nothing but lines that make no event.  Its runtime is read to its end then
\* and has the id, so that a send starts the next turn under the poll.
LoopsDontOverlap ==
  [][turn' # turn /\ loop \in {"pending", "on"}
       => loop = "pending" /\ muted /\ rt = "done"]_vars

\* An active session of a running daemon has a loop that will see its end.
ActiveIsWatched ==
  daemon = "up" /\ step = "idle" /\ status \in Active => loop \in {"pending", "on"}

\* What has become of message m.  One that a harness was given and that could
\* be started again is in no state the queue knows.
Flying(m) == launch.msg = m /\ step \in {"cleared", "announced"}

Fate(m) ==
  IF ran[m] > 0 THEN IF slot = m \/ Flying(m) THEN "again" ELSE "started"
  ELSE IF slot = m THEN "queued"
  ELSE IF Flying(m) THEN "flying"
  ELSE IF m \in sent THEN "dropped" ELSE "new"

\* A message is started at most once, whatever fails or crashes on the way.
SQ == INSTANCE SendQueue WITH fate <- [m \in Msgs |-> Fate(m)]
ImplementsSendQueue == SQ!Spec

\* A dispatch that fails keeps its message, unless the daemon died with it.
FailedStartKeepsMessage ==
  [][\A m \in Msgs : Fate(m) = "flying" /\ Fate(m)' = "dropped"
       => daemon' = "down" \/ launch.via = "send"]_vars
-----------------------------------------------------------------------------
(* Liveness. *)

\* Timers, promises and synchronous code of a running daemon go on; killTree
\* ends in SIGKILL; the next command starts a daemon that is down.
Fairness ==
  /\ WF_vars(ReadFrame) /\ WF_vars(Finish)
  /\ WF_vars(Take) /\ WF_vars(Commit) /\ WF_vars(StreamEnd) /\ WF_vars(AttachLoop)
  /\ WF_vars(TryDispatch) /\ WF_vars(Announce \/ LaunchFails) /\ WF_vars(Spawn \/ LaunchFails)
  /\ WF_vars(WriteSidecar) /\ WF_vars(Record \/ LaunchFails) /\ WF_vars(Scan)
  /\ WF_vars(StopEnd) /\ WF_vars(lock = "stop" /\ HarnessExits)
  /\ WF_vars(KillHarness) /\ WF_vars(DrainRuntime) /\ WF_vars(Exit)
  /\ WF_vars(BootQuiet \/ BootGivesUp \/ BootReattach)

FairSpec == Spec /\ Fairness

\* A message queued behind a turn whose harness is gone is started, replaced
\* or cancelled, if the session can be resumed and the daemon stays up.
QueuedMessageLeaves ==
  \A m \in Msgs :
    (slot = m /\ daemon = "up" /\ procs = {} /\ loop \in {"pending", "on"})
      ~> (slot # m \/ daemon # "up" \/ ~NativeKnown)

\* The sidecar closes the window between the spawn and the row's update: the
\* live process that the daemon reads is the one the row names.
SidecarClosesWindow ==
  daemon = "up" /\ step = "idle" /\ handle \in procs => rowPid = handle

\* A message reaches one harness at most.
StartedOnce == \A m \in Msgs : ran[m] <= 1
=============================================================================
