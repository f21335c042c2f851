------------------------ MODULE SessionLifecycle_proofs ------------------------
(***************************************************************************)
(* The safety of SessionLifecycle for every number of messages, turns and  *)
(* restarts, and whatever fails: its type invariant, one inductive         *)
(* invariant, and from the two no second harness, a stop that neither      *)
(* lets a message through nor blocks the shutdown, and the one way to two  *)
(* event loops on one runtime.                                             *)
(*                                                                         *)
(* Then its send queue: as long as the store accepts what is written to    *)
(* it, SessionLifecycle implements SendQueue whatever else crashes or      *)
(* fails, a message reaches one harness at most, and a failed dispatch     *)
(* keeps it. The assumption is needed: with Faults a start that fails      *)
(* after its spawn restores a message that a harness already has.          *)
(***************************************************************************)
EXTENDS SessionLifecycle, FiniteSetTheorems, TLAPS

-----------------------------------------------------------------------------
(* Types. *)

\* The Boolean variables, apart from the others.
LEMMA FlagsStep == FlagsOK /\ [Next]_vars => FlagsOK'
<1> SUFFICES ASSUME FlagsOK, [Next]_vars PROVE FlagsOK'
  OBVIOUS
<1> USE Zenon DEF FlagsOK, world, row, files, control, reader, history
<1>1. CASE HarnessWrites \/ HarnessExits
  BY <1>1 DEF HarnessWrites, HarnessExits
<1>2. CASE ReadNative \/ ReadFrame \/ Finish
  BY <1>2 DEF ReadNative, ReadFrame, Finish
<1>3. CASE Take \/ Commit
  BY <1>3 DEF Take, Commit
<1>4. CASE CommitFails \/ StreamEnd
  BY <1>4 DEF CommitFails, StreamEnd, EndActive, EndRefused
<1>5. CASE Create \/ TryDispatch \/ Announce
  BY <1>5 DEF Create, TryDispatch, Announce
<1>6. CASE Spawn \/ WriteSidecar
  BY <1>6 DEF Spawn, WriteSidecar
<1>7. CASE Record
  BY <1>7 DEF Record, NativeKnown
<1>8. CASE LaunchFails
  BY <1>8 DEF LaunchFails, NativeKnown
<1>9. CASE \E m \in Msgs : SendQueued(m) \/ SendNow(m)
  BY <1>9 DEF SendQueued, SendNow, ClearPending
<1>10. CASE AttachLoop
  BY <1>10 DEF AttachLoop, NativeKnown
<1>11. CASE StopRefused \/ StopBegin \/ StopEnd \/ Release
  BY <1>11 DEF StopRefused, ClearPending, StopBegin, StopEnd, Release
<1>12. CASE ShutdownBegin \/ KillHarness \/ DrainRuntime
  BY <1>12 DEF ShutdownBegin, KillHarness, DrainRuntime
<1>13. CASE Exit \/ Crash
  BY <1>13 DEF Exit, Crash, Forget
<1>14. CASE BootQuiet \/ BootGivesUp
  BY <1>14 DEF BootQuiet, BootGivesUp, BootCommon
<1>15. CASE BootReattach \/ Scan
  BY <1>15 DEF BootReattach, BootCommon, Scan, ClearPending
<1>16. CASE UNCHANGED vars
  BY <1>16 DEF vars
<1> QED
  BY <1>1, <1>2, <1>3, <1>4, <1>5, <1>6, <1>7, <1>8, <1>9, <1>10, <1>11, <1>12, <1>13,
     <1>14, <1>15, <1>16 DEF Next

\* The record of a stop stays one, whether or not it is in progress.
LEMMA StoppingType ==
  ASSUME stopping \in [from : {"none"} \cup Active \cup TerminalStatus, grew : BOOLEAN],
         stopping' \in {stopping, Grew, NotStopping, [from |-> status, grew |-> FALSE]},
         status \in {"none"} \cup Active \cup TerminalStatus
  PROVE  stopping' \in [from : {"none"} \cup Active \cup TerminalStatus, grew : BOOLEAN]
<1>1. Grew \in [from : {"none"} \cup Active \cup TerminalStatus, grew : BOOLEAN]
  BY Zenon DEF Grew
<1>2. NotStopping \in [from : {"none"} \cup Active \cup TerminalStatus, grew : BOOLEAN]
  BY Zenon DEF NotStopping
<1>3. [from |-> status, grew |-> FALSE]
        \in [from : {"none"} \cup Active \cup TerminalStatus, grew : BOOLEAN]
  BY Zenon
<1> QED
  BY <1>1, <1>2, <1>3

\* A stop remembers the status it found.
LEMMA GrewFrom ==
  ASSUME stopping \in [from : {"none"} \cup Active \cup TerminalStatus, grew : BOOLEAN]
  PROVE  Grew.from = stopping.from
BY DEF Grew

\* Which of the values above a step gives it.
LEMMA StoppingStep ==
  [Next]_vars => stopping' \in {stopping, Grew, NotStopping, [from |-> status, grew |-> FALSE]}
<1> SUFFICES ASSUME [Next]_vars
             PROVE  stopping' \in {stopping, Grew, NotStopping, [from |-> status, grew |-> FALSE]}
  OBVIOUS
<1> USE Zenon DEF control
<1>1. CASE HarnessWrites \/ HarnessExits \/ ReadNative \/ ReadFrame \/ Finish \/ Take
  BY <1>1 DEF HarnessWrites, HarnessExits, ReadNative, ReadFrame, Finish, Take
<1>2. CASE Commit \/ CommitFails \/ StreamEnd
  BY <1>2 DEF Commit, CommitFails, StreamEnd, EndActive, EndRefused
<1>3. CASE Create \/ TryDispatch \/ Announce \/ Spawn \/ WriteSidecar \/ Record
  BY <1>3 DEF Create, TryDispatch, Announce, Spawn, WriteSidecar, Record
<1>4. CASE LaunchFails \/ AttachLoop
  BY <1>4 DEF LaunchFails, AttachLoop
<1>5. CASE \E m \in Msgs : SendQueued(m) \/ SendNow(m)
  BY <1>5 DEF SendQueued, SendNow, ClearPending
<1>6. CASE StopRefused \/ StopBegin \/ StopEnd \/ Release
  BY <1>6 DEF StopRefused, ClearPending, StopBegin, StopEnd, Release
<1>7. CASE ShutdownBegin \/ KillHarness \/ DrainRuntime \/ Exit \/ Crash
  BY <1>7 DEF ShutdownBegin, KillHarness, DrainRuntime, Exit, Crash, Forget
<1>8. CASE BootQuiet \/ BootGivesUp \/ BootReattach \/ Scan
  BY <1>8 DEF BootQuiet, BootGivesUp, BootReattach, BootCommon, Scan, ClearPending
<1>9. CASE UNCHANGED vars
  BY <1>9 DEF vars
<1> QED
  BY <1>1, <1>2, <1>3, <1>4, <1>5, <1>6, <1>7, <1>8, <1>9 DEF Next

\* What the loop can be handed.
LEMMA EventTypes ==
  /\ NoEvent \in Event /\ NativeEvent \in Event
  /\ \A type \in Ends : FrameEvent(type) \in Event /\ ExitEvent(type) \in Event
BY DEF NoEvent, NativeEvent, FrameEvent, ExitEvent, Event

LEMMA AppendedType ==
  ASSUME NEW q \in Seq(Event), NEW e \in Event
  PROVE  Append(q, e) \in Seq(Event) /\ Append(q, e) # <<>>
<1>1. Append(q, e) \in Seq(Event)
  OBVIOUS
<1>2. Len(Append(q, e)) = Len(q) + 1 /\ Len(q) \in Nat
  OBVIOUS
<1> QED
  BY <1>1, <1>2

LEMMA TypeInitially == Init => TypeOK
<1>1. Init => FlagsOK
  BY Zenon DEF Init, FlagsOK
<1>3. NotStopping \in [from : {"none"} \cup Active \cup TerminalStatus, grew : BOOLEAN]
  BY Zenon DEF NotStopping
<1>2. Init => launch \in [msg : Msgs \cup {NoMsg},
                          via : {"none", "create", "send", "dispatch", "resume"}]
  BY DEF Init, NoLaunch
<1> QED
  BY <1>1, <1>2, <1>3, EventTypes, LimitsAssumption DEF Init, TypeOK, Turns

\* Action by action, with the Boolean variables and the stop's record set apart.
LEMMA TypeStep == TypeOK /\ [Next]_vars => TypeOK'
<1> SUFFICES ASSUME TypeOK, [Next]_vars PROVE TypeOK'
  OBVIOUS
<1>a. FlagsOK'
  BY FlagsStep DEF TypeOK
<1>b. stopping' \in [from : {"none"} \cup Active \cup TerminalStatus, grew : BOOLEAN]
  BY StoppingStep, StoppingType DEF TypeOK
<1> USE <1>a, <1>b, LimitsAssumption DEF world, row, files, control, reader, history
<1>1. CASE HarnessWrites
  <2>1. PICK t \in procs, type \in Ends : frame' = [frame EXCEPT ![t] = type]
    BY <1>1 DEF HarnessWrites
  <2>2. frame' \in [Turns -> Ends \cup {"none"}]
    BY <2>1 DEF TypeOK
  <2> QED
    BY <1>1, <2>2 DEF HarnessWrites, TypeOK
<1>2. CASE HarnessExits
  BY <1>2 DEF HarnessExits, TypeOK
<1>3. CASE ReadNative
  <2>1. Append(inbox, NativeEvent) \in Seq(Event)
    BY EventTypes, AppendedType DEF TypeOK
  <2>2. inbox' \in Seq(Event)
    BY <1>3, <2>1 DEF ReadNative, TypeOK
  <2> QED
    BY <1>3, <2>2 DEF ReadNative, TypeOK
<1>4. CASE ReadFrame
  <2>1. FrameEvent(frame[handle]) \in Event
    BY <1>4, EventTypes DEF ReadFrame
  <2> QED
    BY <1>4, <2>1 DEF ReadFrame, TypeOK
<1>5. CASE Finish
  <2>1. inbox' = inbox \/ \E type \in Ends : inbox' = Append(inbox, ExitEvent(type))
    BY <1>5, Zenon DEF Finish
  <2>2. ASSUME NEW type \in Ends PROVE Append(inbox, ExitEvent(type)) \in Seq(Event)
    BY EventTypes, AppendedType DEF TypeOK
  <2>3. inbox \in Seq(Event)
    BY DEF TypeOK
  <2>4. inbox' \in Seq(Event)
    BY <2>1, <2>2, <2>3, Zenon
  <2> QED
    BY <1>5, <2>4 DEF Finish, TypeOK
<1>6. CASE Take
  <2>1. inbox' \in Seq(Event) /\ Head(inbox) \in Event
    BY <1>6 DEF Take, TypeOK
  <2> QED
    BY <1>6, <2>1 DEF Take, TypeOK
<1>7. CASE Commit
  <2>1. hand.type \in Ends \cup {"other"}
    BY DEF TypeOK, Event
  <2> QED
    BY <1>7, <2>1, EventTypes DEF Commit, TypeOK, TerminalStatus
<1>8. CASE CommitFails
  BY <1>8 DEF CommitFails, TypeOK, TerminalStatus, Ends
<1>9. CASE StreamEnd
  BY <1>9 DEF StreamEnd, EndActive, EndRefused, TypeOK, TerminalStatus, Ends, TailCall
<1>10. CASE Create
  BY <1>10 DEF Create, Serving, Begin, TypeOK, Active, Starting
<1>11. CASE TryDispatch
  BY <1>11 DEF TryDispatch, Begin, SlotTaken, TypeOK, Starting
<1>12. CASE Announce
  BY <1>12 DEF Announce, TypeOK, Starting, Active
<1>13. CASE Spawn
  <2>1. turn + 1 \in 1..MaxTurns /\ turn' = turn + 1
    BY <1>13 DEF Spawn, TypeOK
  <2>2. ran' \in [Msgs -> Nat]
    BY <1>13 DEF Spawn, TypeOK
  <2>3. procs' \subseteq 1..turn' /\ untracked' \subseteq 0..turn' /\ logged' \subseteq 0..turn'
    BY <1>13, <2>1 DEF Spawn, TypeOK
  <2> QED
    BY <1>13, <2>1, <2>2, <2>3, EventTypes DEF Spawn, TypeOK, Starting
<1>14. CASE WriteSidecar
  BY <1>14 DEF WriteSidecar, TypeOK, Starting
<1>15. CASE Record
  BY <1>15 DEF Record, TypeOK, NoLaunch, Active
<1>16. CASE LaunchFails
  <2>1. untracked' \subseteq 0..turn' /\ rowPid' \in 0..turn' /\ turn' = turn
    <3>1. turn' = turn /\ untracked' \in {untracked, untracked \cup {handle}}
          /\ rowPid' \in {rowPid, handle}
      BY <1>16 DEF LaunchFails
    <3> QED
      BY <3>1 DEF TypeOK
  <2>2. slot' \in Msgs \cup {NoMsg} /\ last' \in Ends \cup {"other"}
    BY <1>16 DEF LaunchFails, SlotRestored, TypeOK, Ends
  <2>3. launch' \in [msg : Msgs \cup {NoMsg},
                     via : {"none", "create", "send", "dispatch", "resume"}]
    BY <1>16 DEF LaunchFails, NoLaunch
  <2>4. status' \in {"none"} \cup Active \cup TerminalStatus
    BY <1>16 DEF LaunchFails, TypeOK, TerminalStatus, Ends, Active
  <2> QED
    BY <1>16, <2>1, <2>2, <2>3, <2>4 DEF LaunchFails, TypeOK
<1>17. ASSUME NEW m \in Msgs, SendQueued(m) PROVE TypeOK'
  BY <1>17 DEF SendQueued, TypeOK
<1>18. ASSUME NEW m \in Msgs, SendNow(m) PROVE TypeOK'
  BY <1>18 DEF SendNow, ClearPending, Begin, TypeOK, Starting
<1>19. CASE AttachLoop
  BY <1>19 DEF AttachLoop, TypeOK, TerminalStatus, Ends
<1>20. CASE StopRefused
  BY <1>20 DEF StopRefused, ClearPending, TypeOK
<1>21. CASE StopBegin
  BY <1>21 DEF StopBegin, ClearPending, StatusAtStop, TypeOK, TerminalStatus
<1>22. CASE StopEnd
  <2>1. stopping.from \in {"none"} \cup Active \cup TerminalStatus
    BY DEF TypeOK
  <2> QED
    BY <1>22, <2>1 DEF StopEnd, ClearPending, TypeOK, TerminalStatus, Ends
<1>23. CASE Release
  BY <1>23 DEF Release, ClearPending, TypeOK, TerminalStatus
<1>24. CASE ShutdownBegin
  BY <1>24 DEF ShutdownBegin, Serving, TypeOK, TerminalStatus, Ends
<1>25. CASE KillHarness
  BY <1>25 DEF KillHarness, TypeOK
<1>26. CASE DrainRuntime
  <2>1. inbox' = inbox \/ (frame[handle] \in Ends /\ inbox' = Append(inbox, FrameEvent(frame[handle])))
    BY <1>26 DEF DrainRuntime, TypeOK, Turns
  <2>2. ASSUME inbox' # inbox PROVE inbox' \in Seq(Event)
    <3>1. FrameEvent(frame[handle]) \in Event
      BY <2>1, <2>2, EventTypes
    <3>2. inbox \in Seq(Event)
      BY DEF TypeOK
    <3>3. Append(inbox, FrameEvent(frame[handle])) \in Seq(Event)
      BY <3>1, <3>2, AppendedType
    <3> QED
      BY <2>1, <2>2, <3>3, Zenon
  <2>3. inbox' \in Seq(Event)
    BY <2>2 DEF TypeOK
  <2> QED
    BY <1>26, <2>3 DEF DrainRuntime, TypeOK
<1>27. CASE Exit
  BY <1>27, EventTypes DEF Exit, Forget, TypeOK, NoLaunch
<1>28. CASE Crash
  <2>1. untracked' \subseteq 0..turn'
    BY <1>28 DEF Crash, TypeOK
  <2>2. restarts' \in 0..MaxRestarts
    BY <1>28 DEF Crash, Running, TypeOK
  <2> QED
    BY <1>28, <2>1, <2>2, EventTypes DEF Crash, Forget, TypeOK, NoLaunch
<1>29. CASE BootQuiet
  BY <1>29 DEF BootQuiet, BootCommon, TypeOK
<1>30. CASE BootGivesUp
  BY <1>30 DEF BootGivesUp, BootCommon, TypeOK, TerminalStatus, Ends
<1>31. CASE BootReattach
  BY <1>31 DEF BootReattach, BootCommon, BootPid, TypeOK, Active
<1>32. CASE Scan
  BY <1>32 DEF Scan, ClearPending, Begin, TypeOK, Starting
<1>33. CASE UNCHANGED vars
  BY <1>33 DEF vars, TypeOK
<1> QED
  BY <1>1, <1>2, <1>3, <1>4, <1>5, <1>6, <1>7, <1>8, <1>9, <1>10, <1>11, <1>12, <1>13, <1>14, <1>15, <1>16,
     <1>17, <1>18, <1>19, <1>20, <1>21, <1>22, <1>23, <1>24, <1>25, <1>26, <1>27, <1>28, <1>29, <1>30, <1>31, <1>32, <1>33 DEF Next

\* No step of any party, in whatever order, leaves a variable without a meaning.
THEOREM TypeCorrect == Spec => []TypeOK
BY TypeInitially, TypeStep, PTL DEF Spec
-----------------------------------------------------------------------------
(* The inductive invariant. *)

Known == procs \ untracked
Launching == step \in {"cleared", "announced"}
Spawning == step \in {"spawned", "written"}

\* Nothing of a daemon survives it; a session that does not exist has nothing.
Absent ==
  /\ daemon = "down" => step = "idle" /\ lock = "free" /\ handle = 0
  /\ status = "none" => /\ step = "idle" /\ lock = "free" /\ handle = 0
                        /\ rowPid = 0 /\ ~native
  /\ handle = 0 => loop \notin {"pending", "on"} /\ hand = NoEvent
  /\ step = "scan" => status = "interrupted" /\ handle = 0 /\ lock = "free"

\* The live harness is the one the row names.  Until the row learns the next
\* one, there is none besides the runtime's.
HarnessKnown ==
  /\ ~Spawning => Known \subseteq {rowPid}
  /\ Spawning => handle = turn /\ handle # 0 /\ Known \subseteq {handle}
  /\ Launching => rowPid \notin procs

\* What session.stop relies on between its two halves.
StopHolds ==
  /\ lock = "stop" => /\ status \in TerminalStatus /\ slot \in {NoMsg, stale}
                      /\ stopping.from # "none"
  /\ step \in Starting => lock = "free"

\* While create still polls, whatever its runtime has read is in the inbox and
\* makes the session busy, and so does the exit that it then makes up, unless it
\* was told of a stop.
LoopTurns ==
  /\ loop = "pending" => /\ ~native /\ hand = NoEvent
                         /\ sawFrame => inbox # <<>>
                         /\ rt = "done" => inbox # <<>> \/ muted
  /\ lock = "shutdown" /\ handle # 0 => muted
  /\ step = "dispatch" => ~LoopReady
  /\ Launching => loop # "on" /\ (loop = "pending" => /\ launch.via # "create"
                                                      /\ muted /\ rt = "done")
  /\ step \in Starting /\ launch.via = "create" => ~native
  /\ Spawning => /\ hand = NoEvent /\ loop = "none" /\ ~sawFrame /\ rt = "live"

IInv == TypeOK /\ Absent /\ HarnessKnown /\ StopHolds /\ LoopTurns

\* Whoever changes the daemon, the row or the handle map keeps them in step.
LEMMA AbsentStep == IInv /\ [Next]_vars => Absent'
<1> SUFFICES ASSUME IInv, [Next]_vars PROVE Absent'
  OBVIOUS
<1> USE DEF IInv, TypeOK, Absent, world, row, files, control, reader, history
<1>1. CASE HarnessWrites
  BY <1>1 DEF HarnessWrites, Active, TerminalStatus, Starting, Ends
<1>2. CASE HarnessExits
  BY <1>2 DEF HarnessExits, Active, TerminalStatus, Starting, Ends
<1>3. CASE ReadNative
  BY <1>3 DEF ReadNative, Idle, Running, Active, TerminalStatus, Starting, Ends
<1>4. CASE ReadFrame
  BY <1>4 DEF ReadFrame, Idle, Running, Active, TerminalStatus, Starting, Ends
<1>5. CASE Finish
  BY <1>5 DEF Finish, Idle, Running, Active, TerminalStatus, Starting, Ends
<1>6. CASE Take
  BY <1>6 DEF Take, Running, LoopReady, Active, TerminalStatus, Starting, Ends
<1>7. CASE Commit
  BY <1>7 DEF Commit, Running, Active, TerminalStatus, Starting, Ends
<1>8. CASE CommitFails
  BY <1>8 DEF CommitFails, Running, Ends, Active, TerminalStatus, Starting
<1>9. CASE StreamEnd
  BY <1>9 DEF StreamEnd, EndActive, EndRefused, Running, LoopReady, TailCall, Ends, Active, TerminalStatus, Starting
<1>10. CASE Create
  BY <1>10 DEF Create, Serving, Idle, Running, Begin, Active, TerminalStatus, Starting, Ends
<1>11. CASE TryDispatch
  BY <1>11 DEF TryDispatch, Running, Dispatchable, SlotTaken, Begin, Busy, Drained, NativeKnown, Active, TerminalStatus, Starting, Ends
<1>12. CASE Announce
  BY <1>12 DEF Announce, Active, TerminalStatus, Starting, Ends
<1>13. CASE Spawn
  BY <1>13 DEF Spawn, NativeKnown, Active, TerminalStatus, Starting, Ends
<1>14. CASE WriteSidecar
  BY <1>14 DEF WriteSidecar, Active, TerminalStatus, Starting, Ends
<1>15. CASE Record
  BY <1>15 DEF Record, NoLaunch, HarnessKnown, Spawning, Active, TerminalStatus, Starting, Ends
<1>16. CASE LaunchFails
  BY <1>16 DEF LaunchFails, NoLaunch, SlotRestored, StartFails, Active, TerminalStatus, Starting, Ends
<1>17. ASSUME NEW m \in Msgs, SendQueued(m) PROVE Absent'
  BY <1>17 DEF SendQueued, Sendable, Serving, Idle, Running, Absent, Active, TerminalStatus, Starting, Ends
<1>18. ASSUME NEW m \in Msgs, SendNow(m) PROVE Absent'
  BY <1>18 DEF SendNow, ClearPending, Sendable, Serving, Idle, Running, Begin, Busy, Drained, Absent, Active, TerminalStatus, Starting, Ends
<1>19. CASE AttachLoop
  BY <1>19 DEF AttachLoop, Idle, Running, NativeKnown, Active, TerminalStatus, Starting, Ends
<1>20. CASE StopRefused
  BY <1>20 DEF StopRefused, ClearPending, Serving, Idle, Running, Active, TerminalStatus, Starting, Ends
<1>21. CASE StopBegin
  BY <1>21 DEF StopBegin, ClearPending, Serving, Idle, Running, StatusAtStop, Active, TerminalStatus, Starting, Ends
<1>22. CASE StopEnd
  BY <1>22 DEF StopEnd, ClearPending, StopHolds, Serving, Idle, Running, NotStopping, Active, TerminalStatus, Starting, Ends
<1>23. CASE Release
  BY <1>23 DEF Release, ClearPending, Serving, Idle, Running, Active, TerminalStatus, Starting, Ends
<1>24. CASE ShutdownBegin
  BY <1>24 DEF ShutdownBegin, Serving, Idle, Running, Active, TerminalStatus, Starting, Ends
<1>25. CASE KillHarness
  BY <1>25 DEF KillHarness, Idle, Running, Active, TerminalStatus, Starting, Ends
<1>26. CASE DrainRuntime
  BY <1>26 DEF DrainRuntime, Idle, Running, Active, TerminalStatus, Starting, Ends
<1>27. CASE Exit
  BY <1>27 DEF Exit, Forget, NoLaunch, Idle, Running, Active, TerminalStatus, Starting, Ends
<1>28. CASE Crash
  BY <1>28 DEF Crash, Forget, NoLaunch, Running, Active, TerminalStatus, Starting, Ends
<1>29. CASE BootQuiet
  BY <1>29 DEF BootQuiet, BootCommon, Scanned, Active, TerminalStatus, Starting, Ends
<1>30. CASE BootGivesUp
  BY <1>30 DEF BootGivesUp, BootCommon, Recovered, Healing, Active, TerminalStatus, Starting, Ends
<1>31. CASE BootReattach
  BY <1>31 DEF BootReattach, BootCommon, Recovered, Healing, BootPid, Active, TerminalStatus, Starting, Ends
<1>32. CASE Scan
  BY <1>32 DEF Scan, ClearPending, Begin, Active, TerminalStatus, Starting, Ends
<1>33. CASE UNCHANGED vars
  BY <1>33 DEF vars, Active, TerminalStatus, Starting, Ends
<1> QED
  BY <1>1, <1>2, <1>3, <1>4, <1>5, <1>6, <1>7, <1>8, <1>9, <1>10, <1>11, <1>12, <1>13, <1>14, <1>15, <1>16,
     <1>17, <1>18, <1>19, <1>20, <1>21, <1>22, <1>23, <1>24, <1>25, <1>26, <1>27, <1>28, <1>29, <1>30, <1>31, <1>32, <1>33 DEF Next

\* A harness is started only when the last one is gone, and known when it is.
LEMMA HarnessKnownStep == IInv /\ [Next]_vars => HarnessKnown'
<1> SUFFICES ASSUME IInv, [Next]_vars PROVE HarnessKnown'
  OBVIOUS
<1> USE DEF IInv, TypeOK, HarnessKnown, world, row, files, control, reader, history
<1>1. CASE HarnessWrites
  BY <1>1 DEF HarnessWrites, Absent, Known, Launching, Spawning, Starting
<1>2. CASE HarnessExits
  BY <1>2 DEF HarnessExits, Absent, Known, Launching, Spawning, Starting
<1>3. CASE ReadNative
  BY <1>3 DEF ReadNative, Idle, Running, Absent, Known, Launching, Spawning, Starting
<1>4. CASE ReadFrame
  BY <1>4 DEF ReadFrame, Idle, Running, Absent, Known, Launching, Spawning, Starting
<1>5. CASE Finish
  BY <1>5 DEF Finish, Idle, Running, Absent, Known, Launching, Spawning, Starting
<1>6. CASE Take
  BY <1>6 DEF Take, Running, LoopReady, Absent, Known, Launching, Spawning, Starting
<1>7. CASE Commit
  BY <1>7 DEF Commit, Running, Absent, Known, Launching, Spawning, Starting
<1>8. CASE CommitFails
  BY <1>8 DEF CommitFails, Running, Ends, Absent, Known, Launching, Spawning, Starting
<1>9. CASE StreamEnd
  BY <1>9 DEF StreamEnd, EndActive, EndRefused, Running, LoopReady, TailCall, Ends, Absent, Known, Launching, Spawning, Starting
<1>10. CASE Create
  BY <1>10 DEF Create, Serving, Idle, Running, Begin, Absent, Known, Launching, Spawning, Starting
<1>11. CASE TryDispatch
  BY <1>11 DEF TryDispatch, Running, Dispatchable, SlotTaken, Begin, Busy, Drained, NativeKnown, Absent, Known, Launching, Spawning, Starting
<1>12. CASE Announce
  BY <1>12 DEF Announce, Absent, Known, Launching, Spawning, Starting
<1>13. CASE Spawn
  BY <1>13 DEF Spawn, NativeKnown, Absent, Known, Launching, Spawning, Starting
<1>14. CASE WriteSidecar
  BY <1>14 DEF WriteSidecar, Absent, Known, Launching, Spawning, Starting
<1>15. CASE Record
  BY <1>15 DEF Record, NoLaunch, Absent, Known, Launching, Spawning, Starting
<1>16. CASE LaunchFails
  BY <1>16 DEF LaunchFails, NoLaunch, SlotRestored, StartFails, Absent, Known, Launching, Spawning, Starting
<1>17. ASSUME NEW m \in Msgs, SendQueued(m) PROVE HarnessKnown'
  BY <1>17 DEF SendQueued, Sendable, Serving, Idle, Running, Absent, Known, Launching, Spawning, Starting
<1>18. ASSUME NEW m \in Msgs, SendNow(m) PROVE HarnessKnown'
  BY <1>18 DEF SendNow, ClearPending, Sendable, Serving, Idle, Running, Begin, Busy, Drained, Absent, Known, Launching, Spawning, Starting
<1>19. CASE AttachLoop
  BY <1>19 DEF AttachLoop, Idle, Running, NativeKnown, Absent, Known, Launching, Spawning, Starting
<1>20. CASE StopRefused
  BY <1>20 DEF StopRefused, ClearPending, Serving, Idle, Running, Absent, Known, Launching, Spawning, Starting
<1>21. CASE StopBegin
  BY <1>21 DEF StopBegin, ClearPending, Serving, Idle, Running, StatusAtStop, Absent, Known, Launching, Spawning, Starting
<1>22. CASE StopEnd
  BY <1>22 DEF StopEnd, ClearPending, Serving, Idle, Running, NotStopping, Absent, Known, Launching, Spawning, Starting
<1>23. CASE Release
  BY <1>23 DEF Release, ClearPending, Serving, Idle, Running, Absent, Known, Launching, Spawning, Starting
<1>24. CASE ShutdownBegin
  BY <1>24 DEF ShutdownBegin, Serving, Idle, Running, Absent, Known, Launching, Spawning, Starting
<1>25. CASE KillHarness
  BY <1>25 DEF KillHarness, Idle, Running, Absent, Known, Launching, Spawning, Starting
<1>26. CASE DrainRuntime
  BY <1>26 DEF DrainRuntime, Idle, Running, Absent, Known, Launching, Spawning, Starting
<1>27. CASE Exit
  BY <1>27 DEF Exit, Forget, NoLaunch, Idle, Running, Absent, Known, Launching, Spawning, Starting
<1>28. CASE Crash
  BY <1>28 DEF Crash, Forget, NoLaunch, Running, Absent, Known, Launching, Spawning, Starting
<1>29. CASE BootQuiet
  BY <1>29 DEF BootQuiet, BootCommon, Scanned, Absent, Known, Launching, Spawning, Starting
<1>30. CASE BootGivesUp
  BY <1>30 DEF BootGivesUp, BootCommon, Recovered, Healing, Absent, Known, Launching, Spawning, Starting
<1>31. CASE BootReattach
  BY <1>31 DEF BootReattach, BootCommon, Recovered, Healing, BootPid, Absent, Known, Launching, Spawning, Starting
<1>32. CASE Scan
  BY <1>32 DEF Scan, ClearPending, Begin, Absent, Known, Launching, Spawning, Starting
<1>33. CASE UNCHANGED vars
  BY <1>33 DEF vars, Known, Launching, Spawning, Starting
<1> QED
  BY <1>1, <1>2, <1>3, <1>4, <1>5, <1>6, <1>7, <1>8, <1>9, <1>10, <1>11, <1>12, <1>13, <1>14, <1>15, <1>16,
     <1>17, <1>18, <1>19, <1>20, <1>21, <1>22, <1>23, <1>24, <1>25, <1>26, <1>27, <1>28, <1>29, <1>30, <1>31, <1>32, <1>33 DEF Next

\* No step of another request gets between the halves of a stop.
LEMMA StopHoldsStep == IInv /\ [Next]_vars => StopHolds'
<1> SUFFICES ASSUME IInv, [Next]_vars PROVE StopHolds'
  OBVIOUS
<1> USE DEF IInv, TypeOK, StopHolds, world, row, files, control, reader, history
<1>1. CASE HarnessWrites
  BY <1>1 DEF HarnessWrites, Absent, Active, TerminalStatus, Starting, Ends
<1>2. CASE HarnessExits
  BY <1>2 DEF HarnessExits, Absent, Active, TerminalStatus, Starting, Ends
<1>3. CASE ReadNative
  BY <1>3 DEF ReadNative, Idle, Running, Absent, Active, TerminalStatus, Starting, Ends
<1>4. CASE ReadFrame
  BY <1>4 DEF ReadFrame, Idle, Running, Absent, Active, TerminalStatus, Starting, Ends
<1>5. CASE Finish
  BY <1>5 DEF Finish, Idle, Running, Absent, Active, TerminalStatus, Starting, Ends
<1>6. CASE Take
  BY <1>6 DEF Take, Running, LoopReady, Absent, Active, TerminalStatus, Starting, Ends
<1>7. CASE Commit
  BY <1>7, GrewFrom DEF Commit, Running, Absent, Active, TerminalStatus, Starting, Ends
<1>8. CASE CommitFails
  BY <1>8, GrewFrom DEF CommitFails, Running, Ends, Absent, Active, TerminalStatus, Starting
<1>9. CASE StreamEnd
  BY <1>9 DEF StreamEnd, EndActive, EndRefused, Running, LoopReady, TailCall, Ends, Absent, Active, TerminalStatus, Starting
<1>10. CASE Create
  BY <1>10 DEF Create, Serving, Idle, Running, Begin, Absent, Active, TerminalStatus, Starting, Ends
<1>11. CASE TryDispatch
  BY <1>11 DEF TryDispatch, Running, Dispatchable, SlotTaken, Begin, Busy, Drained, NativeKnown, Absent, Active, TerminalStatus, Starting, Ends
<1>12. CASE Announce
  BY <1>12 DEF Announce, Absent, Active, TerminalStatus, Starting, Ends
<1>13. CASE Spawn
  BY <1>13 DEF Spawn, NativeKnown, Absent, Active, TerminalStatus, Starting, Ends
<1>14. CASE WriteSidecar
  BY <1>14 DEF WriteSidecar, Absent, Active, TerminalStatus, Starting, Ends
<1>15. CASE Record
  BY <1>15 DEF Record, NoLaunch, Absent, Active, TerminalStatus, Starting, Ends
<1>16. CASE LaunchFails
  BY <1>16 DEF LaunchFails, NoLaunch, SlotRestored, StartFails, Absent, Active, TerminalStatus, Starting, Ends
<1>17. ASSUME NEW m \in Msgs, SendQueued(m) PROVE StopHolds'
  BY <1>17 DEF SendQueued, Sendable, Serving, Idle, Running, Absent, Active, TerminalStatus, Starting, Ends
<1>18. ASSUME NEW m \in Msgs, SendNow(m) PROVE StopHolds'
  BY <1>18 DEF SendNow, ClearPending, Sendable, Serving, Idle, Running, Begin, Busy, Drained, Absent, Active, TerminalStatus, Starting, Ends
<1>19. CASE AttachLoop
  BY <1>19 DEF AttachLoop, Idle, Running, NativeKnown, Absent, Active, TerminalStatus, Starting, Ends
<1>20. CASE StopRefused
  BY <1>20 DEF StopRefused, ClearPending, Serving, Idle, Running, Absent, Active, TerminalStatus, Starting, Ends
<1>21. CASE StopBegin
  BY <1>21 DEF StopBegin, ClearPending, Serving, Idle, Running, StatusAtStop, Absent, Active, TerminalStatus, Starting, Ends
<1>22. CASE StopEnd
  BY <1>22 DEF StopEnd, ClearPending, Serving, Idle, Running, NotStopping, Absent, Active, TerminalStatus, Starting, Ends
<1>23. CASE Release
  BY <1>23, GrewFrom DEF Release, ClearPending, Serving, Idle, Running, Absent, Active, TerminalStatus, Starting, Ends
<1>24. CASE ShutdownBegin
  BY <1>24 DEF ShutdownBegin, Serving, Idle, Running, Absent, Active, TerminalStatus, Starting, Ends
<1>25. CASE KillHarness
  BY <1>25 DEF KillHarness, Idle, Running, Absent, Active, TerminalStatus, Starting, Ends
<1>26. CASE DrainRuntime
  BY <1>26 DEF DrainRuntime, Idle, Running, Absent, Active, TerminalStatus, Starting, Ends
<1>27. CASE Exit
  BY <1>27 DEF Exit, Forget, NoLaunch, Idle, Running, Absent, Active, TerminalStatus, Starting, Ends
<1>28. CASE Crash
  BY <1>28 DEF Crash, Forget, NoLaunch, Running, Absent, Active, TerminalStatus, Starting, Ends
<1>29. CASE BootQuiet
  BY <1>29 DEF BootQuiet, BootCommon, Scanned, Absent, Active, TerminalStatus, Starting, Ends
<1>30. CASE BootGivesUp
  BY <1>30 DEF BootGivesUp, BootCommon, Recovered, Healing, Absent, Active, TerminalStatus, Starting, Ends
<1>31. CASE BootReattach
  BY <1>31 DEF BootReattach, BootCommon, Recovered, Healing, BootPid, Absent, Active, TerminalStatus, Starting, Ends
<1>32. CASE Scan
  BY <1>32 DEF Scan, ClearPending, Begin, Absent, Active, TerminalStatus, Starting, Ends
<1>33. CASE UNCHANGED vars
  BY <1>33 DEF vars, Active, TerminalStatus, Starting, Ends
<1> QED
  BY <1>1, <1>2, <1>3, <1>4, <1>5, <1>6, <1>7, <1>8, <1>9, <1>10, <1>11, <1>12, <1>13, <1>14, <1>15, <1>16,
     <1>17, <1>18, <1>19, <1>20, <1>21, <1>22, <1>23, <1>24, <1>25, <1>26, <1>27, <1>28, <1>29, <1>30, <1>31, <1>32, <1>33 DEF Next

\* A turn is started only when the loop of the last one is over.
LEMMA LoopTurnsStep == IInv /\ [Next]_vars => LoopTurns'
<1> SUFFICES ASSUME IInv, [Next]_vars PROVE LoopTurns'
  OBVIOUS
<1> USE DEF IInv, TypeOK, LoopTurns, world, row, files, control, reader, history
<1>1. CASE HarnessWrites
  BY <1>1 DEF HarnessWrites, Absent, Launching, Spawning, Starting, LoopReady
<1>2. CASE HarnessExits
  BY <1>2 DEF HarnessExits, Absent, Launching, Spawning, Starting, LoopReady
<1>3. CASE ReadNative
  BY <1>3 DEF ReadNative, Idle, Running, Absent, Launching, Spawning, Starting, LoopReady
<1>4. CASE ReadFrame
  BY <1>4 DEF ReadFrame, Idle, Running, Absent, Launching, Spawning, Starting, LoopReady
<1>5. CASE Finish
  BY <1>5 DEF Finish, Idle, Running, Absent, Launching, Spawning, Starting, LoopReady
<1>6. CASE Take
  BY <1>6 DEF Take, Running, LoopReady, Absent, Launching, Spawning, Starting
<1>7. CASE Commit
  BY <1>7 DEF Commit, Running, Absent, Launching, Spawning, Starting, LoopReady
<1>8. CASE CommitFails
  BY <1>8 DEF CommitFails, Running, Ends, Absent, Launching, Spawning, Starting, LoopReady
<1>9. CASE StreamEnd
  BY <1>9 DEF StreamEnd, EndActive, EndRefused, Running, LoopReady, TailCall, Ends, Absent, Launching, Spawning, Starting
<1>10. CASE Create
  BY <1>10 DEF Create, Serving, Idle, Running, Begin, Absent, Launching, Spawning, Starting, LoopReady
<1>11. CASE TryDispatch
  BY <1>11 DEF TryDispatch, Running, Dispatchable, SlotTaken, Begin, Busy, Drained, NativeKnown, Absent, Launching, Spawning, Starting, LoopReady
<1>12. CASE Announce
  BY <1>12 DEF Announce, Absent, Launching, Spawning, Starting, LoopReady
<1>13. CASE Spawn
  BY <1>13 DEF Spawn, StopHolds, NativeKnown, Absent, Launching, Spawning, Starting, LoopReady
<1>14. CASE WriteSidecar
  BY <1>14 DEF WriteSidecar, Absent, Launching, Spawning, Starting, LoopReady
<1>15. CASE Record
  BY <1>15 DEF Record, NoLaunch, Absent, Launching, Spawning, Starting, LoopReady
<1>16. CASE LaunchFails
  BY <1>16 DEF LaunchFails, NoLaunch, SlotRestored, StartFails, Absent, Launching, Spawning, Starting, LoopReady
<1>17. ASSUME NEW m \in Msgs, SendQueued(m) PROVE LoopTurns'
  BY <1>17 DEF SendQueued, Sendable, Serving, Idle, Running, Absent, Launching, Spawning, Starting, LoopReady
<1>18. ASSUME NEW m \in Msgs, SendNow(m) PROVE LoopTurns'
  BY <1>18 DEF SendNow, ClearPending, Sendable, Serving, Idle, Running, Begin, Busy, Drained, Absent, Launching, Spawning, Starting, LoopReady
<1>19. CASE AttachLoop
  BY <1>19 DEF AttachLoop, Idle, Running, NativeKnown, Absent, Launching, Spawning, Starting, LoopReady
<1>20. CASE StopRefused
  BY <1>20 DEF StopRefused, ClearPending, Serving, Idle, Running, Absent, Launching, Spawning, Starting, LoopReady
<1>21. CASE StopBegin
  BY <1>21 DEF StopBegin, ClearPending, Serving, Idle, Running, StatusAtStop, Absent, Launching, Spawning, Starting, LoopReady
<1>22. CASE StopEnd
  BY <1>22 DEF StopEnd, ClearPending, Serving, Idle, Running, NotStopping, Absent, Launching, Spawning, Starting, LoopReady
<1>23. CASE Release
  BY <1>23 DEF Release, ClearPending, Serving, Idle, Running, Absent, Launching, Spawning, Starting, LoopReady
<1>24. CASE ShutdownBegin
  <2>1. /\ step = "idle" /\ step' = step /\ loop' = loop /\ inbox' = inbox /\ rt' = rt
        /\ handle' = handle /\ hand' = hand /\ native' = native /\ sawFrame' = sawFrame
    BY <1>24 DEF ShutdownBegin, Serving, Idle
  <2>2. muted' \/ handle = 0 \/ (lock' = lock /\ (muted' <=> muted))
    BY <1>24, Zenon DEF ShutdownBegin
  <2> QED
    BY <2>1, <2>2 DEF Absent, Launching, Spawning, Starting, LoopReady
<1>25. CASE KillHarness
  BY <1>25 DEF KillHarness, Idle, Running, Absent, Launching, Spawning, Starting, LoopReady
<1>26. CASE DrainRuntime
  BY <1>26 DEF DrainRuntime, Idle, Running, Absent, Launching, Spawning, Starting, LoopReady
<1>27. CASE Exit
  BY <1>27 DEF Exit, Forget, NoLaunch, Idle, Running, Absent, Launching, Spawning, Starting, LoopReady
<1>28. CASE Crash
  BY <1>28 DEF Crash, Forget, NoLaunch, Running, Absent, Launching, Spawning, Starting, LoopReady
<1>29. CASE BootQuiet
  BY <1>29 DEF BootQuiet, BootCommon, Scanned, Absent, Launching, Spawning, Starting, LoopReady
<1>30. CASE BootGivesUp
  BY <1>30 DEF BootGivesUp, BootCommon, Recovered, Healing, Absent, Launching, Spawning, Starting, LoopReady
<1>31. CASE BootReattach
  BY <1>31 DEF BootReattach, BootCommon, Recovered, Healing, BootPid, Absent, Launching, Spawning, Starting, LoopReady
<1>32. CASE Scan
  BY <1>32 DEF Scan, ClearPending, Begin, Absent, Launching, Spawning, Starting, LoopReady
<1>33. CASE UNCHANGED vars
  BY <1>33 DEF vars, Launching, Spawning, Starting, LoopReady
<1> QED
  BY <1>1, <1>2, <1>3, <1>4, <1>5, <1>6, <1>7, <1>8, <1>9, <1>10, <1>11, <1>12, <1>13, <1>14, <1>15, <1>16,
     <1>17, <1>18, <1>19, <1>20, <1>21, <1>22, <1>23, <1>24, <1>25, <1>26, <1>27, <1>28, <1>29, <1>30, <1>31, <1>32, <1>33 DEF Next

\* Only Spawn counts a turn.
LEMMA TurnSpawns == ASSUME Next, turn' # turn PROVE Spawn
<1> USE DEF world, control
<1>1. CASE HarnessWrites \/ HarnessExits \/ ReadNative \/ ReadFrame \/ Finish
  BY <1>1 DEF HarnessWrites, HarnessExits, ReadNative, ReadFrame, Finish, Idle, Running
<1>2. CASE Take \/ Commit \/ CommitFails \/ StreamEnd
  BY <1>2 DEF Take, Commit, CommitFails, StreamEnd, Running
<1>3. CASE Create \/ TryDispatch \/ Announce \/ WriteSidecar \/ Record \/ LaunchFails
  BY <1>3 DEF Create, TryDispatch, Announce, WriteSidecar, Record, LaunchFails, Serving, Idle, Running, StartFails
<1>4. CASE \E m \in Msgs : SendQueued(m) \/ SendNow(m)
  BY <1>4 DEF SendQueued, SendNow, Sendable, Serving, Idle, ClearPending
<1>5. CASE AttachLoop \/ StopRefused \/ StopBegin \/ StopEnd \/ Release
  BY <1>5 DEF AttachLoop, StopRefused, StopBegin, StopEnd, Release, Serving, Idle, ClearPending
<1>6. CASE ShutdownBegin \/ KillHarness \/ DrainRuntime \/ Exit \/ Crash
  BY <1>6 DEF ShutdownBegin, KillHarness, DrainRuntime, Exit, Crash, Forget, Serving, Idle
<1>7. CASE BootQuiet \/ BootGivesUp \/ BootReattach
  BY <1>7 DEF BootQuiet, BootGivesUp, BootReattach, BootCommon
<1>8. CASE Scan
  BY <1>8 DEF Scan, ClearPending
<1> QED
  BY <1>1, <1>2, <1>3, <1>4, <1>5, <1>6, <1>7, <1>8 DEF Next

\* The five parts hold together in every reachable state.
THEOREM Inductive == Spec => []IInv
<1>1. Init => IInv
  <2>1. Init => TypeOK
    BY TypeInitially
  <2>2. Init => Absent /\ HarnessKnown
    BY DEF Init, Absent, HarnessKnown, Known, Launching, Spawning
  <2>3. Init => StopHolds /\ LoopTurns
    BY DEF Init, StopHolds, LoopTurns, Launching, Spawning, Starting
  <2> QED
    BY <2>1, <2>2, <2>3 DEF IInv
<1>2. IInv /\ [Next]_vars => IInv'
  BY TypeStep, AbsentStep, HarnessKnownStep, StopHoldsStep, LoopTurnsStep DEF IInv
<1> QED
  BY <1>1, <1>2, PTL DEF Spec

\* Whatever is sent, stopped, crashed or shut down, and at whatever step a
\* start is cut: the harnesses that the daemon can know of are never two.
THEOREM NoSecondHarness == Spec => []OneHarness
<1>1. IInv => OneHarness
  <2> SUFFICES ASSUME IInv PROVE Cardinality(procs \ untracked) <= 1
    BY DEF OneHarness
  <2>1. PICK t : procs \ untracked \subseteq {t}
    BY DEF IInv, HarnessKnown, Known
  <2>2. IsFiniteSet({t}) /\ Cardinality({t}) = 1
    BY FS_Singleton
  <2>3. Cardinality(procs \ untracked) <= Cardinality({t})
    BY <2>1, <2>2, FS_Subset
  <2> QED
    BY <2>2, <2>3
<1> QED
  BY <1>1, Inductive, PTL

\* The shutdown need not wait for a stop in progress, since the session it
\* holds is over by its status already.
THEOREM StopLeavesTerminal == Spec => []LockOwnerEnded
<1>1. IInv => LockOwnerEnded
  BY DEF IInv, StopHolds, LockOwnerEnded
<1> QED
  BY <1>1, Inductive, PTL

\* No send puts a message in the slot while a stop is in progress: what is there
\* is what the store would not let the stop cancel.
THEOREM StopEmptiesQueue == Spec => []StopCancels
<1>1. IInv => StopCancels
  BY DEF IInv, StopHolds, StopCancels
<1> QED
  BY <1>1, Inductive, PTL

\* When a turn is spawned and its runtime replaces the last one, the loop of
\* the last turn is over, and the poll of session.create too, but for a runtime
\* that a stop ended before any event.
THEOREM OneLoop == Spec => LoopsDontOverlap
<1>1. IInv /\ [Next]_vars => [turn' # turn /\ loop \in {"pending", "on"}
                                => loop = "pending" /\ muted /\ rt = "done"]_vars
  <2> SUFFICES ASSUME IInv, Next, turn' # turn, loop \in {"pending", "on"}
               PROVE  loop = "pending" /\ muted /\ rt = "done"
    OBVIOUS
  <2>1. Spawn
    BY TurnSpawns
  <2> QED
    BY <2>1 DEF Spawn, IInv, LoopTurns, Launching
<1> QED
  BY <1>1, Inductive, PTL DEF LoopsDontOverlap, Spec

\* ActiveIsWatched holds up to the moment when the code that follows the end of
\* a loop, or a send, has looked at the queue.
Watched ==
  daemon = "up" /\ step \in {"idle", "dispatch"} /\ status \in Active
    => loop \in {"pending", "on"}

LEMMA WatchedStep ==
  ASSUME ~Faults, IInv, Watched, [Next]_vars
  PROVE  Watched'
<1> USE DEF Watched, Active, TerminalStatus, Ends, Starting, world, row, files, control,
            reader, history
<1>1. CASE HarnessWrites \/ HarnessExits \/ ReadNative \/ ReadFrame \/ Finish \/ Take
  BY <1>1 DEF HarnessWrites, HarnessExits, ReadNative, ReadFrame, Finish, Take
<1>2. CASE Commit
  BY <1>2 DEF Commit
<1>3. CASE CommitFails
  BY <1>3 DEF CommitFails
<1>4. CASE StreamEnd
  BY <1>4 DEF StreamEnd, EndActive, EndRefused, Running
<1>5. CASE Create \/ TryDispatch \/ Announce
  BY <1>5 DEF Create, TryDispatch, Announce, Begin
<1>6. CASE Spawn \/ WriteSidecar \/ Record
  BY <1>6 DEF Spawn, WriteSidecar, Record
<1>7. CASE LaunchFails
  BY <1>7 DEF LaunchFails, StartFails
<1>8. CASE \E m \in Msgs : SendQueued(m) \/ SendNow(m)
  BY <1>8 DEF SendQueued, SendNow, Sendable, Serving, Idle, Begin, ClearPending
<1>9. CASE AttachLoop
  BY <1>9 DEF AttachLoop
<1>10. CASE StopRefused \/ StopBegin
  BY <1>10 DEF StopRefused, ClearPending, StopBegin, StatusAtStop
<1>11. CASE StopEnd
  BY <1>11 DEF StopEnd, ClearPending
<1>12. CASE Release
  BY <1>12 DEF Release, ClearPending
<1>13. CASE ShutdownBegin \/ KillHarness \/ DrainRuntime
  BY <1>13 DEF ShutdownBegin, KillHarness, DrainRuntime
<1>14. CASE Exit \/ Crash
  BY <1>14 DEF Exit, Crash
<1>15. CASE BootQuiet
  BY <1>15 DEF BootQuiet, BootCommon, Recovered
<1>16. CASE BootGivesUp
  BY <1>16 DEF BootGivesUp, BootCommon
<1>17. CASE BootReattach
  BY <1>17 DEF BootReattach, BootCommon
<1>18. CASE Scan
  BY <1>18 DEF Scan, ClearPending, Begin, IInv, Absent
<1>19. CASE UNCHANGED vars
  BY <1>19 DEF vars
<1> QED
  BY <1>1, <1>2, <1>3, <1>4, <1>5, <1>6, <1>7, <1>8, <1>9, <1>10, <1>11, <1>12,
     <1>13, <1>14, <1>15, <1>16, <1>17, <1>18, <1>19 DEF Next

\* While the store accepts writes, no session of a running daemon is left active
\* with nothing to see its end, however its starts, stops and recoveries went.
THEOREM NobodyForgotten ==
  ASSUME ~Faults
  PROVE  Spec => []ActiveIsWatched
<1>1. Init => Watched
  BY DEF Init, Watched, Active
<1>2. IInv /\ Watched /\ [Next]_vars => Watched'
  BY WatchedStep
<1>3. Watched => ActiveIsWatched
  BY DEF Watched, ActiveIsWatched
<1> QED
  BY <1>1, <1>2, <1>3, Inductive, PTL DEF Spec

-----------------------------------------------------------------------------
(* Where a message can be. *)

\* The slot and the turn being launched hold accepted messages that no harness
\* has been given, and not two at a time.
Messages ==
  /\ step \notin Starting => launch = NoLaunch
  /\ slot # NoMsg => slot \in sent /\ ran[slot] = 0
  /\ Launching /\ launch.msg # NoMsg => /\ launch.msg \in sent /\ ran[launch.msg] = 0
                                        /\ launch.via \in {"send", "dispatch", "resume"}
                                        /\ slot = NoMsg
  /\ \A m \in Msgs : ran[m] <= 1 /\ (ran[m] > 0 => m \in sent)

\* It takes a message out before it starts a turn with it, and puts it back only
\* when no process was spawned.
LEMMA MessagesStep ==
  ASSUME ~Faults, IInv, Messages, [Next]_vars
  PROVE  Messages'
<1> USE DEF IInv, TypeOK, Messages, Launching, Starting, world, row, files, control, reader, history
<1>1. CASE HarnessWrites \/ HarnessExits
  BY <1>1, MsgsAssumption DEF HarnessWrites, HarnessExits
<1>2. CASE ReadNative \/ ReadFrame \/ Finish
  BY <1>2, MsgsAssumption DEF ReadNative, ReadFrame, Finish, Idle, Running
<1>3. CASE Take \/ Commit \/ StreamEnd
  BY <1>3, MsgsAssumption DEF Take, Commit, StreamEnd, TailCall, Running
<1>4. CASE CommitFails
  BY <1>4, MsgsAssumption DEF CommitFails
<1>5. CASE Create
  BY <1>5, MsgsAssumption DEF Create, Serving, Idle, Begin
<1>6. CASE TryDispatch
  BY <1>6, MsgsAssumption DEF TryDispatch, Dispatchable, SlotTaken, Begin, NoLaunch
<1>7. CASE Announce \/ WriteSidecar
  BY <1>7, MsgsAssumption DEF Announce, WriteSidecar
<1>8. CASE Spawn
  <2>1. ran' = [m \in Msgs |-> IF m = launch.msg THEN ran[m] + 1 ELSE ran[m]]
    BY <1>8 DEF Spawn
  <2>2. \A m \in Msgs : m # launch.msg => ran'[m] = ran[m]
    BY <2>1
  <2>3. \A m \in Msgs : m = launch.msg => ran'[m] = 1 /\ m \in sent
    BY <1>8, <2>1, MsgsAssumption DEF Spawn
  <2> QED
    BY <1>8, <2>2, <2>3, MsgsAssumption DEF Spawn
<1>9. CASE Record
  BY <1>9, MsgsAssumption DEF Record, NoLaunch
<1>10. CASE LaunchFails
  BY <1>10, MsgsAssumption DEF LaunchFails, StartFails, SlotRestored, NoLaunch
<1>11. CASE \E m \in Msgs : SendQueued(m)
  BY <1>11, MsgsAssumption DEF SendQueued, Sendable, Serving, Idle
<1>12. CASE \E m \in Msgs : SendNow(m)
  BY <1>12, MsgsAssumption DEF SendNow, ClearPending, Sendable, Serving, Idle, Begin
<1>13. CASE AttachLoop
  BY <1>13, MsgsAssumption DEF AttachLoop
<1>14. CASE StopRefused \/ StopBegin \/ StopEnd \/ Release
  BY <1>14, MsgsAssumption DEF StopRefused, ClearPending, StopBegin, StopEnd, Release
<1>15. CASE ShutdownBegin \/ KillHarness \/ DrainRuntime
  BY <1>15, MsgsAssumption DEF ShutdownBegin, KillHarness, DrainRuntime
<1>16. CASE Exit \/ Crash
  BY <1>16, MsgsAssumption DEF Exit, Crash, Forget, NoLaunch
<1>17. CASE BootQuiet
  BY <1>17, MsgsAssumption DEF BootQuiet, BootCommon, Absent
<1>18. CASE BootGivesUp \/ BootReattach
  BY <1>18, MsgsAssumption DEF BootGivesUp, BootReattach, BootCommon
<1>19. CASE Scan
  BY <1>19, MsgsAssumption DEF Scan, ClearPending, Begin, NoLaunch
<1>20. CASE UNCHANGED vars
  BY <1>20, MsgsAssumption DEF vars
<1> QED
  BY <1>1, <1>2, <1>3, <1>4, <1>5, <1>6, <1>7, <1>8, <1>9, <1>10, <1>11, <1>12, <1>13, <1>14, <1>15, <1>16, <1>17, <1>18, <1>19, <1>20 DEF Next

LEMMA MessagesAlways ==
  ASSUME ~Faults
  PROVE  Spec => [](IInv /\ Messages)
<1>1. Init => Messages
  BY MsgsAssumption DEF Init, Messages, NoLaunch, Launching, Starting
<1>2. IInv /\ Messages /\ [Next]_vars => Messages'
  BY MessagesStep
<1> QED
  BY <1>1, <1>2, Inductive, PTL DEF Spec

\* A message never reaches a second harness while the store accepts writes.
THEOREM NothingStartsTwice ==
  ASSUME ~Faults
  PROVE  Spec => []StartedOnce
<1>1. Messages => StartedOnce
  BY DEF Messages, StartedOnce
<1> QED
  BY <1>1, MessagesAlways, PTL
-----------------------------------------------------------------------------
(* What each step does to the fates of the messages. *)

\* A step that changes neither the slot nor the launch of a message.
LEMMA FatesKept ==
  ASSUME slot' = slot, sent' = sent, ran' = ran,
         \A m \in Msgs : Flying(m)' <=> Flying(m)
  PROVE  \A m \in Msgs : Fate(m)' = Fate(m)
BY DEF Fate

\* Most steps, the start of a turn without a message among them.
LEMMA QuietSteps ==
  ASSUME ~Faults, IInv, Messages,
         \/ HarnessWrites \/ HarnessExits \/ ReadNative \/ ReadFrame \/ Finish
         \/ Take \/ Commit \/ CommitFails \/ StreamEnd
         \/ Create \/ Announce \/ WriteSidecar \/ Record \/ AttachLoop
         \/ ShutdownBegin \/ KillHarness \/ DrainRuntime \/ Exit
         \/ BootQuiet \/ BootGivesUp \/ BootReattach \/ UNCHANGED vars
  PROVE  \A m \in Msgs : Fate(m)' = Fate(m)
<1> USE DEF world, row, files, control, reader, history, Flying
<1>1. CASE \/ HarnessWrites \/ HarnessExits \/ ReadNative \/ ReadFrame \/ Finish
           \/ Take \/ Commit \/ CommitFails
  BY <1>1, FatesKept DEF HarnessWrites, HarnessExits, ReadNative, ReadFrame, Finish, Take,
                         Commit, CommitFails
<1>2. CASE StreamEnd
  BY <1>2, FatesKept DEF StreamEnd, EndActive, EndRefused, TailCall
<1>3. CASE Create
  <2>1. step = "idle" /\ slot' = slot /\ sent' = sent /\ ran' = ran /\ launch'.msg = NoMsg
    BY <1>3 DEF Create, Serving, Idle, Begin
  <2> QED
    BY <2>1, FatesKept, MsgsAssumption
<1>4. CASE Announce \/ WriteSidecar \/ Record
  BY <1>4, FatesKept, MsgsAssumption DEF Announce, WriteSidecar, Record, NoLaunch
<1>5. CASE AttachLoop \/ ShutdownBegin \/ KillHarness \/ DrainRuntime
  BY <1>5, FatesKept DEF AttachLoop, ShutdownBegin, KillHarness, DrainRuntime
<1>6. CASE Exit
  BY <1>6, FatesKept DEF Exit, Forget, Idle
<1>7. CASE BootQuiet
  BY <1>7, FatesKept DEF BootQuiet, BootCommon, IInv, Absent
<1>8. CASE BootGivesUp \/ BootReattach
  BY <1>8, FatesKept DEF BootGivesUp, BootReattach, BootCommon
<1>9. CASE UNCHANGED vars
  BY <1>9, FatesKept DEF vars
<1> QED
  BY <1>1, <1>2, <1>3, <1>4, <1>5, <1>6, <1>7, <1>8, <1>9

\* Stop and release drop what was queued.
LEMMA EmptyingSteps ==
  ASSUME ~Faults, IInv, Messages, StopRefused \/ StopBegin \/ StopEnd \/ Release
  PROVE  \A m \in Msgs : Fate(m)' = IF slot = m THEN "dropped" ELSE Fate(m)
<1>1. /\ step = "idle" /\ step' = step /\ launch' = launch /\ slot' = NoMsg
      /\ sent' = sent /\ ran' = ran
  BY DEF StopRefused, ClearPending, StopBegin, StopEnd, Release, Serving, Idle, control, history
<1> QED
  BY <1>1, MsgsAssumption DEF Fate, Flying, Messages, IInv, TypeOK

\* A message that finds the session busy takes the slot of the last one.
LEMMA QueueingStep ==
  ASSUME IInv, Messages, NEW m \in Msgs, SendQueued(m)
  PROVE  /\ Fate(m) = "new"
         /\ \A n \in Msgs : Fate(n)' = IF n = m THEN "queued"
                                       ELSE IF Fate(n) = "queued" THEN "dropped" ELSE Fate(n)
<1>1. /\ step = "idle" /\ step' = "dispatch" /\ slot' = m /\ m \notin sent
      /\ sent' = sent \cup {m} /\ ran' = ran
  BY DEF SendQueued, Sendable, Serving, Idle
<1>2. ran[m] = 0
  BY <1>1 DEF Messages, IInv, TypeOK
<1> QED
  BY <1>1, <1>2, MsgsAssumption DEF Fate, Flying, Messages, IInv, TypeOK

\* One that finds it free is launched, and so is one that was queued.
LEMMA LaunchingStep ==
  ASSUME ~Faults, IInv, Messages, NEW m \in Msgs, SendNow(m)
  PROVE  /\ Fate(m) = "new"
         /\ \A n \in Msgs : Fate(n)' = IF n = m THEN "flying"
                                       ELSE IF Fate(n) = "queued" THEN "dropped" ELSE Fate(n)
<1>1. /\ step = "idle" /\ step' = "cleared" /\ slot' = NoMsg /\ m \notin sent
      /\ sent' = sent \cup {m} /\ ran' = ran /\ launch'.msg = m
  BY DEF SendNow, ClearPending, Sendable, Serving, Idle, Begin, history
<1>2. ran[m] = 0
  BY <1>1 DEF Messages, IInv, TypeOK
<1> QED
  BY <1>1, <1>2, MsgsAssumption DEF Fate, Flying, Messages, IInv, TypeOK

LEMMA DispatchingStep ==
  ASSUME ~Faults, IInv, Messages, TryDispatch \/ Scan
  PROVE  \/ \A n \in Msgs : Fate(n)' = Fate(n)
         \/ /\ slot \in Msgs /\ Fate(slot) = "queued"
            /\ \A n \in Msgs : Fate(n)' = IF n = slot THEN "flying" ELSE Fate(n)
<1>1. step \notin Starting /\ sent' = sent /\ ran' = ran
  BY DEF TryDispatch, Scan, Starting, history, ClearPending
<1>2. CASE slot' = slot /\ launch' = launch /\ step' = "idle"
  BY <1>1, <1>2, FatesKept DEF Flying, Starting
<1>3. CASE slot' = NoMsg /\ launch'.msg = slot /\ step' = "cleared"
  BY <1>1, <1>3, MsgsAssumption DEF Fate, Flying, Starting, Messages, IInv, TypeOK
<1> QED
  BY <1>2, <1>3 DEF TryDispatch, Scan, ClearPending, SlotTaken, Begin

\* The process has the message.
LEMMA SpawningStep ==
  ASSUME IInv, Messages, Spawn
  PROVE  \/ \A n \in Msgs : Fate(n)' = Fate(n)
         \/ \E m \in Msgs : /\ Fate(m) = "flying"
                            /\ \A n \in Msgs : Fate(n)' = IF n = m THEN "started" ELSE Fate(n)
<1>1. /\ step = "announced" /\ step' = "spawned" /\ slot' = slot /\ sent' = sent
      /\ launch' = launch
      /\ ran' = [m \in Msgs |-> IF m = launch.msg THEN ran[m] + 1 ELSE ran[m]]
  BY DEF Spawn, row
<1>2. \A n \in Msgs : n # launch.msg => ran'[n] = ran[n]
  BY <1>1
<1>3. CASE launch.msg = NoMsg
  BY <1>1, <1>2, <1>3, MsgsAssumption DEF Fate, Flying
<1>4. CASE launch.msg \in Msgs
  <2>1. ran[launch.msg] = 0 /\ ran'[launch.msg] = 1 /\ slot = NoMsg
    BY <1>1, <1>4, MsgsAssumption DEF Messages, Launching
  <2>2. Fate(launch.msg) = "flying"
    BY <1>1, <1>4, <2>1, MsgsAssumption DEF Fate, Flying
  <2>3. \A n \in Msgs : Fate(n)' = IF n = launch.msg THEN "started" ELSE Fate(n)
    BY <1>1, <1>2, <1>4, <2>1, MsgsAssumption DEF Fate, Flying
  <2> QED
    BY <1>4, <2>2, <2>3
<1> QED
  BY <1>3, <1>4 DEF IInv, TypeOK

\* The start fails: the message goes back to the slot, or is its sender's.
LEMMA FailingStep ==
  ASSUME ~Faults, IInv, Messages, LaunchFails
  PROVE  \/ \A n \in Msgs : Fate(n)' = Fate(n)
         \/ \E m \in Msgs, f \in {"queued", "dropped"} :
              /\ Fate(m) = "flying"
              /\ \A n \in Msgs : Fate(n)' = IF n = m THEN f ELSE Fate(n)
              /\ f = "dropped" => launch.via = "send"
<1>1. /\ step = "announced" /\ step' = "idle" /\ sent' = sent /\ ran' = ran
      /\ slot' = SlotRestored
  BY DEF LaunchFails, StartFails
<1>2. CASE launch.msg = NoMsg
  BY <1>1, <1>2, FatesKept, MsgsAssumption DEF Flying, SlotRestored
<1>3. CASE launch.msg \in Msgs
  <2>1. /\ ran[launch.msg] = 0 /\ slot = NoMsg /\ launch.msg \in sent
        /\ launch.via \in {"send", "dispatch", "resume"}
    BY <1>1, <1>3, MsgsAssumption DEF Messages, Launching, IInv, TypeOK
  <2>2. Fate(launch.msg) = "flying"
    BY <1>1, <1>3, <2>1, MsgsAssumption DEF Fate, Flying
  <2>3. CASE launch.via \in {"dispatch", "resume"}
    <3>1. slot' = launch.msg
      BY <1>1, <1>3, <2>3, MsgsAssumption DEF SlotRestored
    <3>2. \A n \in Msgs : Fate(n)' = IF n = launch.msg THEN "queued" ELSE Fate(n)
      BY <1>1, <1>3, <2>1, <3>1, MsgsAssumption DEF Fate, Flying
    <3> QED
      BY <1>3, <2>2, <3>2
  <2>4. CASE launch.via = "send"
    <3>1. slot' = NoMsg
      BY <1>1, <2>1, <2>4 DEF SlotRestored
    <3>2. \A n \in Msgs : Fate(n)' = IF n = launch.msg THEN "dropped" ELSE Fate(n)
      BY <1>1, <1>3, <2>1, <3>1, MsgsAssumption DEF Fate, Flying
    <3> QED
      BY <1>3, <2>2, <2>4, <3>2
  <2> QED
    BY <2>1, <2>3, <2>4
<1> QED
  BY <1>2, <1>3 DEF IInv, TypeOK

\* A message on its way is lost with the daemon.
LEMMA CrashingStep ==
  ASSUME IInv, Messages, Crash
  PROVE  \/ \A n \in Msgs : Fate(n)' = Fate(n)
         \/ \E m \in Msgs : /\ Fate(m) = "flying"
                            /\ \A n \in Msgs : Fate(n)' = IF n = m THEN "dropped" ELSE Fate(n)
<1>1. step' = "idle" /\ sent' = sent /\ ran' = ran /\ slot' = slot
  BY DEF Crash, Forget, row
<1>2. CASE launch.msg = NoMsg \/ ~Launching
  BY <1>1, <1>2, FatesKept, MsgsAssumption DEF Flying, Launching
<1>3. CASE launch.msg \in Msgs /\ Launching
  <2>1. ran[launch.msg] = 0 /\ slot = NoMsg /\ launch.msg \in sent
    BY <1>3, MsgsAssumption DEF Messages
  <2>2. Fate(launch.msg) = "flying"
    BY <1>3, <2>1, MsgsAssumption DEF Fate, Flying, Launching
  <2>3. \A n \in Msgs : Fate(n)' = IF n = launch.msg THEN "dropped" ELSE Fate(n)
    BY <1>1, <1>3, <2>1, MsgsAssumption DEF Fate, Flying, Launching
  <2> QED
    BY <1>3, <2>2, <2>3
<1> QED
  BY <1>2, <1>3 DEF IInv, TypeOK
-----------------------------------------------------------------------------
(* The refinement. *)

\* Only one message can be on its way.
LEMMA NoneFlying ==
  ASSUME ~Launching, NEW m \in Msgs
  PROVE  Fate(m) # "flying"
BY DEF Fate, Flying, Launching

\* Every step maps to one of SendQueue's or changes no fate.
LEMMA StepImplements ==
  ASSUME ~Faults, IInv, Messages, [Next]_vars
  PROVE  [SQ!Next]_([m \in Msgs |-> Fate(m)])
<1> DEFINE fate == [m \in Msgs |-> Fate(m)]
<1>a. /\ fate' = [m \in Msgs |-> Fate(m)']
      /\ \A m \in Msgs : fate[m] = Fate(m)
  OBVIOUS
<1>b. ASSUME \A m \in Msgs : Fate(m)' = Fate(m) PROVE fate' = fate
  BY <1>a, <1>b
<1> HIDE DEF fate
<1> SUFFICES SQ!Next \/ fate' = fate
  BY DEF fate
<1>1. CASE \/ HarnessWrites \/ HarnessExits \/ ReadNative \/ ReadFrame \/ Finish
           \/ Take \/ Commit \/ CommitFails \/ StreamEnd
           \/ Create \/ Announce \/ WriteSidecar \/ Record \/ AttachLoop
           \/ ShutdownBegin \/ KillHarness \/ DrainRuntime \/ Exit
           \/ BootQuiet \/ BootGivesUp \/ BootReattach \/ UNCHANGED vars
  BY <1>1, <1>b, QuietSteps
<1>2. CASE StopRefused \/ StopBegin \/ StopEnd \/ Release
  <2>1. \A m \in Msgs : Fate(m)' = IF slot = m THEN "dropped" ELSE Fate(m)
    BY <1>2, EmptyingSteps
  <2>2. CASE slot = NoMsg
    BY <1>b, <2>1, <2>2, MsgsAssumption
  <2>3. CASE slot \in Msgs
    <3>1. fate[slot] = "queued"
      BY <1>a, <2>3, MsgsAssumption DEF Fate, Messages
    <3>2. fate' = [fate EXCEPT ![slot] = "dropped"]
      BY <1>a, <2>1, <2>3 DEF fate
    <3>3. SQ!Cancel(slot)
      BY <3>1, <3>2 DEF SQ!Cancel, fate
    <3> QED
      BY <2>3, <3>3 DEF SQ!Next
  <2> QED
    BY <2>2, <2>3 DEF IInv, TypeOK
<1>3. ASSUME NEW m \in Msgs, SendQueued(m) PROVE SQ!Next
  <2>1. fate[m] = "new"
    BY <1>3, <1>a, QueueingStep
  <2>2. fate' = [n \in Msgs |-> IF n = m THEN "queued"
                                ELSE IF fate[n] = "queued" THEN "dropped" ELSE fate[n]]
    BY <1>3, <1>a, QueueingStep
  <2>3. SQ!Queue(m)
    BY <2>1, <2>2 DEF SQ!Queue, fate
  <2> QED
    BY <2>3 DEF SQ!Next
<1>4. ASSUME NEW m \in Msgs, SendNow(m) PROVE SQ!Next
  <2>1. fate[m] = "new"
    BY <1>4, <1>a, LaunchingStep
  <2>2. fate' = [n \in Msgs |-> IF n = m THEN "flying"
                                ELSE IF fate[n] = "queued" THEN "dropped" ELSE fate[n]]
    BY <1>4, <1>a, LaunchingStep
  <2>3. SQ!With("flying") = {}
    BY <1>4, <1>a, NoneFlying DEF SQ!With, fate, SendNow, Sendable, Serving, Idle, Launching, ClearPending
  <2>4. SQ!SendNow(m)
    BY <2>1, <2>2, <2>3 DEF SQ!SendNow, fate, ClearPending
  <2> QED
    BY <2>4 DEF SQ!Next
<1>5. CASE TryDispatch \/ Scan
  <2>1. CASE /\ slot \in Msgs /\ Fate(slot) = "queued"
             /\ \A n \in Msgs : Fate(n)' = IF n = slot THEN "flying" ELSE Fate(n)
    <3>1. fate[slot] = "queued" /\ fate' = [fate EXCEPT ![slot] = "flying"]
      BY <1>a, <2>1 DEF fate
    <3>2. SQ!With("flying") = {}
      BY <1>5, <1>a, NoneFlying DEF SQ!With, fate, TryDispatch, Scan, Launching, ClearPending
    <3>3. SQ!Dispatch(slot)
      BY <3>1, <3>2 DEF SQ!Dispatch, fate
    <3> QED
      BY <2>1, <3>3 DEF SQ!Next
  <2> QED
    BY <1>5, <1>b, <2>1, DispatchingStep
<1>6. ASSUME NEW m \in Msgs, NEW f \in {"started", "queued", "dropped"}, Fate(m) = "flying",
             \A n \in Msgs : Fate(n)' = IF n = m THEN f ELSE Fate(n)
      PROVE  SQ!Next
  <2>1. fate[m] = "flying" /\ fate' = [fate EXCEPT ![m] = f]
    BY <1>6, <1>a DEF fate
  <2>2. SQ!Resolve(m)
    BY <2>1 DEF SQ!Resolve, fate
  <2> QED
    BY <2>2 DEF SQ!Next
<1>7. CASE Spawn
  BY <1>7, <1>b, <1>6, SpawningStep
<1>8. CASE LaunchFails
  BY <1>8, <1>b, <1>6, FailingStep
<1>9. CASE Crash
  BY <1>9, <1>b, <1>6, CrashingStep
<1> QED
  BY <1>1, <1>2, <1>3, <1>4, <1>5, <1>7, <1>8, <1>9 DEF Next

\* What `codedeck send` promises, SendQueue, is what the daemon does.
THEOREM QueueImplemented ==
  ASSUME ~Faults
  PROVE  Spec => ImplementsSendQueue
<1>1. Init => SQ!Init
  BY MsgsAssumption DEF Init, SQ!Init, Fate, Flying, NoLaunch
<1>2. IInv /\ Messages /\ [Next]_vars => [SQ!Next]_([m \in Msgs |-> Fate(m)])
  BY StepImplements
<1> QED
  BY <1>1, <1>2, MessagesAlways, PTL DEF Spec, ImplementsSendQueue, SQ!Spec

\* A message that a dispatch took out is started or put back, unless the daemon
\* died with it or its sender was told.
THEOREM FailedStartKeeps ==
  ASSUME ~Faults
  PROVE  Spec => FailedStartKeepsMessage
<1> DEFINE Keeps == \A m \in Msgs : Fate(m) = "flying" /\ Fate(m)' = "dropped"
                                      => daemon' = "down" \/ launch.via = "send"
<1>1. IInv /\ Messages /\ [Next]_vars => [Keeps]_vars
  <2> SUFFICES ASSUME IInv, Messages, Next, NEW m \in Msgs,
                      Fate(m) = "flying", Fate(m)' = "dropped"
               PROVE  daemon' = "down" \/ launch.via = "send"
    OBVIOUS
  <2>1. Launching /\ step \notin {"idle", "dispatch", "scan"}
    BY NoneFlying DEF Launching
  <2>2. CASE LaunchFails
    BY <2>2, FailingStep
  <2>3. CASE Spawn
    BY <2>3, SpawningStep
  <2>4. CASE Crash
    BY <2>4 DEF Crash
  <2>5. CASE \/ HarnessWrites \/ HarnessExits \/ ReadNative \/ ReadFrame \/ Finish
             \/ Take \/ Commit \/ CommitFails \/ StreamEnd
             \/ Create \/ Announce \/ WriteSidecar \/ Record \/ AttachLoop
             \/ ShutdownBegin \/ KillHarness \/ DrainRuntime \/ Exit
             \/ BootQuiet \/ BootGivesUp \/ BootReattach
    BY <2>5, QuietSteps
  <2>6. CASE StopRefused \/ StopBegin \/ StopEnd \/ Release
    BY <2>1, <2>6 DEF StopRefused, ClearPending, StopBegin, StopEnd, Release, Serving, Idle
  <2>7. CASE TryDispatch \/ Scan
    BY <2>1, <2>7 DEF TryDispatch, Scan, ClearPending
  <2>8. CASE \E n \in Msgs : SendQueued(n) \/ SendNow(n)
    BY <2>1, <2>8 DEF SendQueued, SendNow, Sendable, Serving, Idle, ClearPending
  <2> QED
    BY <2>2, <2>3, <2>4, <2>5, <2>6, <2>7, <2>8 DEF Next
<1> QED
  BY <1>1, MessagesAlways, PTL DEF Spec, FailedStartKeepsMessage
================================================================================
