------------------------- MODULE EventPipeline_proofs -------------------------
(***************************************************************************)
(* EventPipeline for every number of lines, turns and restarts.            *)
(*                                                                         *)
(* First its types and the two facts a restart relies on: the committed    *)
(* cursor has left no event behind, and no event is stored twice. Then the *)
(* outcome: what the row's status says is the last outcome in the log.     *)
(*                                                                         *)
(* Then the refinement: whatever the tailers, the event loop, stops,       *)
(* shutdowns, crashes and restarts do, the events table only ever grows    *)
(* the way EventLog does - each event once, file by file in the order of   *)
(* the lines, and with nothing of the turn missing before it except what a *)
(* lifecycle operation has discarded. The cursor invariant says that       *)
(* nothing is left behind; what this part adds is order: where an event    *)
(* that is not stored may still be (OrderInv).                             *)
(***************************************************************************)
EXTENDS EventPipeline, TLAPS

-----------------------------------------------------------------------------
(* Types. *)

\* The events of a complete line are well formed.
LEMMA LineEventsType ==
  ASSUME TypeOK, NEW s \in Streams, NEW n \in 1..Len(out[s])
  PROVE  /\ out[s][n] \in Seq(EventTypes)
         /\ LineEvents(s, n) \in Seq(AnyEvent)
         /\ Len(LineEvents(s, n)) = Len(out[s][n])
         /\ \A i \in 1..Len(out[s][n]) : LineEvents(s, n)[i] =
              [stream |-> s, line |-> n, idx |-> i,
               of |-> Len(out[s][n]), type |-> out[s][n][i]]
<1>1. out[s] \in Seq(Frames \cup ErrFrames)
  BY DEF TypeOK
<1>2. out[s][n] \in Frames \cup ErrFrames
  BY <1>1
<1>3. out[s][n] \in Seq(EventTypes)
  BY <1>2, FramesAssumption
<1>4. Len(out[s][n]) \in Nat /\ n \in Nat
  BY <1>1, <1>3
<1> DEFINE ev(i) == [stream |-> s, line |-> n, idx |-> i,
                     of |-> Len(out[s][n]), type |-> out[s][n][i]]
<1>5. \A i \in 1..Len(out[s][n]) : ev(i) \in AnyEvent
  <2> SUFFICES ASSUME NEW i \in 1..Len(out[s][n]) PROVE ev(i) \in AnyEvent
    OBVIOUS
  <2>1. out[s][n][i] \in EventTypes
    BY <1>3
  <2> QED
    BY <1>4, <2>1 DEF AnyEvent
<1>6. LineEvents(s, n) = [i \in 1..Len(out[s][n]) |-> ev(i)]
  BY DEF LineEvents
<1> HIDE DEF ev
<1>7. LineEvents(s, n) \in Seq(AnyEvent) /\ Len(LineEvents(s, n)) = Len(out[s][n])
  BY <1>4, <1>5, <1>6
<1>8. \A i \in 1..Len(out[s][n]) : LineEvents(s, n)[i] = ev(i)
  BY <1>6
<1> QED
  BY <1>3, <1>7, <1>8 DEF ev

\* What the daemon reports itself is an event as well, without a source.
LEMMA ReportType ==
  ASSUME TypeOK, NEW origin \in Origins, NEW type \in EventTypes
  PROVE  Report(origin, type) \in AnyEvent /\ Report(origin, type).stream \notin Streams
BY StreamsAssumption DEF Report, AnyEvent, Origins, TypeOK

\* One report at most is appended to the log.
Reported ==
  \/ store' = store
  \/ \E origin \in Origins, type \in EventTypes : store' = Append(store, Report(origin, type))

\* So the log stays well typed.
LEMMA ReportAppended ==
  ASSUME TypeOK, Reported
  PROVE  store' \in Seq(AnyEvent)
<1>1. CASE store' = store
  BY <1>1 DEF TypeOK
<1>2. ASSUME NEW origin \in Origins, NEW type \in EventTypes,
             store' = Append(store, Report(origin, type))
      PROVE  store' \in Seq(AnyEvent)
  <2>1. store \in Seq(AnyEvent)
    BY DEF TypeOK
  <2>2. Report(origin, type) \in AnyEvent
    BY ReportType
  <2> QED
    BY <1>2, <2>1, <2>2
<1> QED
  BY <1>1, <1>2 DEF Reported

\* The actions with which the daemon writes events of its own.
Reporting ==
  \/ CommitFails \/ StreamEnd \/ StartTurn \/ StartThrows \/ StartReported
  \/ StopEnd \/ MarkInterrupted \/ RestartGivesUp

LEMMA ReportingStep ==
  ASSUME Reporting PROVE Reported
<1>1. /\ "fault" \in Origins /\ "tail" \in Origins /\ "turn" \in Origins /\ "stop" \in Origins
      /\ "shutdown" \in Origins
      /\ "failed" \in EventTypes /\ "completed" \in EventTypes /\ "plain" \in EventTypes
  BY DEF Origins, EventTypes, Terminal
<1>2. ASSUME NEW origin \in Origins, NEW type \in EventTypes,
             store' = store \/ store' = Append(store, Report(origin, type))
      PROVE  Reported
  BY <1>2 DEF Reported
<1> USE DEF BothWritten, WriteRefused, RowFailed, CreateTells, Tell, NothingTold, Adopted, Announced
<1>3. CASE CommitFails
  BY <1>1, <1>2, <1>3 DEF CommitFails
<1>4. CASE StreamEnd
  BY <1>1, <1>2, <1>4 DEF StreamEnd
<1>5. CASE StartTurn \/ StartThrows
  BY <1>1, <1>2, <1>5 DEF StartTurn, StartThrows
<1>6. CASE StartReported
  BY <1>1, <1>2, <1>6 DEF StartReported
<1>7. CASE StopEnd
  BY <1>1, <1>2, <1>7 DEF StopEnd
<1>8. CASE MarkInterrupted
  BY <1>1, <1>2, <1>8 DEF MarkInterrupted
<1>9. CASE RestartGivesUp
  BY <1>1, <1>2, <1>9 DEF RestartGivesUp
<1> QED
  BY <1>3, <1>4, <1>5, <1>6, <1>7, <1>8, <1>9 DEF Reporting

\* The Boolean variables, apart from the others.
LEMMA FlagsStep == FlagsOK /\ [Next]_vars => FlagsOK'
<1> SUFFICES ASSUME FlagsOK, [Next]_vars PROVE FlagsOK'
  OBVIOUS
<1> USE Zenon DEF FlagsOK, harness, runtime, control, history, vars
<1>1. CASE \E s \in Streams : HarnessWrite(s) \/ Pump(s)
  BY <1>1 DEF HarnessWrite, Pump
<1>2. CASE HarnessExit \/ KillHarness
  BY <1>2 DEF HarnessExit, KillHarness
<1>3. CASE Finish \/ DrainRuntime
  BY <1>3 DEF Finish, DrainRuntime
<1>4. CASE Deliver \/ Commit
  BY <1>4 DEF Deliver, Commit
<1>5. CASE CommitGivenUp
  BY <1>5 DEF CommitGivenUp
<1>6. CASE CommitFails
  BY <1>6 DEF CommitFails, BothWritten, WriteRefused, RowFailed, CreateTells
<1>7. CASE StreamEnd
  BY <1>7 DEF StreamEnd, NothingTold, Adopted, Tell, BothWritten, WriteRefused, RowFailed, CreateTells
<1>8. CASE StartTurn
  BY <1>8 DEF StartTurn, Announced, Spawned
<1>9. CASE StartThrows
  BY <1>9 DEF StartThrows, Announced, Spawned
<1>10. CASE StartReported
  BY <1>10 DEF StartReported, Tell, BothWritten, WriteRefused, RowFailed, CreateTells
<1>11. CASE AttachConsumer \/ StopBegin \/ ShutdownBegin
  BY <1>11 DEF AttachConsumer, StopBegin, ShutdownBegin
<1>12. CASE StopEnd
  BY <1>12 DEF StopEnd, NothingTold
<1>13. CASE MarkInterrupted
  BY <1>13 DEF MarkInterrupted, NothingTold, Tell, BothWritten, WriteRefused, RowFailed, CreateTells
<1>14. CASE Exit \/ Crash \/ Restart
  BY <1>14 DEF Exit, Crash, Restart, ForgetAll
<1>15. CASE RestartGivesUp
  BY <1>15 DEF RestartGivesUp
<1>16. CASE UNCHANGED vars
  BY <1>16
<1> QED
  BY <1>1, <1>2, <1>3, <1>4, <1>5, <1>6, <1>7, <1>8, <1>9, <1>10, <1>11, <1>12, <1>13,
     <1>14, <1>15, <1>16 DEF Next

THEOREM TypeCorrect == Spec => []TypeOK
<1>1. Init => TypeOK
  <2>1. Init => FlagsOK
    BY Zenon DEF Init, FlagsOK
  <2> QED
    BY <2>1 DEF Init, TypeOK, NoLines, NoStop, Statuses
<1>2. TypeOK /\ [Next]_vars => TypeOK'
  <2> SUFFICES ASSUME TypeOK, [Next]_vars PROVE TypeOK'
    OBVIOUS
  <2> USE FlagsStep DEF harness, db, runtime, control, history
  <2>1. ASSUME NEW s \in Streams, HarnessWrite(s) PROVE TypeOK'
    <3>1. PICK frame \in Frames \cup ErrFrames : out' = [out EXCEPT ![s] = Append(@, frame)]
      BY <2>1 DEF HarnessWrite
    <3>2. Append(out[s], frame) \in Seq(Frames \cup ErrFrames)
      BY DEF TypeOK
    <3>3. out' \in [Streams -> Seq(Frames \cup ErrFrames)]
      BY <3>1, <3>2 DEF TypeOK
    <3> QED
      BY <2>1, <3>3, SMTT(30) DEF HarnessWrite, TypeOK
  <2>2. CASE HarnessExit
    BY <2>2 DEF HarnessExit, TypeOK
  <2>3. ASSUME NEW s \in Streams, Pump(s) PROVE TypeOK'
    <3>1. read[s] + 1 \in 1..Len(out[s])
      BY <2>3 DEF Pump, TypeOK
    <3>2. LineEvents(s, read[s] + 1) \in Seq(AnyEvent)
      BY <3>1, LineEventsType
    <3>3. buffer' \in Seq(AnyEvent) /\ Len(buffer') >= Len(buffer)
      BY <2>3, <3>2 DEF Pump, TypeOK
    <3>5. Len(buffer) \in Nat /\ read[s] + 1 \in Nat
      BY <3>1 DEF TypeOK
    <3>4. read' \in [Streams -> Nat] /\ safe' \in [Streams -> Nat]
          /\ quietLine' \in [Streams -> Nat] /\ quietAt' \in [Streams -> Nat]
      <4>1. CASE LineEvents(s, read[s] + 1) # <<>>
        BY <2>3, <3>5, <4>1 DEF Pump, TypeOK
      <4>2. CASE LineEvents(s, read[s] + 1) = <<>> /\ Len(buffer) <= yielded
        <5>1. Later(safe[s], read[s] + 1) \in Nat
          BY <3>5 DEF TypeOK, Later
        <5>2. /\ safe' = [safe EXCEPT ![s] = Later(safe[s], read[s] + 1)]
              /\ quietLine' = [quietLine EXCEPT ![s] = 0]
              /\ quietAt' = [quietAt EXCEPT ![s] = 0]
              /\ read' = [read EXCEPT ![s] = read[s] + 1]
          BY <2>3, <4>2 DEF Pump
        <5> QED
          BY <3>5, <5>1, <5>2 DEF TypeOK
      <4>3. CASE LineEvents(s, read[s] + 1) = <<>> /\ ~(Len(buffer) <= yielded)
        <5>1. /\ safe' = safe
              /\ quietLine' = [quietLine EXCEPT ![s] = read[s] + 1]
              /\ quietAt' = [quietAt EXCEPT ![s] = Len(buffer)]
              /\ read' = [read EXCEPT ![s] = read[s] + 1]
          BY <2>3, <4>3 DEF Pump
        <5> QED
          BY <3>5, <5>1 DEF TypeOK
      <4> QED
        BY <4>1, <4>2, <4>3
    <3>6. yielded' \in 0..Len(buffer') /\ consumed' \in 0..yielded'
      BY <2>3, <3>3 DEF Pump, TypeOK
    <3> QED
      BY <2>3, <3>3, <3>4, <3>6 DEF Pump, TypeOK
  <2>4. CASE Finish
    <3>1. buffer' \in Seq(AnyEvent) /\ Len(buffer') >= Len(buffer)
      <4>1. SynthesizedTypes \subseteq EventTypes
        BY DEF SynthesizedTypes, EventTypes, Terminal
      <4>2. \A type \in SynthesizedTypes : Report("exit", type) \in AnyEvent
        BY <4>1, ReportType DEF Origins
      <4>3. CASE buffer' = buffer
        BY <4>3 DEF TypeOK
      <4>4. CASE \E type \in SynthesizedTypes : buffer' = Append(buffer, Report("exit", type))
        BY <4>2, <4>4 DEF TypeOK
      <4> QED
        BY <2>4, <4>3, <4>4 DEF Finish
    <3>2. faults' \in Nat
      BY <2>4 DEF Finish, Flushed, Fault, TypeOK
    <3> QED
      BY <2>4, <3>1, <3>2 DEF Finish, TypeOK
  <2>5. CASE Deliver
    <3>1. buffer[yielded + 1] \in AnyEvent
      BY <2>5 DEF Deliver, TypeOK
    <3>2. buffer[yielded + 1].line \in Nat
      BY <3>1 DEF AnyEvent
    <3>3. safe' \in [Streams -> Nat] /\ quietLine' \in [Streams -> Nat]
          /\ quietAt' \in [Streams -> Nat]
      BY <2>5, <3>2 DEF Deliver, TypeOK, Later, EventCursor
    <3>4. yielded' \in 0..Len(buffer) /\ consumed' \in 0..yielded' /\ dropped' \subseteq AnyEvent
      BY <2>5, <3>1 DEF Deliver, TypeOK
    <3> QED
      BY <2>5, <3>3, <3>4 DEF Deliver, TypeOK
  <2>6. CASE Commit
    <3>1. buffer[yielded] \in AnyEvent
      BY <2>6 DEF Commit, TypeOK
    <3>2. store' \in Seq(AnyEvent)
      BY <2>6, <3>1 DEF Commit, TypeOK
    <3>3. status' \in Statuses
      BY <2>6 DEF Commit, TypeOK, StatusFrom, Terminal, Statuses
    <3>4. faults' \in Nat
      BY <2>6 DEF Commit, Fault, TypeOK
    <3> QED
      BY <2>6, <3>2, <3>3, <3>4 DEF Commit, TypeOK
  <2>7. CASE CommitGivenUp
    BY <2>7 DEF CommitGivenUp, Fault, TypeOK
  <2>22. Reporting => store' \in Seq(AnyEvent)
    BY ReportingStep, ReportAppended
  <2>8. CASE CommitFails
    <3>1. store' \in Seq(AnyEvent)
      BY <2>8, <2>22 DEF Reporting
    <3>2. status' \in Statuses /\ faults' \in Nat
      BY <2>8 DEF CommitFails, BothWritten, WriteRefused, RowFailed, CreateTells, Fault, TypeOK, Statuses
    <3> QED
      BY <2>8, <3>1, <3>2 DEF CommitFails, TypeOK
  <2>9. CASE StreamEnd
    <3>1. store' \in Seq(AnyEvent)
      BY <2>9, <2>22 DEF Reporting
    <3>2. status' \in Statuses /\ faults' \in Nat
      BY <2>9 DEF StreamEnd, NothingTold, Adopted, Tell, BothWritten, WriteRefused, RowFailed, CreateTells, Fault,
                  TypeOK, Statuses, Terminal
    <3> QED
      BY <2>9, <3>1, <3>2 DEF StreamEnd, TypeOK
  <2>23. Spawned =>
           /\ rt' \in {"none", "live", "done"} /\ buffer' \in Seq(AnyEvent)
           /\ yielded' \in 0..Len(buffer') /\ consumed' \in 0..yielded'
           /\ read' \in [Streams -> Nat] /\ safe' \in [Streams -> Nat] /\ base' \in [Streams -> Nat]
           /\ quietLine' \in [Streams -> Nat] /\ quietAt' \in [Streams -> Nat]
    <3>1. \A s \in Streams : Len(out[s]) \in Nat
      BY DEF TypeOK
    <3>2. NoLines \in [Streams -> Nat]
      BY DEF NoLines
    <3> QED
      BY <3>1, <3>2 DEF Spawned
  <2>10. CASE StartTurn
    <3>1. store' \in Seq(AnyEvent)
      BY <2>10, <2>22 DEF Reporting
    <3> QED
      BY <2>10, <2>23, <3>1, SMTT(30) DEF StartTurn, Announced, TypeOK, Statuses
  <2>24. CASE StartThrows
    <3>1. store' \in Seq(AnyEvent)
      BY <2>24, <2>22 DEF Reporting
    <3>2. status' \in Statuses /\ faults' \in Nat /\ turn' \in Nat
      BY <2>24 DEF StartThrows, Announced, Fault, TypeOK, Statuses
    <3>3. /\ rt' \in {"none", "live", "done"} /\ buffer' \in Seq(AnyEvent)
          /\ yielded' \in 0..Len(buffer') /\ consumed' \in 0..yielded'
          /\ read' \in [Streams -> Nat] /\ safe' \in [Streams -> Nat] /\ base' \in [Streams -> Nat]
          /\ quietLine' \in [Streams -> Nat] /\ quietAt' \in [Streams -> Nat]
      <4>1. CASE Spawned
        BY <2>23, <4>1
      <4>2. CASE UNCHANGED <<runtime, base>>
        BY <4>2 DEF TypeOK
      <4> QED
        BY <2>24, <4>1, <4>2 DEF StartThrows
    <3>4. consumer' \in {"none", "pending", "running", "ended", "gone"}
      BY <2>24 DEF StartThrows, TypeOK
    <3> QED
      BY <2>24, <3>1, <3>2, <3>3, <3>4, SMTT(30) DEF StartThrows, TypeOK
  <2>25. CASE StartReported
    <3>1. store' \in Seq(AnyEvent)
      BY <2>25, <2>22 DEF Reporting
    <3>2. status' \in Statuses /\ faults' \in Nat
      BY <2>25 DEF StartReported, Tell, BothWritten, WriteRefused, RowFailed, CreateTells, Fault, TypeOK, Statuses
    <3> QED
      BY <2>25, <3>1, <3>2 DEF StartReported, TypeOK
  <2>11. CASE AttachConsumer
    BY <2>11 DEF AttachConsumer, TypeOK
  <2>12. CASE StopBegin
    BY <2>12 DEF StopBegin, TypeOK, IsTerminal, Statuses
  <2>13. CASE StopEnd
    <3>1. store' \in Seq(AnyEvent)
      BY <2>13, <2>22 DEF Reporting
    <3>2. stopping.from \in Statuses
      BY DEF TypeOK
    <3>3. status' \in Statuses /\ faults' \in Nat
      BY <2>13, <3>2 DEF StopEnd, NothingTold, Fault, TypeOK, Statuses, Terminal
    <3>4. stopping' \in [active : BOOLEAN, events : Nat, from : Statuses]
      BY <2>13 DEF StopEnd, NoStop, Statuses
    <3> QED
      BY <2>13, <3>1, <3>3, <3>4 DEF StopEnd, TypeOK
  <2>14. CASE ShutdownBegin
    BY <2>14 DEF ShutdownBegin, TypeOK
  <2>15. CASE MarkInterrupted
    <3>1. store' \in Seq(AnyEvent)
      BY <2>15, <2>22 DEF Reporting
    <3>2. status' \in Statuses /\ faults' \in Nat
      BY <2>15 DEF MarkInterrupted, NothingTold, Tell, BothWritten, WriteRefused, RowFailed, CreateTells, Fault, TypeOK,
                   Statuses
    <3> QED
      BY <2>15, <3>1, <3>2 DEF MarkInterrupted, TypeOK
  <2>16. CASE KillHarness
    BY <2>16 DEF KillHarness, TypeOK
  <2>17. CASE DrainRuntime
    <3>1. faults' \in Nat /\ rt' \in {rt, "done"}
      BY <2>17 DEF DrainRuntime, Flushed, Fault, TypeOK
    <3> QED
      BY <2>17, <3>1, SMTT(30) DEF DrainRuntime, TypeOK
  <2>18. CASE Exit
    BY <2>18 DEF Exit, ForgetAll, TypeOK, NoLines, NoStop, Statuses
  <2>19. CASE Crash
    BY <2>19 DEF Crash, ForgetAll, TypeOK, NoLines, NoStop, Statuses
  <2>20. CASE Restart
    BY <2>20 DEF Restart, TypeOK
  <2>26. CASE RestartGivesUp
    <3>1. store' \in Seq(AnyEvent)
      BY <2>26, <2>22 DEF Reporting
    <3>2. status' \in Statuses /\ faults' \in Nat
      BY <2>26 DEF RestartGivesUp, Fault, TypeOK, Statuses
    <3> QED
      BY <2>26, <3>1, <3>2 DEF RestartGivesUp, TypeOK
  <2>21. CASE UNCHANGED vars
    BY <2>21, SMTT(30) DEF vars, TypeOK
  <2> QED
    BY <2>1, <2>2, <2>3, <2>4, <2>5, <2>6, <2>7, <2>8, <2>9, <2>10, <2>11, <2>12,
       <2>13, <2>14, <2>15, <2>16, <2>17, <2>18, <2>19, <2>20, <2>21,
       <2>24, <2>25, <2>26 DEF Next
<1> QED
  BY <1>1, <1>2, PTL DEF Spec
-----------------------------------------------------------------------------
(* The inductive invariant behind CursorCovered.  Every position up to a   *)
(* cursor is settled or still in flight before the point at which the      *)
(* cursor is allowed to move there.                                        *)

Done(ev) == Stored(ev) \/ ev \in dropped

InFlight(ev, n) == \E j \in (consumed + 1)..n : buffer[j] = ev

Covered(s, to, n) ==
  \A l \in (base[s] + 1)..to : \A i \in 1..Len(out[s][l]) :
    Done(LineEvents(s, l)[i]) \/ InFlight(LineEvents(s, l)[i], n)

CursorsOK ==
  \A s \in Streams :
    /\ base[s] <= Len(out[s]) /\ read[s] <= Len(out[s])
    /\ saved[s] <= Len(out[s]) /\ safe[s] <= Len(out[s])
    /\ quietLine[s] <= Len(out[s]) /\ quietAt[s] <= Len(buffer)

BufferCovered ==
  \A j \in (consumed + 1)..Len(buffer) :
    buffer[j].stream \in Streams =>
      /\ buffer[j].line <= Len(out[buffer[j].stream])
      /\ IsLast(buffer[j]) => Covered(buffer[j].stream, buffer[j].line, j)

CoverInv ==
  /\ yielded <= consumed + 1
  /\ CursorsOK
  /\ \A s \in Streams :
       /\ Covered(s, saved[s], consumed)
       /\ Covered(s, safe[s], yielded)
       /\ Covered(s, read[s], Len(buffer))
       /\ quietLine[s] # 0 => Covered(s, quietLine[s], quietAt[s])
  /\ BufferCovered

\* What a step may do to the files and to what is settled.
OutKept ==
  /\ base' = base
  /\ \A s \in Streams : /\ Len(out[s]) <= Len(out'[s])
                        /\ \A l \in 1..Len(out[s]) : out'[s][l] = out[s][l]

DoneKept == \A ev : Done(ev) => Done(ev)'

\* A covered range stays covered when what was settled stays settled and what
\* was in flight is settled or in flight again.
LEMMA Keep ==
  ASSUME TypeOK, OutKept, DoneKept,
         NEW s \in Streams, NEW to \in Nat, to <= Len(out[s]),
         NEW n \in Nat, NEW m \in Nat,
         \A ev : InFlight(ev, n) => Done(ev)' \/ InFlight(ev, m)',
         Covered(s, to, n)
  PROVE  Covered(s, to, m)'
<1> SUFFICES ASSUME NEW l \in (base[s] + 1)..to, NEW i \in 1..Len(out'[s][l])
             PROVE  (Done(LineEvents(s, l)[i]) \/ InFlight(LineEvents(s, l)[i], m))'
  BY DEF Covered, OutKept
<1>1. l \in 1..Len(out[s])
  BY DEF TypeOK
<1>2. out'[s][l] = out[s][l]
  BY <1>1 DEF OutKept
<1>3. LineEvents(s, l)' = LineEvents(s, l)
  BY <1>2 DEF LineEvents
<1>4. Done(LineEvents(s, l)[i]) \/ InFlight(LineEvents(s, l)[i], n)
  BY <1>2 DEF Covered
<1> QED
  BY <1>3, <1>4 DEF DoneKept

\* The log only grows.
LEMMA StoredKept ==
  ASSUME TypeOK, store' = store \/ \E ev : store' = Append(store, ev)
  PROVE  \A ev : Stored(ev) => Stored(ev)'
<1> SUFFICES ASSUME NEW e, NEW n \in 1..Len(store), store[n] = e PROVE Stored(e)'
  BY DEF Stored
<1>1. n \in 1..Len(store') /\ store'[n] = e
  <2>1. CASE store' = store
    BY <2>1
  <2>2. ASSUME NEW ev, store' = Append(store, ev) PROVE n \in 1..Len(store') /\ store'[n] = e
    BY <2>2 DEF TypeOK
  <2> QED
    BY <2>1, <2>2
<1> QED
  BY <1>1 DEF Stored

\* Reports and harness output leave the invariant alone.
LEMMA Aside ==
  ASSUME TypeOK, CoverInv, OutKept,
         store' = store \/ \E ev : store' = Append(store, ev),
         UNCHANGED <<saved, read, buffer, yielded, consumed, safe, quietLine, quietAt, dropped>>
  PROVE  CoverInv'
<1>1. DoneKept
  BY StoredKept DEF DoneKept, Done
<1>2. \A s \in Streams : Len(out[s]) \in Nat /\ Len(out'[s]) \in Nat
  OBVIOUS
<1>2a. CursorsOK'
  BY <1>2 DEF CoverInv, CursorsOK, OutKept, TypeOK
<1>3. ASSUME NEW s \in Streams, NEW to \in Nat, to <= Len(out[s]), NEW n \in Nat,
             Covered(s, to, n)
      PROVE  Covered(s, to, n)'
  <2>1. \A ev : InFlight(ev, n) => InFlight(ev, n)'
    BY DEF InFlight
  <2> QED
    BY <1>1, <1>3, <2>1, Keep
<1>4. \A s \in Streams :
        /\ Covered(s, saved[s], consumed)'
        /\ Covered(s, safe[s], yielded)'
        /\ Covered(s, read[s], Len(buffer))'
        /\ quietLine[s] # 0 => Covered(s, quietLine[s], quietAt[s])'
  <2> SUFFICES ASSUME NEW s \in Streams
               PROVE  /\ Covered(s, saved[s], consumed)'
                      /\ Covered(s, safe[s], yielded)'
                      /\ Covered(s, read[s], Len(buffer))'
                      /\ quietLine[s] # 0 => Covered(s, quietLine[s], quietAt[s])'
    OBVIOUS
  <2>1. /\ saved[s] \in Nat /\ consumed \in Nat /\ safe[s] \in Nat /\ yielded \in Nat
        /\ read[s] \in Nat /\ Len(buffer) \in Nat /\ quietLine[s] \in Nat /\ quietAt[s] \in Nat
    BY DEF TypeOK
  <2>2. /\ saved[s] <= Len(out[s]) /\ safe[s] <= Len(out[s])
        /\ read[s] <= Len(out[s]) /\ quietLine[s] <= Len(out[s])
    BY DEF CoverInv, CursorsOK
  <2> QED
    BY <1>3, <2>1, <2>2 DEF CoverInv
<1>5. BufferCovered'
  <2> SUFFICES ASSUME NEW j \in (consumed + 1)..Len(buffer), buffer[j].stream \in Streams
               PROVE  /\ buffer[j].line <= Len(out'[buffer[j].stream])
                      /\ IsLast(buffer[j]) => Covered(buffer[j].stream, buffer[j].line, j)'
    BY DEF BufferCovered
  <2>1. j \in Nat /\ j \in 1..Len(buffer) /\ buffer[j].line \in Nat
    <3>1. consumed \in Nat /\ buffer \in Seq(AnyEvent)
      BY DEF TypeOK
    <3>2. j \in 1..Len(buffer)
      BY <3>1
    <3>3. buffer[j] \in AnyEvent
      BY <3>1, <3>2
    <3>4. buffer[j].line \in Nat
      BY <3>3 DEF AnyEvent
    <3> QED
      BY <3>1, <3>2, <3>4
  <2>2. /\ buffer[j].line <= Len(out[buffer[j].stream])
        /\ IsLast(buffer[j]) => Covered(buffer[j].stream, buffer[j].line, j)
    BY DEF CoverInv, BufferCovered
  <2> QED
    BY <1>2, <1>3, <2>1, <2>2 DEF OutKept
<1> QED
  BY <1>2a, <1>4, <1>5 DEF CoverInv

\* A range may be given more of the buffer.
LEMMA CoveredLonger ==
  ASSUME consumed' \in Nat, NEW s, NEW to, NEW n \in Nat, NEW m \in Nat,
         n <= m, Covered(s, to, n)'
  PROVE  Covered(s, to, m)'
<1>1. \A c \in Nat : \A j \in (c + 1)..n : j \in (c + 1)..m
  OBVIOUS
<1>2. \A ev : InFlight(ev, n)' => InFlight(ev, m)'
  BY <1>1 DEF InFlight
<1> QED
  BY <1>2 DEF Covered

\* What is in flight stays in flight when the buffer grows at its end.
LEMMA BufferGrows ==
  ASSUME TypeOK, CoverInv,
         NEW evs \in Seq(AnyEvent), buffer' = buffer \o evs,
         NEW len \in Nat, len = Len(buffer),
         UNCHANGED <<out, store, dropped, base, consumed>>
  PROVE  /\ \A s \in Streams, to \in Nat, n \in 0..Len(buffer) :
              to <= Len(out[s]) /\ Covered(s, to, n) => Covered(s, to, n)'
         /\ Len(buffer') = Len(buffer) + Len(evs)
         /\ \A j \in 1..Len(buffer) : buffer'[j] = buffer[j]
         /\ \A j \in 1..Len(evs) : buffer'[Len(buffer) + j] = evs[j]
         /\ (\A j \in 1..Len(evs) : evs[j].stream \in Streams =>
               /\ evs[j].line <= Len(out[evs[j].stream])
               /\ IsLast(evs[j]) => Covered(evs[j].stream, evs[j].line, len + j)')
            => BufferCovered'
<1>1. /\ Len(buffer') = Len(buffer) + Len(evs)
      /\ \A j \in 1..Len(buffer) : buffer'[j] = buffer[j]
      /\ \A j \in 1..Len(evs) : buffer'[Len(buffer) + j] = evs[j]
  BY DEF TypeOK
<1>2. OutKept /\ DoneKept
  BY DEF OutKept, DoneKept, Done, Stored, TypeOK
<1>3. ASSUME NEW n \in 0..Len(buffer), NEW ev, InFlight(ev, n)
      PROVE  InFlight(ev, n)'
  BY <1>1, <1>3 DEF InFlight, TypeOK
<1>4. ASSUME NEW s \in Streams, NEW to \in Nat, NEW n \in 0..Len(buffer),
             to <= Len(out[s]), Covered(s, to, n)
      PROVE  Covered(s, to, n)'
  BY <1>2, <1>3, <1>4, Keep
<1>6. ASSUME \A j \in 1..Len(evs) : evs[j].stream \in Streams =>
               /\ evs[j].line <= Len(out[evs[j].stream])
               /\ IsLast(evs[j]) => Covered(evs[j].stream, evs[j].line, len + j)'
      PROVE  BufferCovered'
  <2> SUFFICES ASSUME NEW j \in (consumed + 1)..Len(buffer'), buffer'[j].stream \in Streams
               PROVE  /\ buffer'[j].line <= Len(out[buffer'[j].stream])
                      /\ IsLast(buffer'[j]) => Covered(buffer[j].stream, buffer[j].line, j)'
    BY DEF BufferCovered
  <2>1. consumed \in Nat /\ buffer \in Seq(AnyEvent) /\ Len(buffer) \in Nat
    BY DEF TypeOK
  <2>2. CASE j <= Len(buffer)
    <3>1. j \in 1..Len(buffer) /\ j \in (consumed + 1)..Len(buffer) /\ j \in 0..Len(buffer)
      BY <2>1, <2>2
    <3>2. buffer[j] \in AnyEvent /\ buffer'[j] = buffer[j]
      BY <1>1, <2>1, <3>1
    <3>3. buffer[j].line \in Nat
      BY <3>2 DEF AnyEvent
    <3>4. /\ buffer[j].line <= Len(out[buffer[j].stream])
          /\ IsLast(buffer[j]) => Covered(buffer[j].stream, buffer[j].line, j)
      BY <3>1, <3>2 DEF CoverInv, BufferCovered
    <3> QED
      BY <1>4, <3>1, <3>2, <3>3, <3>4
  <2>3. CASE ~(j <= Len(buffer))
    <3>1. j - Len(buffer) \in 1..Len(evs) /\ Len(buffer) + (j - Len(buffer)) = j
      <4>1. Len(evs) \in Nat /\ Len(buffer') = Len(buffer) + Len(evs)
        BY <1>1
      <4>2. \A c, b, e \in Nat : \A k \in (c + 1)..(b + e) :
              ~(k <= b) => k - b \in 1..e /\ b + (k - b) = k
        OBVIOUS
      <4> QED
        BY <2>1, <2>3, <4>1, <4>2
    <3>2. buffer'[j] = evs[j - Len(buffer)]
      BY <1>1, <3>1
    <3> QED
      BY <1>6, <3>1, <3>2
  <2> QED
    BY <2>2, <2>3
<1> QED
  BY <1>1, <1>4, <1>6

LEMMA FinishKeeps ==
  ASSUME TypeOK, CoverInv, Finish PROVE CoverInv'
<1> USE DEF harness, db, control, history
<1>1. PICK evs \in Seq(AnyEvent) :
        /\ buffer' = buffer \o evs
        /\ \A j \in 1..Len(evs) : evs[j].stream \notin Streams
  <2>1. CASE buffer' = buffer
    <3>1. buffer' = buffer \o <<>> /\ <<>> \in Seq(AnyEvent)
      BY <2>1 DEF TypeOK
    <3>2. \A j \in 1..Len(<<>>) : <<>>[j].stream \notin Streams
      OBVIOUS
    <3> QED
      BY <3>1, <3>2
  <2>2. ASSUME NEW type \in SynthesizedTypes, buffer' = Append(buffer, Report("exit", type))
        PROVE  \E evs \in Seq(AnyEvent) :
                 buffer' = buffer \o evs /\ \A j \in 1..Len(evs) : evs[j].stream \notin Streams
    <3>1. type \in EventTypes
      BY DEF SynthesizedTypes, EventTypes, Terminal
    <3>2. Report("exit", type) \in AnyEvent /\ Report("exit", type).stream \notin Streams
      BY <3>1, ReportType DEF Origins
    <3> DEFINE ev == Report("exit", type)
    <3> HIDE DEF ev
    <3>3. <<ev>> \in Seq(AnyEvent) /\ buffer' = buffer \o <<ev>>
          /\ \A j \in 1..Len(<<ev>>) : <<ev>>[j].stream \notin Streams
      BY <2>2, <3>2 DEF ev, TypeOK
    <3> QED
      BY <3>3
  <2> QED
    BY <2>1, <2>2 DEF Finish
<1>2. UNCHANGED <<out, store, dropped, base, consumed, yielded, saved, safe, read, quietLine, quietAt>>
  BY DEF Finish
<1>3. Len(buffer) \in Nat /\ Len(evs) \in Nat /\ Len(buffer') = Len(buffer) + Len(evs)
  BY <1>1 DEF TypeOK
<1>4. CursorsOK'
  BY <1>2, <1>3 DEF CoverInv, CursorsOK, TypeOK
<1>5. ASSUME NEW s \in Streams
      PROVE  /\ Covered(s, saved[s], consumed)'
             /\ Covered(s, safe[s], yielded)'
             /\ Covered(s, read[s], Len(buffer))'
             /\ quietLine[s] # 0 => Covered(s, quietLine[s], quietAt[s])'
  <2>1. /\ saved[s] \in Nat /\ consumed \in 0..Len(buffer) /\ safe[s] \in Nat
        /\ yielded \in 0..Len(buffer) /\ read[s] \in Nat /\ Len(buffer) \in 0..Len(buffer)
        /\ quietLine[s] \in Nat /\ quietAt[s] \in 0..Len(buffer)
        /\ Len(buffer) + Len(evs) \in Nat
    BY <1>3 DEF TypeOK, CoverInv, CursorsOK
  <2>2. /\ saved[s] <= Len(out[s]) /\ safe[s] <= Len(out[s])
        /\ read[s] <= Len(out[s]) /\ quietLine[s] <= Len(out[s])
    BY DEF CoverInv, CursorsOK
  <2>3. /\ Covered(s, saved[s], consumed)' /\ Covered(s, safe[s], yielded)'
        /\ quietLine[s] # 0 => Covered(s, quietLine[s], quietAt[s])'
    BY <1>1, <1>2, <1>3, <2>1, <2>2, BufferGrows DEF CoverInv
  <2>4. \A r \in Nat : r = read[s] => Covered(s, r, Len(buffer))
    BY DEF CoverInv
  <2>5. \A r, n, m \in Nat :
          r = read[s] /\ n = Len(buffer) /\ m = Len(buffer') => Covered(s, r, m)'
    <3> SUFFICES ASSUME NEW r \in Nat, NEW n \in Nat, NEW m \in Nat,
                        r = read[s], n = Len(buffer), m = Len(buffer')
                 PROVE  Covered(s, r, m)'
      OBVIOUS
    <3>1. Covered(s, r, n)'
      BY <1>1, <1>2, <1>3, <2>1, <2>2, <2>4, BufferGrows
    <3>2. n <= m /\ consumed' \in Nat
      BY <1>2, <1>3, <2>1
    <3> QED
      BY <3>1, <3>2, CoveredLonger
  <2> QED
    BY <1>2, <1>3, <2>1, <2>3, <2>5
<1>6. BufferCovered'
  BY <1>1, <1>2, <1>3, BufferGrows
<1> QED
  BY <1>2, <1>4, <1>5, <1>6 DEF CoverInv

LEMMA PumpKeeps ==
  ASSUME TypeOK, CoverInv, NEW s \in Streams, Pump(s) PROVE CoverInv'
<1> USE DEF harness, db, control, history
<1>1. PICK n \in Nat : n = read[s] + 1
  BY DEF TypeOK
<1>2. PICK len \in Nat : len = Len(buffer)
  BY DEF TypeOK
<1>3. n \in 1..Len(out[s])
  BY <1>1 DEF Pump, TypeOK
<1> DEFINE evs == LineEvents(s, n)
<1>4. /\ evs \in Seq(AnyEvent)
      /\ Len(evs) = Len(out[s][n])
      /\ \A i \in 1..Len(evs) : /\ evs[i].stream = s /\ evs[i].line = n
                                /\ IsLast(evs[i]) <=> i = Len(evs)
  <2>1. evs \in Seq(AnyEvent) /\ Len(evs) = Len(out[s][n])
    BY <1>3, LineEventsType
  <2>2. \A i \in 1..Len(out[s][n]) : evs[i] =
          [stream |-> s, line |-> n, idx |-> i,
           of |-> Len(out[s][n]), type |-> out[s][n][i]]
    BY <1>3, LineEventsType
  <2> HIDE DEF evs
  <2>3. ASSUME NEW i \in 1..Len(evs)
        PROVE  evs[i].stream = s /\ evs[i].line = n
    <3>1. i \in 1..Len(out[s][n])
      BY <2>1
    <3>2. evs[i] = [stream |-> s, line |-> n, idx |-> i,
                    of |-> Len(out[s][n]), type |-> out[s][n][i]]
      BY <2>2, <3>1
    <3> QED
      BY <2>1, <3>2
  <2>4. ASSUME NEW i \in 1..Len(evs)
        PROVE  IsLast(evs[i]) <=> i = Len(evs)
    <3>1. i \in 1..Len(out[s][n])
      BY <2>1
    <3>2. evs[i] = [stream |-> s, line |-> n, idx |-> i,
                    of |-> Len(out[s][n]), type |-> out[s][n][i]]
      BY <2>2, <3>1
    <3> QED
      BY <2>1, <3>2 DEF IsLast
  <2> QED
    BY <2>1, <2>3, <2>4
<1>5. /\ buffer' = buffer \o evs
      /\ read' = [read EXCEPT ![s] = n]
      /\ UNCHANGED <<out, store, dropped, base, consumed, yielded, saved>>
  BY <1>1 DEF Pump
<1>evs. evs' = evs
  BY <1>5 DEF LineEvents
<1> HIDE DEF evs
<1>6. /\ Len(buffer') = len + Len(evs) /\ Len(evs) \in Nat
      /\ \A j \in 1..Len(evs) : buffer'[len + j] = evs[j]
      /\ \A t \in Streams, to \in Nat, k \in 0..len :
           to <= Len(out[t]) /\ Covered(t, to, k) => Covered(t, to, k)'
  <2>1. /\ Len(buffer') = Len(buffer) + Len(evs)
        /\ \A j \in 1..Len(evs) : buffer'[Len(buffer) + j] = evs[j]
    BY <1>2, <1>4, <1>5, BufferGrows
  <2>2. \A t \in Streams, to \in Nat, k \in 0..Len(buffer) :
          to <= Len(out[t]) /\ Covered(t, to, k) => Covered(t, to, k)'
    BY <1>2, <1>4, <1>5, BufferGrows
  <2>3. \A k \in 0..len : k \in 0..Len(buffer)
    BY <1>2
  <2>4. Len(evs) \in Nat
    BY <1>4
  <2> QED
    BY <1>2, <2>1, <2>2, <2>3, <2>4
<1>7. /\ consumed \in 0..len /\ yielded \in 0..len /\ n \in Nat
      /\ \A t \in Streams :
           /\ saved[t] \in Nat /\ safe[t] \in Nat /\ read[t] \in Nat /\ Len(out[t]) \in Nat
           /\ quietLine[t] \in Nat /\ quietAt[t] \in 0..len
           /\ base[t] <= Len(out[t]) /\ read[t] <= Len(out[t]) /\ saved[t] <= Len(out[t])
           /\ safe[t] <= Len(out[t]) /\ quietLine[t] <= Len(out[t])
  BY <1>2 DEF TypeOK, CoverInv, CursorsOK
\* All of the line is in the buffer, and nothing before it is lost.
<1>8. ASSUME NEW m \in Nat, m = Len(buffer') PROVE Covered(s, n, m)'
  <2>1. PICK r \in Nat : r = read[s]
    BY <1>7
  <2>2. Covered(s, r, len)
    BY <1>2, <2>1 DEF CoverInv
  <2>3. Covered(s, r, len)'
    BY <1>6, <1>7, <2>1, <2>2
  <2>4. Covered(s, r, m)'
    <3>1. len <= m /\ consumed' \in Nat
      BY <1>5, <1>6, <1>7, <1>8
    <3> QED
      BY <2>3, <3>1, CoveredLonger
  <2>5. ASSUME NEW i \in 1..Len(evs) PROVE InFlight(evs[i], m)'
    <3>1. len + i \in (consumed' + 1)..m
      BY <1>5, <1>6, <1>7, <1>8
    <3> QED
      BY <1>6, <1>evs, <3>1 DEF InFlight
  <2>6. \A i \in 1..Len(out[s][n]) : InFlight(LineEvents(s, n)[i], m)'
    BY <1>4, <1>evs, <2>5 DEF evs
  <2>7. SUFFICES ASSUME NEW l \in (base'[s] + 1)..n, NEW i \in 1..Len(out'[s][l])
                 PROVE  (Done(LineEvents(s, l)[i]) \/ InFlight(LineEvents(s, l)[i], m))'
    BY DEF Covered
  <2>8. base'[s] \in Nat
    BY <1>5 DEF TypeOK
  <2>9. CASE l = n
    BY <1>5, <2>6, <2>9
  <2>10. CASE l # n
    <3>1. l \in (base'[s] + 1)..r
      BY <1>1, <2>1, <2>8, <2>10
    <3> QED
      BY <2>4, <3>1 DEF Covered
  <2> QED
    BY <2>9, <2>10
<1>9. BufferCovered'
  <2>1. ASSUME NEW j \in 1..Len(evs)
        PROVE  /\ evs[j].line <= Len(out[evs[j].stream])
               /\ IsLast(evs[j]) => Covered(evs[j].stream, evs[j].line, len + j)'
    <3>1. evs[j].line <= Len(out[evs[j].stream])
      BY <1>3, <1>4
    <3>2. ASSUME IsLast(evs[j]) PROVE Covered(s, n, len + j)'
      <4>1. j = Len(evs)
        BY <1>4, <3>2
      <4>2. PICK m \in Nat : m = len + j
        BY <1>6
      <4>3. m = Len(buffer')
        BY <1>6, <4>1, <4>2
      <4>4. Covered(s, n, m)'
        BY <1>8, <4>3
      <4> QED
        BY <4>2, <4>4
    <3> QED
      BY <1>4, <1>evs, <3>1, <3>2
  <2> QED
    BY <1>2, <1>4, <1>5, <1>evs, <2>1, BufferGrows
<1>10. ASSUME NEW t \in Streams PROVE Covered(t, read[t], Len(buffer))'
  <2>1. PICK m \in Nat : m = Len(buffer')
    BY <1>6
  <2>2. CASE t = s
    BY <1>5, <1>8, <2>1, <2>2 DEF TypeOK
  <2>3. CASE t # s
    <3>1. PICK r \in Nat : r = read[t]
      BY <1>7
    <3>2. Covered(t, r, len)
      BY <1>2, <3>1 DEF CoverInv
    <3>3. Covered(t, r, len)'
      BY <1>6, <1>7, <3>1, <3>2
    <3>4. Covered(t, r, m)'
      <4>1. len <= m /\ consumed' \in Nat
        BY <1>5, <1>6, <1>7, <2>1
      <4> QED
        BY <3>3, <4>1, CoveredLonger
    <3>5. read'[t] = r
      BY <1>5, <2>3, <3>1 DEF TypeOK
    <3> QED
      BY <2>1, <3>4, <3>5
  <2> QED
    BY <2>2, <2>3
<1>11. ASSUME NEW t \in Streams
       PROVE  /\ Covered(t, saved[t], consumed)'
              /\ safe'[t] = safe[t] => Covered(t, safe[t], yielded)'
              /\ (quietLine'[t] = quietLine[t] /\ quietAt'[t] = quietAt[t] /\ quietLine'[t] # 0)
                    => Covered(t, quietLine[t], quietAt[t])'
  <2>1. Covered(t, saved[t], consumed)'
    <3>1. PICK a \in Nat : a = saved[t]
      BY <1>7
    <3>2. PICK b \in 0..len : b = consumed
      BY <1>7
    <3>3. Covered(t, a, b)
      BY <3>1, <3>2 DEF CoverInv
    <3>4. Covered(t, a, b)'
      BY <1>6, <1>7, <3>1, <3>3
    <3> QED
      BY <1>5, <3>1, <3>2, <3>4
  <2>2. ASSUME safe'[t] = safe[t] PROVE Covered(t, safe[t], yielded)'
    <3>1. PICK a \in Nat : a = safe[t]
      BY <1>7
    <3>2. PICK b \in 0..len : b = yielded
      BY <1>7
    <3>3. Covered(t, a, b)
      BY <3>1, <3>2 DEF CoverInv
    <3>4. Covered(t, a, b)'
      BY <1>6, <1>7, <3>1, <3>3
    <3> QED
      BY <1>5, <2>2, <3>1, <3>2, <3>4
  <2>3. ASSUME quietLine'[t] = quietLine[t], quietAt'[t] = quietAt[t], quietLine'[t] # 0
        PROVE  Covered(t, quietLine[t], quietAt[t])'
    <3>1. PICK a \in Nat : a = quietLine[t]
      BY <1>7
    <3>2. PICK b \in 0..len : b = quietAt[t]
      BY <1>7
    <3>3. Covered(t, a, b)
      BY <2>3, <3>1, <3>2 DEF CoverInv
    <3>4. Covered(t, a, b)'
      BY <1>6, <1>7, <3>1, <3>3
    <3> QED
      BY <2>3, <3>1, <3>2, <3>4
  <2> QED
    BY <2>1, <2>2, <2>3
<1>15. ASSUME NEW t \in Streams
       PROVE  /\ base'[t] <= Len(out'[t]) /\ read'[t] <= Len(out'[t])
              /\ saved'[t] <= Len(out'[t]) /\ len <= Len(buffer')
  <2>1. read'[t] \in {read[t], n} /\ (read'[t] = n => t = s \/ read[t] = n)
    BY <1>5 DEF TypeOK
  <2> QED
    BY <1>3, <1>5, <1>6, <1>7, <2>1
<1>12. CASE evs # <<>>
  <2>1. UNCHANGED <<safe, quietLine, quietAt>>
    BY <1>1, <1>12 DEF Pump, evs
  <2>2. CursorsOK'
    BY <1>2, <1>5, <1>6, <1>7, <1>15, <2>1 DEF CursorsOK
  <2> QED
    BY <1>5, <1>9, <1>10, <1>11, <2>1, <2>2 DEF CoverInv
<1>13. CASE evs = <<>> /\ Len(buffer) <= yielded
  <2>1. /\ safe' = [safe EXCEPT ![s] = Later(safe[s], n)]
        /\ quietLine' = [quietLine EXCEPT ![s] = 0]
        /\ quietAt' = [quietAt EXCEPT ![s] = 0]
    BY <1>1, <1>13 DEF Pump, evs
  <2>2. safe'[s] \in {safe[s], n} /\ \A t \in Streams \ {s} : safe'[t] = safe[t]
    BY <2>1 DEF TypeOK, Later
  <2>3. /\ quietLine'[s] = 0 /\ quietAt'[s] = 0
        /\ \A t \in Streams \ {s} : quietLine'[t] = quietLine[t] /\ quietAt'[t] = quietAt[t]
    BY <2>1 DEF TypeOK
  <2>4. CursorsOK'
    <3>1. ASSUME NEW t \in Streams
          PROVE  /\ safe'[t] <= Len(out'[t]) /\ quietLine'[t] <= Len(out'[t])
                 /\ quietAt'[t] <= Len(buffer')
      <4>1. /\ out' = out /\ len <= Len(buffer') /\ Len(buffer') \in Nat
            /\ safe[t] <= Len(out[t]) /\ quietLine[t] <= Len(out[t]) /\ quietAt[t] <= len
            /\ quietAt[t] \in Nat /\ 0 <= Len(out[t])
        BY <1>5, <1>6, <1>7
      <4>2. CASE t = s
        BY <1>3, <1>7, <2>2, <2>3, <4>1, <4>2
      <4>3. CASE t # s
        BY <1>7, <2>2, <2>3, <4>1, <4>3
      <4> QED
        BY <4>2, <4>3
    <3> QED
      BY <1>15, <3>1 DEF CursorsOK
  <2>5. ASSUME NEW t \in Streams PROVE Covered(t, safe[t], yielded)'
    <3>1. CASE safe'[t] = safe[t]
      BY <1>11, <3>1
    <3>2. CASE t = s /\ safe'[t] = n
      <4>1. PICK m \in Nat : m = Len(buffer')
        BY <1>6
      <4>2. m = yielded'
        BY <1>2, <1>5, <1>6, <1>7, <1>13, <4>1
      <4> QED
        BY <1>8, <3>2, <4>1, <4>2
    <3> QED
      BY <2>2, <3>1, <3>2
  <2> QED
    BY <1>5, <1>9, <1>10, <1>11, <2>3, <2>4, <2>5 DEF CoverInv
<1>14. CASE evs = <<>> /\ ~(Len(buffer) <= yielded)
  <2>1. /\ safe' = safe
        /\ quietLine' = [quietLine EXCEPT ![s] = n]
        /\ quietAt' = [quietAt EXCEPT ![s] = len]
    BY <1>1, <1>2, <1>14 DEF Pump, evs
  <2>3. /\ quietLine'[s] = n /\ quietAt'[s] = len /\ len = Len(buffer')
        /\ \A t \in Streams \ {s} : quietLine'[t] = quietLine[t] /\ quietAt'[t] = quietAt[t]
    BY <1>6, <1>14, <2>1 DEF TypeOK
  <2>4. CursorsOK'
    <3>1. ASSUME NEW t \in Streams
          PROVE  /\ safe'[t] <= Len(out'[t]) /\ quietLine'[t] <= Len(out'[t])
                 /\ quietAt'[t] <= Len(buffer')
      BY <1>3, <1>5, <1>6, <1>7, <1>15, <2>1, <2>3
    <3> QED
      BY <1>15, <3>1 DEF CursorsOK
  <2>5. Covered(s, n, len)'
    BY <1>8, <2>3
  <2>6. ASSUME NEW t \in Streams, quietLine'[t] # 0
        PROVE  Covered(t, quietLine[t], quietAt[t])'
    <3>1. CASE t = s
      BY <2>3, <2>5, <3>1
    <3>2. CASE t # s
      BY <1>11, <2>3, <2>6, <3>2
    <3> QED
      BY <3>1, <3>2
  <2> QED
    BY <1>5, <1>9, <1>10, <1>11, <2>1, <2>4, <2>6 DEF CoverInv
<1> QED
  BY <1>12, <1>13, <1>14

\* Committing an event settles it, and the cursor moves to where the events
\* handed out so far allow.
LEMMA CommitKeeps ==
  ASSUME TypeOK, CoverInv, Commit PROVE CoverInv'
<1> USE DEF harness, history
<1>1. /\ UNCHANGED <<out, dropped, base, read, buffer, yielded, safe, quietLine, quietAt>>
      /\ saved' = safe /\ consumed' = yielded
      /\ store' = store \/ \E ev : store' = Append(store, ev)
  BY DEF Commit
<1>2. yielded \in 1..Len(buffer) /\ consumed + 1 = yielded /\ consumed \in Nat
  BY DEF Commit, CoverInv, TypeOK
<1>3. Stored(buffer[yielded])'
  <2>1. CASE IsReplay(buffer[yielded])
    BY <1>1, <2>1, StoredKept DEF IsReplay
  <2>2. CASE ~IsReplay(buffer[yielded])
    <3>1. store' = Append(store, buffer[yielded])
      BY <2>2 DEF Commit
    <3>2. Len(store) + 1 \in 1..Len(store') /\ store'[Len(store) + 1] = buffer[yielded]
      BY <3>1 DEF TypeOK
    <3> QED
      BY <1>1, <3>2 DEF Stored
  <2> QED
    BY <2>1, <2>2
<1>4. OutKept /\ DoneKept
  BY <1>1, StoredKept DEF OutKept, DoneKept, Done, TypeOK
<1>5. ASSUME NEW s \in Streams, NEW to \in Nat, NEW n \in Nat, to <= Len(out[s]), Covered(s, to, n)
      PROVE  Covered(s, to, n)'
  <2>1. ASSUME NEW ev, InFlight(ev, n) PROVE Done(ev)' \/ InFlight(ev, n)'
    <3>1. PICK j \in (consumed + 1)..n : buffer[j] = ev
      BY <2>1 DEF InFlight
    <3>2. CASE j = yielded
      BY <1>1, <1>3, <3>1, <3>2 DEF Done
    <3>3. CASE j # yielded
      <4>1. j \in (consumed' + 1)..n
        BY <1>1, <1>2, <3>1, <3>3
      <4> QED
        BY <1>1, <3>1, <4>1 DEF InFlight
    <3> QED
      BY <3>2, <3>3
  <2> QED
    BY <1>4, <1>5, <2>1, Keep
<1>6. \A s \in Streams :
        /\ saved[s] \in Nat /\ safe[s] \in Nat /\ read[s] \in Nat
        /\ quietLine[s] \in Nat /\ quietAt[s] \in Nat
        /\ saved[s] <= Len(out[s]) /\ safe[s] <= Len(out[s])
        /\ read[s] <= Len(out[s]) /\ quietLine[s] <= Len(out[s])
  BY DEF TypeOK, CoverInv, CursorsOK
<1>7. CursorsOK'
  BY <1>1 DEF CoverInv, CursorsOK
<1>8. ASSUME NEW s \in Streams
      PROVE  /\ Covered(s, safe[s], yielded)'
             /\ Covered(s, read[s], Len(buffer))'
             /\ quietLine[s] # 0 => Covered(s, quietLine[s], quietAt[s])'
  <2>1. /\ Covered(s, safe[s], yielded) /\ Covered(s, read[s], Len(buffer))
        /\ quietLine[s] # 0 => Covered(s, quietLine[s], quietAt[s])
    BY DEF CoverInv
  <2>2. yielded \in Nat /\ Len(buffer) \in Nat
    BY DEF TypeOK
  <2> QED
    BY <1>1, <1>5, <1>6, <2>1, <2>2
<1>9. BufferCovered'
  <2> SUFFICES ASSUME NEW j \in (consumed' + 1)..Len(buffer), buffer[j].stream \in Streams
               PROVE  /\ buffer[j].line <= Len(out[buffer[j].stream])
                      /\ IsLast(buffer[j]) => Covered(buffer[j].stream, buffer[j].line, j)'
    BY <1>1 DEF BufferCovered, IsLast
  <2>1. j \in (consumed + 1)..Len(buffer) /\ j \in Nat
    BY <1>1, <1>2
  <2>2. buffer[j].line \in Nat
    <3>1. buffer \in Seq(AnyEvent) /\ j \in 1..Len(buffer)
      BY <1>2, <2>1 DEF TypeOK
    <3>2. buffer[j] \in AnyEvent
      BY <3>1
    <3> QED
      BY <3>2 DEF AnyEvent
  <2>3. /\ buffer[j].line <= Len(out[buffer[j].stream])
        /\ IsLast(buffer[j]) => Covered(buffer[j].stream, buffer[j].line, j)
    BY <2>1 DEF CoverInv, BufferCovered
  <2> QED
    BY <1>1, <1>5, <2>1, <2>2, <2>3
<1> QED
  BY <1>1, <1>2, <1>7, <1>8, <1>9 DEF CoverInv

\* The cursors are numbers within their files.
LEMMA CursorFacts ==
  ASSUME TypeOK, CoverInv, NEW s \in Streams
  PROVE  /\ Len(out[s]) \in Nat /\ saved[s] \in Nat /\ base[s] \in Nat /\ read[s] \in Nat
         /\ safe[s] \in Nat /\ quietLine[s] \in Nat /\ quietAt[s] \in Nat
         /\ base[s] <= Len(out[s]) /\ saved[s] <= Len(out[s]) /\ safe[s] <= Len(out[s])
         /\ read[s] <= Len(out[s]) /\ quietLine[s] <= Len(out[s])
         /\ quietAt[s] <= Len(buffer)
<1>1. out[s] \in Seq(Frames \cup ErrFrames)
  BY DEF TypeOK
<1>2. Len(out[s]) \in Nat
  BY <1>1
<1>3. /\ saved[s] \in Nat /\ base[s] \in Nat /\ read[s] \in Nat
      /\ safe[s] \in Nat /\ quietLine[s] \in Nat /\ quietAt[s] \in Nat
  BY DEF TypeOK
<1> QED
  BY <1>2, <1>3 DEF CoverInv, CursorsOK

\* A new runtime starts at the ends of the files, where nothing is due.
LEMMA StartKeeps ==
  ASSUME TypeOK, CoverInv, Spawned, UNCHANGED <<out, saved>> PROVE CoverInv'
<1>1. \A s \in Streams : Len(out[s]) \in Nat /\ saved[s] \in Nat /\ saved[s] <= Len(out[s])
  BY CursorFacts
<1>2. /\ out' = out /\ saved' = saved
      /\ base' = [s \in Streams |-> Len(out[s])]
      /\ read' = base' /\ safe' = base' /\ buffer' = <<>> /\ yielded' = 0 /\ consumed' = 0
      /\ \A s \in Streams : quietLine'[s] = 0 /\ quietAt'[s] = 0
  BY DEF Spawned, NoLines
<1>3. ASSUME NEW s \in Streams, NEW to \in Nat, NEW n, to <= Len(out[s])
      PROVE  Covered(s, to, n)'
  <2>1. (base'[s] + 1)..to = {}
    BY <1>1, <1>2, <1>3
  <2> QED
    BY <2>1 DEF Covered
<1>4. CursorsOK'
  BY <1>1, <1>2 DEF CursorsOK
<1>5. ASSUME NEW s \in Streams
      PROVE  /\ Covered(s, saved[s], consumed)' /\ Covered(s, safe[s], yielded)'
             /\ Covered(s, read[s], Len(buffer))'
  BY <1>1, <1>2, <1>3
<1>6. BufferCovered'
  BY <1>2 DEF BufferCovered
<1> QED
  BY <1>2, <1>4, <1>5, <1>6 DEF CoverInv

\* When the daemon dies the buffer is lost; nothing the committed cursor has
\* passed was still in it.
LEMMA ForgetKeeps ==
  ASSUME TypeOK, CoverInv, ForgetAll, UNCHANGED <<out, store, saved, base, dropped>>
  PROVE  CoverInv'
<1>1. /\ buffer' = <<>> /\ yielded' = 0 /\ consumed' = 0
      /\ \A s \in Streams : read'[s] = 0 /\ safe'[s] = 0 /\ quietLine'[s] = 0 /\ quietAt'[s] = 0
  BY DEF ForgetAll, NoLines
<1>2. \A s \in Streams : /\ Len(out[s]) \in Nat /\ saved[s] \in Nat /\ base[s] \in Nat
                         /\ saved[s] <= Len(out[s]) /\ base[s] <= Len(out[s])
  BY DEF TypeOK, CoverInv, CursorsOK
<1>3. consumed \in Nat
  BY DEF TypeOK
<1>4. OutKept /\ DoneKept
  BY <1>2 DEF OutKept, DoneKept, Done, Stored
<1>5. ASSUME NEW s \in Streams PROVE Covered(s, saved[s], consumed)'
  <2>1. PICK a \in Nat : a = saved[s]
    BY <1>2
  <2>2. PICK b \in Nat : b = consumed
    BY <1>3
  <2>3. Covered(s, a, b)
    BY <2>1, <2>2 DEF CoverInv
  <2>4. \A ev : ~InFlight(ev, b)
    BY <2>2 DEF InFlight
  <2>5. Covered(s, a, 0)'
    BY <1>2, <1>4, <2>1, <2>3, <2>4, Keep
  <2> QED
    BY <1>1, <2>1, <2>5
<1>6. ASSUME NEW s \in Streams, NEW n PROVE Covered(s, 0, n)'
  <2>1. (base'[s] + 1)..0 = {}
    BY <1>2
  <2> QED
    BY <2>1 DEF Covered
<1>7. CursorsOK'
  BY <1>1, <1>2 DEF CursorsOK
<1>8. BufferCovered'
  BY <1>1 DEF BufferCovered
<1> QED
  BY <1>1, <1>5, <1>6, <1>7, <1>8 DEF CoverInv

\* A reattached runtime reads on from the committed cursor.
LEMMA RestartKeeps ==
  ASSUME TypeOK, CoverInv, Restart PROVE CoverInv'
<1> USE DEF harness, db, history
<1>1. /\ UNCHANGED <<out, store, saved, dropped, base, buffer, yielded, consumed, quietLine, quietAt>>
      /\ \/ read' = saved /\ safe' = saved
         \/ read' = read /\ safe' = safe
  BY DEF Restart
<1>2. CASE read' = read /\ safe' = safe
  <2>1. OutKept
    BY <1>1 DEF OutKept, TypeOK
  <2> QED
    BY <1>1, <1>2, <2>1, Aside
<1>3. CASE read' = saved /\ safe' = saved
  <2>1. \A s \in Streams : Len(out[s]) \in Nat /\ saved[s] \in Nat /\ saved[s] <= Len(out[s])
    BY CursorFacts
  <2>2. consumed \in Nat /\ yielded \in Nat /\ Len(buffer) \in Nat
        /\ consumed <= yielded /\ consumed <= Len(buffer)
    BY DEF TypeOK
  <2>3. \A s, to, n : Covered(s, to, n)' <=> Covered(s, to, n)
    BY <1>1 DEF Covered, Done, Stored, InFlight, LineEvents
  <2>4. ASSUME NEW s \in Streams, NEW m \in Nat, consumed <= m
        PROVE  Covered(s, saved[s], m)
    <3>1. Covered(s, saved[s], consumed)
      BY DEF CoverInv
    <3>2. \A ev : ~InFlight(ev, consumed)
      BY <2>2 DEF InFlight
    <3> QED
      BY <3>1, <3>2 DEF Covered
  <2>5. CursorsOK'
    BY <1>1, <1>3, <2>1 DEF CoverInv, CursorsOK
  <2>6. ASSUME NEW s \in Streams
        PROVE  /\ Covered(s, saved[s], consumed)' /\ Covered(s, safe[s], yielded)'
               /\ Covered(s, read[s], Len(buffer))'
               /\ quietLine[s] # 0 => Covered(s, quietLine[s], quietAt[s])'
    BY <1>1, <1>3, <2>2, <2>3, <2>4 DEF CoverInv
  <2>7. BufferCovered'
    BY <1>1, <2>3 DEF CoverInv, BufferCovered, IsLast
  <2> QED
    BY <1>1, <2>5, <2>6, <2>7 DEF CoverInv
<1> QED
  BY <1>1, <1>2, <1>3

\* Handing an event out moves the cursors up to the event's own place; a
\* terminal event that is dropped is settled by that.
LEMMA DeliverKeeps ==
  ASSUME TypeOK, CoverInv, Deliver PROVE CoverInv'
<1> USE DEF harness, db, control
<1>1. /\ UNCHANGED <<out, store, base, read, buffer, saved>>
      /\ yielded' = yielded + 1 /\ yielded = consumed
      /\ yielded \in Nat /\ yielded + 1 \in 1..Len(buffer)
  BY DEF Deliver, LoopReady, TypeOK
<1>2. PICK ev \in AnyEvent : ev = buffer[yielded + 1]
  BY <1>1 DEF TypeOK
<1>3. PICK y \in Nat : y = yielded + 1
  BY <1>1
<1>4. \/ consumed' = consumed /\ dropped' = dropped
      \/ consumed' = yielded' /\ (ev.stream \in Streams => ev \in dropped')
         /\ dropped \subseteq dropped'
  BY <1>1, <1>2, <1>3 DEF Deliver
<1>5. OutKept /\ DoneKept
  BY <1>1, <1>4, CursorFacts DEF OutKept, DoneKept, Done, Stored
\* Only positions of files are covered, and those of an event that is dropped
\* are settled.
<1>6. ASSUME NEW s \in Streams, NEW to \in Nat, NEW n \in Nat, to <= Len(out[s]), Covered(s, to, n)
      PROVE  Covered(s, to, n)'
  <2> SUFFICES ASSUME NEW l \in (base[s] + 1)..to, NEW i \in 1..Len(out[s][l])
               PROVE  (Done(LineEvents(s, l)[i]) \/ InFlight(LineEvents(s, l)[i], n))'
    BY <1>1 DEF Covered
  <2>1. LineEvents(s, l)' = LineEvents(s, l)
    BY <1>1 DEF LineEvents
  <2>2. l \in 1..Len(out[s])
    BY <1>6, CursorFacts
  <2>3. LineEvents(s, l)[i].stream = s
    <3>1. LineEvents(s, l)[i] =
            [stream |-> s, line |-> l, idx |-> i, of |-> Len(out[s][l]), type |-> out[s][l][i]]
      BY <2>2, LineEventsType
    <3> QED
      BY <3>1
  <2>4. CASE Done(LineEvents(s, l)[i])
    BY <1>5, <2>1, <2>4 DEF DoneKept
  <2>5. CASE InFlight(LineEvents(s, l)[i], n)
    <3>1. PICK j \in (consumed + 1)..n : buffer[j] = LineEvents(s, l)[i]
      BY <2>5 DEF InFlight
    <3>2. CASE j \in (consumed' + 1)..n
      BY <1>1, <2>1, <3>1, <3>2 DEF InFlight
    <3>3. CASE j \notin (consumed' + 1)..n
      <4>1. consumed' = yielded' /\ j = yielded + 1
        BY <1>1, <1>4, <3>3
      <4>2. LineEvents(s, l)[i] \in dropped'
        BY <1>1, <1>2, <1>4, <2>3, <3>1, <4>1
      <4> QED
        BY <2>1, <4>2 DEF Done
    <3> QED
      BY <3>2, <3>3
  <2> QED
    BY <1>6, <2>4, <2>5 DEF Covered
<1>7. consumed' \in Nat /\ yielded' = y /\ y <= Len(buffer) /\ y \in (consumed + 1)..Len(buffer)
  BY <1>1, <1>3, <1>4 DEF TypeOK
<1>8. ASSUME NEW s \in Streams
      PROVE  /\ safe'[s] = safe[s]
                \/ (ev.stream = s /\ IsLast(ev) /\ safe'[s] = ev.line)
                \/ (quietLine[s] # 0 /\ quietAt[s] <= y /\ safe'[s] = quietLine[s])
             /\ (quietLine'[s] = 0 /\ quietAt'[s] = 0)
                \/ (quietLine'[s] = quietLine[s] /\ quietAt'[s] = quietAt[s])
  <2> DEFINE passed == quietLine[s] # 0 /\ quietAt[s] <= y
  <2>1. /\ safe'[s] = Later(Later(safe[s], IF ev.stream = s /\ IsLast(ev) THEN ev.line ELSE 0),
                            IF passed THEN quietLine[s] ELSE 0)
        /\ quietLine'[s] = IF passed THEN 0 ELSE quietLine[s]
        /\ quietAt'[s] = IF passed THEN 0 ELSE quietAt[s]
    BY <1>2, <1>3 DEF Deliver, EventCursor
  <2>2. safe[s] \in Nat /\ quietLine[s] \in Nat /\ ev.line \in Nat
    BY CursorFacts DEF AnyEvent
  <2> HIDE DEF passed
  <2>3. safe'[s] = safe[s]
        \/ (ev.stream = s /\ IsLast(ev) /\ safe'[s] = ev.line)
        \/ (passed /\ safe'[s] = quietLine[s])
    BY <2>1, <2>2 DEF Later
  <2> QED
    BY <2>1, <2>3 DEF passed
<1>9. ASSUME NEW s \in Streams PROVE Covered(s, safe[s], yielded)' /\ safe'[s] <= Len(out[s])
  <2>1. CASE safe'[s] = safe[s]
    <3>1. PICK a, b \in Nat : a = safe[s] /\ b = yielded
      BY <1>1, CursorFacts
    <3>2. Covered(s, a, b)' /\ b <= y /\ a <= Len(out[s])
      BY <1>3, <1>6, <3>1, CursorFacts DEF CoverInv
    <3>3. Covered(s, a, y)'
      BY <1>7, <3>2, CoveredLonger
    <3> QED
      BY <1>7, <2>1, <3>1, <3>2, <3>3
  <2>2. CASE ev.stream = s /\ IsLast(ev) /\ safe'[s] = ev.line
    <3>1. PICK a \in Nat : a = ev.line
      BY DEF AnyEvent
    <3>2. a <= Len(out[s]) /\ Covered(s, a, y)
      BY <1>2, <1>3, <1>7, <2>2, <3>1 DEF CoverInv, BufferCovered
    <3>3. Covered(s, a, y)'
      BY <1>6, <3>2
    <3> QED
      BY <1>7, <2>2, <3>1, <3>2, <3>3
  <2>3. CASE quietLine[s] # 0 /\ quietAt[s] <= y /\ safe'[s] = quietLine[s]
    <3>1. PICK a, b \in Nat : a = quietLine[s] /\ b = quietAt[s]
      BY CursorFacts
    <3>2. Covered(s, a, b)' /\ b <= y /\ a <= Len(out[s])
      BY <1>6, <2>3, <3>1, CursorFacts DEF CoverInv
    <3>3. Covered(s, a, y)'
      BY <1>7, <3>2, CoveredLonger
    <3> QED
      BY <1>7, <2>3, <3>1, <3>2, <3>3
  <2> QED
    BY <1>8, <2>1, <2>2, <2>3
<1>10. ASSUME NEW s \in Streams, quietLine'[s] # 0 PROVE Covered(s, quietLine[s], quietAt[s])'
  <2>1. quietLine'[s] = quietLine[s] /\ quietAt'[s] = quietAt[s]
    BY <1>8, <1>10
  <2>2. PICK a, b \in Nat : a = quietLine[s] /\ b = quietAt[s]
    BY CursorFacts
  <2>3. Covered(s, a, b)'
    BY <1>6, <1>10, <2>1, <2>2, CursorFacts DEF CoverInv
  <2> QED
    BY <2>1, <2>2, <2>3
<1>11. ASSUME NEW s \in Streams PROVE Covered(s, saved[s], consumed)' /\ Covered(s, read[s], Len(buffer))'
  <2>1. PICK a, b, c, d \in Nat : a = saved[s] /\ b = consumed /\ c = read[s] /\ d = Len(buffer)
    <3>1. saved[s] \in Nat /\ read[s] \in Nat
      BY CursorFacts
    <3>2. consumed \in Nat /\ Len(buffer) \in Nat
      BY DEF TypeOK
    <3> QED
      BY <3>1, <3>2
  <2>2. Covered(s, a, b)' /\ Covered(s, c, d)'
    BY <1>6, <2>1, CursorFacts DEF CoverInv
  <2>3. PICK e \in Nat : e = consumed'
    BY <1>7
  <2>4. Covered(s, a, e)'
    <3>1. b <= e
      BY <1>1, <1>4, <2>1, <2>3
    <3> QED
      BY <1>7, <2>2, <3>1, CoveredLonger
  <2> QED
    BY <1>1, <2>1, <2>2, <2>3, <2>4
<1>12. CursorsOK'
  <2>1. ASSUME NEW s \in Streams PROVE quietLine'[s] <= Len(out[s]) /\ quietAt'[s] <= Len(buffer)
    <3>1. Len(buffer) \in Nat
      BY DEF TypeOK
    <3> QED
      BY <1>8, <3>1, CursorFacts
  <2> QED
    BY <1>1, <1>9, <2>1, CursorFacts DEF CursorsOK
<1>13. BufferCovered'
  <2> SUFFICES ASSUME NEW j \in (consumed' + 1)..Len(buffer), buffer[j].stream \in Streams
               PROVE  /\ buffer[j].line <= Len(out[buffer[j].stream])
                      /\ IsLast(buffer[j]) => Covered(buffer[j].stream, buffer[j].line, j)'
    BY <1>1 DEF BufferCovered, IsLast
  <2>1. j \in (consumed + 1)..Len(buffer) /\ j \in Nat /\ j \in 1..Len(buffer)
    <3>1. consumed \in Nat /\ consumed <= consumed'
      BY <1>1, <1>4
    <3>2. Len(buffer) \in Nat /\ consumed' \in Nat
      BY <1>7 DEF TypeOK
    <3>3. \A a, b, c \in Nat : a <= b => \A k \in (b + 1)..c : k \in (a + 1)..c /\ k \in 1..c /\ k \in Nat
      OBVIOUS
    <3> QED
      BY <3>1, <3>2, <3>3
  <2>2. buffer[j].line \in Nat
    <3>1. buffer[j] \in AnyEvent
      BY <2>1 DEF TypeOK
    <3> QED
      BY <3>1 DEF AnyEvent
  <2>3. /\ buffer[j].line <= Len(out[buffer[j].stream])
        /\ IsLast(buffer[j]) => Covered(buffer[j].stream, buffer[j].line, j)
    BY <2>1 DEF CoverInv, BufferCovered
  <2> QED
    BY <1>1, <1>6, <2>1, <2>2, <2>3
<1>14. yielded' <= consumed' + 1
  BY <1>1, <1>4
<1> QED
  BY <1>9, <1>10, <1>11, <1>12, <1>13, <1>14 DEF CoverInv

\* Every step keeps the cursors covered.
THEOREM Covering == Spec => []CoverInv
<1>1. Init => CoverInv
  <2> SUFFICES ASSUME Init PROVE CoverInv
    OBVIOUS
  <2>1. /\ \A s \in Streams : out[s] = <<>> /\ base[s] = 0 /\ read[s] = 0 /\ saved[s] = 0
                              /\ safe[s] = 0 /\ quietLine[s] = 0 /\ quietAt[s] = 0
        /\ buffer = <<>> /\ yielded = 0 /\ consumed = 0
    BY DEF Init, NoLines
  <2>2. \A s \in Streams : \A n : Covered(s, 0, n)
    BY <2>1 DEF Covered
  <2>3. CursorsOK /\ BufferCovered
    BY <2>1 DEF CursorsOK, BufferCovered
  <2> QED
    BY <2>1, <2>2, <2>3 DEF CoverInv
<1>2. TypeOK /\ CoverInv /\ [Next]_vars => CoverInv'
  <2> SUFFICES ASSUME TypeOK, CoverInv, [Next]_vars PROVE CoverInv'
    OBVIOUS
  <2> USE DEF harness, db, runtime, control, history
  <2>1. ASSUME NEW s \in Streams, HarnessWrite(s) PROVE CoverInv'
    <3>1. PICK frame : out' = [out EXCEPT ![s] = Append(@, frame)]
      BY <2>1 DEF HarnessWrite
    <3>2. base' = base
      BY <2>1 DEF HarnessWrite
    <3>3. ASSUME NEW t \in Streams
          PROVE  Len(out[t]) <= Len(out'[t]) /\ \A l \in 1..Len(out[t]) : out'[t][l] = out[t][l]
      <4>1. out[t] \in Seq(Frames \cup ErrFrames) /\ Len(out[t]) \in Nat
        BY SMTT(30) DEF TypeOK
      <4>2. out'[t] = out[t] \/ out'[t] = Append(out[t], frame)
        BY <3>1 DEF TypeOK
      <4> QED
        BY <4>1, <4>2
    <3>4. OutKept
      BY <3>2, <3>3 DEF OutKept
    <3> QED
      BY <2>1, <3>4, Aside DEF HarnessWrite
  <2>2. ASSUME OutKept,
               UNCHANGED <<saved, read, buffer, yielded, consumed, safe, quietLine, quietAt, dropped>>,
               store' = store \/ \E ev : store' = Append(store, ev)
        PROVE  CoverInv'
    BY <2>2, Aside
  <2>3. out' = out /\ base' = base => OutKept
    BY CursorFacts DEF OutKept
  <2>4. CASE HarnessExit \/ KillHarness
    BY <2>2, <2>3, <2>4 DEF HarnessExit, KillHarness
  <2>5. ASSUME NEW s \in Streams, Pump(s) PROVE CoverInv'
    BY <2>5, PumpKeeps
  <2>6. CASE Finish
    BY <2>6, FinishKeeps
  <2>7. CASE Deliver
    BY <2>7, DeliverKeeps
  <2>8. CASE Commit
    BY <2>8, CommitKeeps
  <2>9. CASE CommitGivenUp \/ AttachConsumer
    BY <2>2, <2>3, <2>9 DEF CommitGivenUp, AttachConsumer
  <2>10. Reporting => store' = store \/ \E ev : store' = Append(store, ev)
    BY ReportingStep DEF Reported
  <2>11. CASE CommitFails \/ StreamEnd
    BY <2>2, <2>3, <2>10, <2>11 DEF CommitFails, StreamEnd, Reporting
  <2>12. CASE StartTurn
    BY <2>12, StartKeeps DEF StartTurn
  <2>13. CASE StopBegin \/ ShutdownBegin
    BY <2>2, <2>3, <2>13 DEF StopBegin, ShutdownBegin
  <2>14. CASE StopEnd \/ StartReported
    BY <2>2, <2>3, <2>10, <2>14 DEF StopEnd, StartReported, Reporting
  <2>15. CASE MarkInterrupted \/ RestartGivesUp
    BY <2>2, <2>3, <2>10, <2>15 DEF MarkInterrupted, RestartGivesUp, Reporting
  <2>21. CASE StartThrows
    <3>1. CASE Spawned
      BY <2>21, <3>1, StartKeeps DEF StartThrows
    <3>2. CASE UNCHANGED <<runtime, base>>
      BY <2>2, <2>3, <2>10, <2>21, <3>2 DEF StartThrows, Reporting
    <3> QED
      BY <2>21, <3>1, <3>2 DEF StartThrows
  <2>16. CASE DrainRuntime
    BY <2>2, <2>3, <2>16 DEF DrainRuntime
  <2>17. CASE Exit
    BY <2>17, ForgetKeeps DEF Exit
  <2>18. CASE Crash
    BY <2>18, ForgetKeeps DEF Crash
  <2>19. CASE Restart
    BY <2>19, RestartKeeps
  <2>20. CASE UNCHANGED vars
    BY <2>2, <2>3, <2>20 DEF vars
  <2> QED
    BY <2>1, <2>4, <2>5, <2>6, <2>7, <2>8, <2>9, <2>11, <2>12, <2>13,
       <2>14, <2>15, <2>16, <2>17, <2>18, <2>19, <2>20, <2>21 DEF Next
<1> QED
  BY <1>1, <1>2, TypeCorrect, PTL DEF Spec

\* The committed cursor never passes an event that is neither stored nor
\* discarded: what a restarted daemon reads on from loses nothing.
THEOREM NothingLost == Spec => []CursorCovered
<1>1. TypeOK /\ CoverInv => CursorCovered
  <2> SUFFICES ASSUME TypeOK, CoverInv, NEW s \in Streams,
                      NEW l \in (base[s] + 1)..saved[s], NEW i \in 1..Len(out[s][l])
               PROVE  Settled(s, l, i)
    BY DEF CursorCovered, AllSettled
  <2>1. Covered(s, saved[s], consumed)
    BY DEF CoverInv
  <2>2. consumed \in Nat
    BY DEF TypeOK
  <2>3. ~InFlight(LineEvents(s, l)[i], consumed)
    BY <2>2 DEF InFlight
  <2> QED
    BY <2>1, <2>3 DEF Covered, Done, Settled
<1> QED
  BY <1>1, TypeCorrect, Covering, PTL

\* An event read from a file is stored once, however often it is read again.
THEOREM StoredOnce == Spec => []ExactlyOnce
<1>1. Init => ExactlyOnce
  BY DEF Init, ExactlyOnce
<1>2. TypeOK /\ ExactlyOnce /\ [Next]_vars => ExactlyOnce'
  <2> SUFFICES ASSUME TypeOK, ExactlyOnce, [Next]_vars PROVE ExactlyOnce'
    OBVIOUS
  <2> USE DEF harness, db, runtime, control, history
  <2>1. CASE store' = store
    BY <2>1 DEF ExactlyOnce
  <2>2. ASSUME NEW ev, store' = Append(store, ev), ev.stream \in Streams => ~Stored(ev)
        PROVE  ExactlyOnce'
    <3> SUFFICES ASSUME NEW m \in 1..Len(store'), NEW n \in 1..Len(store'),
                        store'[m].stream \in Streams, store'[m] = store'[n]
                 PROVE  m = n
      BY DEF ExactlyOnce
    <3>1. /\ store \in Seq(AnyEvent) /\ Len(store) \in Nat /\ Len(store') = Len(store) + 1
          /\ store'[Len(store) + 1] = ev
          /\ \A k \in 1..Len(store) : store'[k] = store[k]
      BY <2>2 DEF TypeOK
    <3>2. CASE m \in 1..Len(store) /\ n \in 1..Len(store)
      BY <3>1, <3>2 DEF ExactlyOnce
    <3>3. CASE m = Len(store) + 1 /\ n \in 1..Len(store)
      BY <2>2, <3>1, <3>3 DEF Stored
    <3>4. CASE n = Len(store) + 1 /\ m \in 1..Len(store)
      BY <2>2, <3>1, <3>4 DEF Stored
    <3> QED
      BY <3>1, <3>2, <3>3, <3>4
  <2>3. ASSUME NEW origin \in Origins, NEW type \in EventTypes,
               store' = Append(store, Report(origin, type))
        PROVE  ExactlyOnce'
    BY <2>2, <2>3, ReportType
  <2>4. CASE Commit
    <3>1. CASE IsReplay(buffer[yielded])
      BY <2>1, <2>4, <3>1 DEF Commit
    <3>2. CASE ~IsReplay(buffer[yielded])
      <4>1. store' = Append(store, buffer[yielded])
        BY <2>4, <3>2 DEF Commit
      <4> QED
        BY <2>2, <3>2, <4>1 DEF IsReplay
    <3> QED
      BY <3>1, <3>2
  <2>5. CASE Reporting
    BY <2>1, <2>3, <2>5, ReportingStep DEF Reported
  <2>11. CASE \E s \in Streams : HarnessWrite(s) \/ Pump(s)
    BY <2>1, <2>11 DEF HarnessWrite, Pump
  <2>12. CASE HarnessExit \/ Finish \/ Deliver \/ CommitGivenUp \/ AttachConsumer \/ StopBegin
    BY <2>1, <2>12 DEF HarnessExit, Finish, Deliver, CommitGivenUp, AttachConsumer, StopBegin
  <2>13. CASE ShutdownBegin \/ KillHarness \/ DrainRuntime \/ Exit \/ Crash \/ Restart
    BY <2>1, <2>13 DEF ShutdownBegin, KillHarness, DrainRuntime, Exit, Crash, Restart
  <2>14. CASE UNCHANGED vars
    BY <2>1, <2>14 DEF vars
  <2> QED
    BY <2>4, <2>5, <2>11, <2>12, <2>13, <2>14 DEF Next, Reporting
<1> QED
  BY <1>1, <1>2, TypeCorrect, PTL DEF Spec
-----------------------------------------------------------------------------
(* The status and the log tell the same outcome, unless one of the two was *)
(* written alone.  A stop that reports the turn's end itself leaves the    *)
(* status as it is, so the invariant says what a stop in progress finds    *)
(* when it comes back: the row is still stopped, or a store error has      *)
(* failed it, alone or with a terminal event that is newer than the stop.  *)

StopInv ==
  stopping.active /\ daemon = "up" =>
    /\ locked /\ ~starting
    /\ stopping.events <= Len(store)
    /\ ~IsTerminal(stopping.from) =>
         \/ status = "stopped"
         \/ /\ consumer = "gone" /\ status = "failed"
            /\ split \/ (Len(store) > stopping.events /\ LastType \in Terminal)

\* A stop does not outlive the daemon that answers it.
StopForgotten == daemon = "down" => ~stopping.active

\* An event that is appended takes over the status if it is terminal, and
\* leaves it alone otherwise.
LEMMA OutcomeAppended ==
  ASSUME TypeOK, StatusMatchesLog, NEW ev \in AnyEvent, store' = Append(store, ev),
         \/ status' \notin Terminal
         \/ status' = ev.type
         \/ status' = status /\ ev.type \notin Terminal /\ split' = split
  PROVE  StatusMatchesLog'
<1> SUFFICES ASSUME status' \in Terminal, ~split'
             PROVE  \E n \in 1..Len(store') :
                      /\ store'[n].type = status'
                      /\ \A m \in (n + 1)..Len(store') : store'[m].type \notin Terminal
  BY DEF StatusMatchesLog
<1>1. /\ store \in Seq(AnyEvent) /\ Len(store) \in Nat /\ Len(store') = Len(store) + 1
      /\ store'[Len(store) + 1] = ev
      /\ \A k \in 1..Len(store) : store'[k] = store[k]
  BY DEF TypeOK
<1>2. CASE status' = ev.type
  <2>1. Len(store) + 1 \in 1..Len(store') /\ store'[Len(store) + 1].type = status'
    BY <1>1, <1>2
  <2>2. \A m \in (Len(store) + 2)..Len(store') : FALSE
    BY <1>1
  <2> QED
    BY <1>1, <2>1, <2>2
<1>3. CASE status' = status /\ ev.type \notin Terminal /\ split' = split
  <2>1. PICK n \in 1..Len(store) :
               /\ store[n].type = status
               /\ \A m \in (n + 1)..Len(store) : store[m].type \notin Terminal
    BY <1>3 DEF StatusMatchesLog
  <2>2. n \in 1..Len(store') /\ store'[n].type = status'
    BY <1>1, <1>3, <2>1
  <2>3. ASSUME NEW m \in (n + 1)..Len(store') PROVE store'[m].type \notin Terminal
    <3>1. m = Len(store) + 1 \/ m \in (n + 1)..Len(store)
      BY <1>1
    <3>2. m \in (n + 1)..Len(store) => m \in 1..Len(store)
      BY <1>1
    <3> QED
      BY <1>1, <1>3, <2>1, <3>1, <3>2
  <2> QED
    BY <2>2, <2>3
<1> QED
  BY <1>2, <1>3

\* A status that adopts the log's last event agrees with it.
LEMMA OutcomeAdopted ==
  ASSUME TypeOK, store' = store, LastType \in Terminal, status' = LastType
  PROVE  StatusMatchesLog'
<1>1. store # <<>> /\ Len(store) \in Nat
  BY DEF LastType, Terminal, TypeOK
<1>2. Len(store) \in 1..Len(store) /\ store[Len(store)].type = status'
  BY <1>1 DEF LastType, TypeOK
<1>3. \A m \in (Len(store) + 1)..Len(store) : FALSE
  BY <1>1
<1> QED
  BY <1>2, <1>3 DEF StatusMatchesLog

\* What the daemon reports itself is an event of the type it names.
LEMMA ReportedType ==
  ASSUME TypeOK, NEW origin \in Origins, NEW type \in EventTypes
  PROVE  Report(origin, type) \in AnyEvent /\ Report(origin, type).type = type
BY ReportType DEF Report

\* The status and the log agree, and a stop in progress is told the truth.
LEMMA OutcomeStep ==
  ASSUME TypeOK, StatusMatchesLog, StopInv, [Next]_vars
  PROVE  StatusMatchesLog'
<1> USE DEF db, history
<1>0. /\ "fault" \in Origins /\ "tail" \in Origins /\ "turn" \in Origins /\ "stop" \in Origins
      /\ "shutdown" \in Origins
      /\ "failed" \in EventTypes /\ "completed" \in EventTypes /\ "plain" \in EventTypes
  BY DEF Origins, EventTypes, Terminal
<1>1. CASE UNCHANGED <<store, status, split>> \/ split'
  BY <1>1 DEF StatusMatchesLog
<1>14. ASSUME NEW origin \in Origins, NEW type \in EventTypes, NEW outcome,
              BothWritten(origin, type, outcome), outcome \in {type, "interrupted"}
       PROVE  StatusMatchesLog'
  <2>1. store' = Append(store, Report(origin, type)) /\ status' = outcome
    BY <1>14 DEF BothWritten
  <2> QED
    BY <1>14, <2>1, ReportedType, OutcomeAppended DEF Terminal
<1>15. ASSUME NEW origin, NEW type, WriteRefused(origin, type) PROVE StatusMatchesLog'
  BY <1>1, <1>15 DEF WriteRefused
<1>16. ASSUME Announced PROVE StatusMatchesLog'
  <2>1. status' \notin Terminal
    BY <1>16 DEF Announced, Terminal
  <2> QED
    BY <2>1 DEF StatusMatchesLog
<1>17. ASSUME UNCHANGED store, status' \in {status, "working", "stopped"}, split' = split \/ status' # status
       PROVE  StatusMatchesLog'
  BY <1>17 DEF StatusMatchesLog, Terminal
<1>2. CASE Commit
  <2>1. buffer[yielded] \in AnyEvent
    BY <1>2 DEF Commit, TypeOK
  <2>2. CASE IsReplay(buffer[yielded])
    BY <1>1, <1>2, <2>2 DEF Commit
  <2>4. CASE split'
    BY <1>1, <2>4
  <2>3. CASE ~IsReplay(buffer[yielded]) /\ ~split'
    <3>1. store' = Append(store, buffer[yielded]) /\ status' = StatusFrom(buffer[yielded])
      BY <1>2, <2>3 DEF Commit
    <3>2. \/ status' \notin Terminal
          \/ status' = buffer[yielded].type
          \/ status' = status /\ buffer[yielded].type \notin Terminal /\ split' = split
      BY <1>2, <3>1 DEF StatusFrom, Terminal, Commit
    <3> QED
      BY <2>1, <3>1, <3>2, OutcomeAppended
  <2> QED
    BY <2>2, <2>3, <2>4
<1>3. CASE CommitFails
  <2>1. CASE CreateTells
    BY <1>1, <2>1 DEF CreateTells, RowFailed
  <2> QED
    BY <1>0, <1>3, <1>14, <1>15, <2>1 DEF CommitFails
<1>4. CASE StreamEnd
  <2>1. CASE NothingTold
    BY <1>1, <2>1 DEF NothingTold
  <2>2. CASE LastType \in Terminal /\ Adopted
    <3>1. CASE status' = LastType /\ store' = store
      BY <2>2, <3>1, OutcomeAdopted
    <3>2. CASE UNCHANGED <<store, status, split>>
      BY <1>1, <3>2
    <3> QED
      BY <2>2, <3>1, <3>2 DEF Adopted
  <2>3. CASE Tell("tail", "failed", "failed")
    BY <1>0, <1>14, <1>15, <2>3 DEF Tell
  <2>4. CASE CreateTells
    BY <1>1, <2>4 DEF CreateTells, RowFailed
  <2> QED
    BY <1>4, <2>1, <2>2, <2>3, <2>4 DEF StreamEnd
<1>5. CASE StartTurn
  BY <1>5, <1>16 DEF StartTurn
<1>13. CASE StartThrows
  <2>1. CASE Announced
    BY <1>16, <2>1
  <2>2. CASE UNCHANGED store /\ status' = "working"
    BY <2>2 DEF StatusMatchesLog, Terminal
  <2>3. CASE UNCHANGED <<store, status, split>>
    BY <1>1, <2>3
  <2> QED
    BY <1>13, <2>1, <2>2, <2>3 DEF StartThrows
<1>18. CASE StartReported
  <2>1. CASE split'
    BY <1>1, <2>1
  <2>2. CASE Tell("fault", "failed", "failed")
    BY <1>0, <1>14, <1>15, <2>2 DEF Tell
  <2>3. CASE RowFailed
    BY <2>1, <2>3 DEF RowFailed
  <2> QED
    BY <1>18, <2>2, <2>3, Zenon DEF StartReported
<1>6. CASE StopBegin
  <2>1. store' = store /\ split' = split /\ status' \in {status, "stopped"}
    BY <1>6 DEF StopBegin
  <2> QED
    BY <2>1 DEF StatusMatchesLog, Terminal
<1>7. CASE StopEnd
  <2>1. CASE UNCHANGED <<store, status, split>> \/ split'
    BY <1>1, <2>1
  <2>2. CASE LastType \in Terminal /\ status' = LastType /\ store' = store
    BY <2>2, OutcomeAdopted
  <2>3. CASE /\ daemon = "up" /\ ~IsTerminal(stopping.from) /\ UNCHANGED <<status, split>>
             /\ ~(Len(store) > stopping.events /\ LastType \in Terminal)
             /\ store' = Append(store, Report("stop", "completed"))
    <3>1. status = "stopped" \/ split
      BY <1>7, <2>3 DEF StopEnd, StopInv
    <3>2. CASE split
      BY <1>1, <2>3, <3>2
    <3>3. CASE status = "stopped"
      <4>1. status' \notin Terminal
        BY <2>3, <3>3 DEF Terminal
      <4> QED
        BY <1>0, <2>3, <4>1, ReportedType, OutcomeAppended
    <3> QED
      BY <3>1, <3>2, <3>3
  <2>4. CASE NothingTold
    BY <1>1, <2>4 DEF NothingTold
  <2> QED
    <3>1. CASE daemon # "up"
      BY <1>7, <2>4, <3>1 DEF StopEnd
    <3>2. CASE daemon = "up" /\ split' = TRUE
      BY <2>1, <3>2
    <3>3. CASE /\ daemon = "up"
               /\ IF Len(store) > stopping.events /\ LastType \in Terminal
                    THEN status' = LastType /\ split' = FALSE /\ UNCHANGED store
                    ELSE /\ UNCHANGED <<status, split>>
                         /\ store' = IF IsTerminal(stopping.from) THEN store
                                     ELSE Append(store, Report("stop", "completed"))
      BY <2>1, <2>2, <2>3, <3>3
    <3> QED
      BY <1>7, <3>1, <3>2, <3>3 DEF StopEnd
<1>8. CASE MarkInterrupted
  <2>1. CASE NothingTold
    BY <1>1, <2>1 DEF NothingTold
  <2>2. CASE Tell("shutdown", "failed", "interrupted")
    BY <1>0, <1>14, <1>15, <2>2 DEF Tell
  <2> QED
    BY <1>8, <2>1, <2>2 DEF MarkInterrupted
<1>19. CASE RestartGivesUp
  <2>1. CASE split'
    BY <1>1, <2>1
  <2>2. CASE status' = "failed" /\ store' = Append(store, Report("fault", "failed"))
    BY <1>0, <2>2, ReportedType, OutcomeAppended
  <2> QED
    BY <1>19, <2>1, <2>2, Zenon DEF RestartGivesUp
<1>9. CASE \E s \in Streams : HarnessWrite(s) \/ Pump(s)
  BY <1>1, <1>9 DEF HarnessWrite, Pump
<1>10. CASE HarnessExit \/ Finish \/ Deliver \/ CommitGivenUp \/ AttachConsumer
  BY <1>1, <1>10 DEF HarnessExit, Finish, Deliver, CommitGivenUp, AttachConsumer
<1>11. CASE ShutdownBegin \/ KillHarness \/ DrainRuntime \/ Exit \/ Crash \/ Restart
  BY <1>1, <1>11 DEF ShutdownBegin, KillHarness, DrainRuntime, Exit, Crash, Restart
<1>12. CASE UNCHANGED vars
  BY <1>1, <1>12 DEF vars
<1> QED
  BY <1>2, <1>3, <1>4, <1>5, <1>6, <1>7, <1>8, <1>9, <1>10, <1>11, <1>12, <1>13, <1>18, <1>19
     DEF Next

\* While a stop waits for its process, the row it wrote is left as it is.
LEMMA StopStep ==
  ASSUME TypeOK, StopInv, StopForgotten, [Next]_vars
  PROVE  StopInv'
<1> USE DEF harness, db, runtime, control, history
<1>0. Len(store) \in Nat /\ stopping.events \in Nat
  BY DEF TypeOK
<1>1. CASE UNCHANGED <<stopping, daemon, locked, starting, store, status, consumer, split>>
  <2>1. LastType' = LastType
    BY <1>1 DEF LastType
  <2> QED
    BY <1>1, <2>1 DEF StopInv
<1>2. CASE ~(stopping'.active /\ daemon' = "up")
  BY <1>2 DEF StopInv
<1>3. CASE Commit
  <2> SUFFICES ASSUME stopping.active, daemon = "up" PROVE StopInv'
    BY <1>2, <1>3 DEF Commit
  <2>1. Len(store') >= Len(store)
    BY <1>0, <1>3 DEF Commit, TypeOK
  <2>2. /\ UNCHANGED <<stopping, daemon, locked, starting, consumer>> /\ consumer = "running"
        /\ status = "stopped" => status' = "stopped"
    BY <1>3 DEF Commit, StatusFrom
  <2>3. Len(store') \in Nat
    BY <1>0, <1>3 DEF Commit, TypeOK
  <2>4. locked' /\ ~starting' /\ stopping'.events <= Len(store')
    <3>1. locked /\ ~starting /\ stopping.events <= Len(store)
      BY DEF StopInv
    <3>2. locked' /\ ~starting'
      BY Zenon, <2>2, <3>1
    <3> QED
      BY <1>0, <2>1, <2>2, <2>3, <3>1, <3>2
  <2>5. ~IsTerminal(stopping.from) => status' = "stopped"
    BY <2>2 DEF StopInv
  <2>6. ~IsTerminal(stopping'.from) => status' = "stopped"
    BY <2>2, <2>5
  <2> QED
    BY <2>4, <2>6 DEF StopInv
<1>4. CASE CommitFails
  <2> SUFFICES ASSUME stopping.active PROVE StopInv'
    BY <1>2, <1>4 DEF CommitFails
  <2>1. consumer' = "gone" /\ UNCHANGED <<stopping, daemon, locked, starting>> /\ daemon = "up"
        /\ consumer = "running"
    BY <1>4 DEF CommitFails
  <2>2. CASE BothWritten("fault", "failed", "failed")
    <3>1. store' = Append(store, Report("fault", "failed")) /\ status' = "failed"
      BY <2>2 DEF BothWritten
    <3>2. Len(store') = Len(store) + 1 /\ store'[Len(store) + 1].type = "failed"
      BY <1>0, <3>1 DEF TypeOK, Report
    <3>3. LastType' \in Terminal
      BY <1>0, <3>2 DEF LastType, Terminal
    <3>4. locked' /\ stopping'.events < Len(store')
      BY <1>0, <2>1, <3>2 DEF StopInv
    <3>5. ~starting'
      BY Zenon, <2>1 DEF StopInv
    <3> QED
      BY <1>0, <2>1, <3>1, <3>2, <3>3, <3>4, <3>5 DEF StopInv
  <2>3. CASE WriteRefused("fault", "failed")
    <3>1. status' = status /\ Len(store') \in Nat /\ Len(store) <= Len(store')
      BY <1>0, <2>3 DEF WriteRefused, TypeOK
    <3>2. locked /\ ~starting /\ stopping.events <= Len(store)
      BY <2>1 DEF StopInv
    <3>3. locked' /\ ~starting'
      BY Zenon, <2>1, <3>2
    <3>4. stopping'.events <= Len(store')
      BY <1>0, <2>1, <3>1, <3>2
    <3>5. ~IsTerminal(stopping'.from) => status' = "stopped"
      BY <2>1, <3>1 DEF StopInv
    <3> QED
      BY <3>3, <3>4, <3>5 DEF StopInv
  <2>4. CASE CreateTells
    <3>1. status' = "failed" /\ split' /\ store' = store
      BY <2>4 DEF CreateTells, RowFailed
    <3>2. locked /\ ~starting /\ stopping.events <= Len(store)
      BY <2>1 DEF StopInv
    <3>3. locked' /\ ~starting'
      BY Zenon, <2>1, <3>2
    <3>4. stopping'.events <= Len(store')
      BY <2>1, <3>1, <3>2
    <3> QED
      BY <2>1, <3>1, <3>3, <3>4 DEF StopInv
  <2> QED
    BY <1>4, <2>2, <2>3, <2>4 DEF CommitFails
<1>5. CASE StreamEnd
  <2> SUFFICES ASSUME stopping.active, daemon = "up" PROVE StopInv'
    BY <1>2, <1>5 DEF StreamEnd
  <2>1. UNCHANGED <<stopping, daemon, locked, starting>> /\ consumer = "running"
    BY <1>5 DEF StreamEnd, LoopReady
  <2>2. Reported
    BY <1>5, ReportingStep DEF Reporting
  <2>3. Len(store') \in Nat /\ Len(store) <= Len(store')
    BY <1>0, <2>2 DEF Reported, TypeOK
  <2>4. status = "stopped" => status' = "stopped"
    BY <1>5 DEF StreamEnd, NothingTold, IsTerminal
  <2>5. locked /\ ~starting /\ stopping.events <= Len(store)
    BY DEF StopInv
  <2>6. locked' /\ ~starting'
    BY Zenon, <2>1, <2>5
  <2>7. stopping'.events <= Len(store')
    BY <1>0, <2>1, <2>3, <2>5
  <2>8. ~IsTerminal(stopping'.from) => status' = "stopped"
    BY <2>1, <2>4 DEF StopInv
  <2> QED
    BY <2>6, <2>7, <2>8 DEF StopInv
<1>6. CASE StartTurn \/ StartThrows
  <2>1. ~locked /\ daemon = "up" /\ stopping' = stopping
    BY <1>6 DEF StartTurn, StartThrows, Startable
  <2>2. ~stopping.active
    BY <2>1 DEF StopInv
  <2> QED
    BY <1>2, <2>1, <2>2
<1>17. CASE StartReported
  <2>1. UNCHANGED <<stopping, daemon>> /\ starting
    BY <1>17 DEF StartReported
  <2>2. ~(stopping.active /\ daemon = "up")
    BY <2>1 DEF StopInv
  <2> QED
    BY <1>2, <2>1, <2>2
<1>7. CASE AttachConsumer
  <2>1. UNCHANGED <<stopping, daemon, locked, starting, store, status>> /\ consumer = "pending"
    BY <1>7 DEF AttachConsumer
  <2> QED
    BY <2>1 DEF StopInv, LastType
<1>8. CASE CommitGivenUp
  <2>1. UNCHANGED daemon /\ daemon # "up"
    BY <1>8 DEF CommitGivenUp
  <2> QED
    BY <1>2, <2>1
<1>9. CASE StopBegin
  <2>1. /\ locked' = TRUE /\ UNCHANGED <<store, starting>> /\ ~starting
        /\ stopping' = [active |-> TRUE, events |-> Len(store), from |-> status]
        /\ status' = IF IsTerminal(status) THEN status ELSE "stopped"
    BY <1>9 DEF StopBegin, Idle
  <2>2. stopping'.events = Len(store) /\ stopping'.from = status
    BY <2>1
  <2>3. ~starting'
    BY Zenon, <2>1
  <2> QED
    BY <1>0, <2>1, <2>2, <2>3 DEF StopInv
<1>10. CASE StopEnd
  <2>1. ~stopping'.active
    BY <1>10 DEF StopEnd, NoStop
  <2> QED
    BY <1>2, <2>1
<1>11. CASE Exit \/ Crash \/ ShutdownBegin \/ MarkInterrupted \/ KillHarness \/ DrainRuntime
  <2>1. daemon' # "up"
    BY <1>11 DEF Exit, Crash, ShutdownBegin, MarkInterrupted, KillHarness, DrainRuntime
  <2> QED
    BY <1>2, <2>1
<1>13. CASE \E s \in Streams : HarnessWrite(s) \/ Pump(s)
  BY <1>1, <1>13 DEF HarnessWrite, Pump
<1>14. CASE HarnessExit \/ Finish \/ Deliver
  BY <1>1, <1>14 DEF HarnessExit, Finish, Deliver
<1>15. CASE UNCHANGED vars
  BY <1>1, <1>15 DEF vars
<1>16. CASE Restart \/ RestartGivesUp
  <2>1. UNCHANGED stopping /\ ~stopping.active
    BY <1>16 DEF Restart, RestartGivesUp, StopForgotten
  <2> QED
    BY <1>2, <2>1
<1> QED
  BY <1>3, <1>4, <1>5, <1>6, <1>7, <1>8, <1>9, <1>10, <1>11, <1>13, <1>14, <1>15, <1>16, <1>17
     DEF Next

LEMMA ForgottenStep ==
  ASSUME StopForgotten, [Next]_vars
  PROVE  StopForgotten'
<1> USE DEF StopForgotten, harness, db, runtime, control, history
<1>1. CASE daemon' # "down"
  BY <1>1
<1>2. CASE daemon' = "down" /\ ~stopping'.active
  BY <1>2
<1>3. CASE daemon' = daemon /\ stopping' = stopping
  BY <1>3
<1>4. CASE \E s \in Streams : HarnessWrite(s) \/ Pump(s)
  BY <1>3, <1>4 DEF HarnessWrite, Pump
<1>5. CASE HarnessExit \/ Finish \/ Deliver \/ Commit \/ CommitGivenUp \/ CommitFails
  BY <1>3, <1>5 DEF HarnessExit, Finish, Deliver, Commit, CommitGivenUp, CommitFails
<1>6. CASE StreamEnd \/ StartTurn \/ StartThrows \/ StartReported \/ AttachConsumer
  BY <1>3, <1>6 DEF StreamEnd, StartTurn, StartThrows, StartReported, AttachConsumer
<1>7. CASE StopBegin \/ ShutdownBegin \/ MarkInterrupted \/ KillHarness \/ DrainRuntime
  BY <1>1, <1>7 DEF StopBegin, ShutdownBegin, MarkInterrupted, KillHarness, DrainRuntime
<1>10. CASE Restart \/ RestartGivesUp
  BY <1>1, <1>10 DEF Restart, RestartGivesUp
<1>8. CASE StopEnd \/ Exit \/ Crash
  <2>1. stopping' = NoStop
    BY <1>8 DEF StopEnd, Exit, Crash, ForgetAll
  <2> QED
    BY <2>1 DEF NoStop
<1>9. CASE UNCHANGED vars
  BY <1>3, <1>9 DEF vars
<1> QED
  BY <1>1, <1>2, <1>3, <1>4, <1>5, <1>6, <1>7, <1>8, <1>9, <1>10 DEF Next

\* The status that a client polls is the outcome that the last terminal event
\* of the log tells: no order of start, stop, end of stream, shutdown and
\* restart makes them differ, unless the outcome was written to one of the two
\* alone, as by a create or an attach that threw and a store that refused.
THEOREM OneOutcome == Spec => []StatusMatchesLog
<1>1. Init => StatusMatchesLog /\ StopInv /\ StopForgotten
  BY DEF Init, StatusMatchesLog, StopInv, StopForgotten, NoStop, Terminal
<1>2. TypeOK /\ StatusMatchesLog /\ StopInv /\ StopForgotten /\ [Next]_vars =>
        StatusMatchesLog' /\ StopInv' /\ StopForgotten'
  BY OutcomeStep, StopStep, ForgottenStep
<1> QED
  BY <1>1, <1>2, TypeCorrect, PTL DEF Spec

-----------------------------------------------------------------------------
(* The events of a file. *)

EventsOf(s, lines) ==
  UNION {{[stream |-> s, line |-> l, idx |-> i, of |-> Len(lines[l]), type |-> lines[l][i]] :
            i \in 1..Len(lines[l])} : l \in 1..Len(lines)}

Written(s) == EventsOf(s, out[s])

\* Of two events of one file, the one that was written first.
Before(e, f) == e.line < f.line \/ (e.line = f.line /\ e.idx < f.idx)

LEMMA EventsOfPlaces ==
  ASSUME NEW s, NEW lines, NEW e
  PROVE  e \in EventsOf(s, lines) <=>
           \E l \in 1..Len(lines) : \E i \in 1..Len(lines[l]) :
             e = [stream |-> s, line |-> l, idx |-> i, of |-> Len(lines[l]), type |-> lines[l][i]]
<1> DEFINE ev(l, i) == [stream |-> s, line |-> l, idx |-> i, of |-> Len(lines[l]), type |-> lines[l][i]]
<1> DEFINE row(l) == {ev(l, i) : i \in 1..Len(lines[l])}
<1>1. EventsOf(s, lines) = UNION {row(l) : l \in 1..Len(lines)}
  BY DEF EventsOf
<1>2. \A l : e \in row(l) <=> \E i \in 1..Len(lines[l]) : e = ev(l, i)
  OBVIOUS
<1> HIDE DEF row
<1>3. e \in EventsOf(s, lines) <=> \E l \in 1..Len(lines) : e \in row(l)
  <2>1. e \in UNION {row(l) : l \in 1..Len(lines)} <=> \E l \in 1..Len(lines) : e \in row(l)
    OBVIOUS
  <2> QED
    BY <1>1, <2>1
<1> QED
  BY <1>2, <1>3 DEF ev

\* What a written event says of its place, and what its frame says of it.
LEMMA WrittenEvent ==
  ASSUME TypeOK, NEW s \in Streams, NEW e \in Written(s)
  PROVE  /\ e \in AnyEvent /\ e.stream = s
         /\ e.line \in 1..Len(out[s]) /\ e.line \in Nat
         /\ e.idx \in 1..Len(out[s][e.line]) /\ e.idx \in Nat
         /\ e.of = Len(out[s][e.line]) /\ e.of \in Nat
         /\ e.type = out[s][e.line][e.idx]
         /\ e = LineEvents(s, e.line)[e.idx]
         /\ e.type \in Terminal => e.of <= e.idx + 1
<1>0. e \in EventsOf(s, out[s])
  BY DEF Written
<1>l. PICK l \in 1..Len(out[s]) : \E i \in 1..Len(out[s][l]) :
        e = [stream |-> s, line |-> l, idx |-> i, of |-> Len(out[s][l]), type |-> out[s][l][i]]
  BY <1>0, EventsOfPlaces
<1>1. PICK i \in 1..Len(out[s][l]) :
        e = [stream |-> s, line |-> l, idx |-> i, of |-> Len(out[s][l]), type |-> out[s][l][i]]
  BY <1>l
<1>2. /\ out[s][l] \in Seq(EventTypes)
      /\ LineEvents(s, l) \in Seq(AnyEvent) /\ Len(LineEvents(s, l)) = Len(out[s][l])
      /\ LineEvents(s, l)[i] =
           [stream |-> s, line |-> l, idx |-> i, of |-> Len(out[s][l]), type |-> out[s][l][i]]
  BY LineEventsType
<1>3. e \in AnyEvent /\ e = LineEvents(s, l)[i]
  BY <1>1, <1>2
<1>4. /\ e.stream = s /\ e.line = l /\ e.idx = i /\ e.of = Len(out[s][l])
      /\ e.type = out[s][l][i]
  BY <1>1
<1>5. l \in Nat /\ i \in Nat /\ Len(out[s][l]) \in Nat
  BY <1>2 DEF TypeOK
<1>6. out[s][l] \in Frames \cup ErrFrames
  <2>1. out[s] \in Seq(Frames \cup ErrFrames)
    BY DEF TypeOK
  <2> QED
    BY <2>1
<1>7. e.type \in Terminal => e.of <= e.idx + 1
  BY <1>4, <1>6, VerdictAssumption
<1> QED
  BY <1>3, <1>4, <1>5, <1>7

\* And every place in a file has its event.
LEMMA WrittenAt ==
  ASSUME TypeOK, NEW s \in Streams, NEW l \in 1..Len(out[s]), NEW i \in 1..Len(out[s][l])
  PROVE  /\ LineEvents(s, l)[i] \in Written(s)
         /\ LineEvents(s, l)[i].line = l /\ LineEvents(s, l)[i].idx = i
         /\ LineEvents(s, l)[i].of = Len(out[s][l])
         /\ LineEvents(s, l)[i].type = out[s][l][i]
<1>1. LineEvents(s, l)[i] =
        [stream |-> s, line |-> l, idx |-> i, of |-> Len(out[s][l]), type |-> out[s][l][i]]
  BY LineEventsType
<1>2. LineEvents(s, l)[i] \in Written(s)
  BY <1>1, EventsOfPlaces DEF Written
<1> QED
  BY <1>1, <1>2

\* The place tells the event.
LEMMA WrittenOnce ==
  ASSUME TypeOK, NEW s \in Streams, NEW e \in Written(s), NEW f \in Written(s),
         e.line = f.line, e.idx = f.idx
  PROVE  e = f
<1>1. e = LineEvents(s, e.line)[e.idx] /\ f = LineEvents(s, f.line)[f.idx]
  BY WrittenEvent
<1> QED
  BY <1>1

\* A file that grows keeps its events; the new ones are on new lines.
LEMMA WrittenGrows ==
  ASSUME TypeOK, TypeOK', NEW s \in Streams,
         Len(out[s]) <= Len(out'[s]), \A l \in 1..Len(out[s]) : out'[s][l] = out[s][l]
  PROVE  /\ Written(s) \subseteq Written(s)'
         /\ \A e \in Written(s)' : e.line <= Len(out[s]) => e \in Written(s)
<1>1. Len(out[s]) \in Nat /\ Len(out'[s]) \in Nat
  <2>1. out[s] \in Seq(Frames \cup ErrFrames) /\ out'[s] \in Seq(Frames \cup ErrFrames)
    BY DEF TypeOK
  <2> QED
    BY <2>1
<1>2. ASSUME NEW e \in EventsOf(s, out[s]) PROVE e \in EventsOf(s, out'[s])
  <2>l. PICK l \in 1..Len(out[s]) : \E i \in 1..Len(out[s][l]) :
          e = [stream |-> s, line |-> l, idx |-> i, of |-> Len(out[s][l]), type |-> out[s][l][i]]
    BY EventsOfPlaces
  <2>1. PICK i \in 1..Len(out[s][l]) :
          e = [stream |-> s, line |-> l, idx |-> i, of |-> Len(out[s][l]), type |-> out[s][l][i]]
    BY <2>l
  <2>2. l \in 1..Len(out'[s]) /\ out'[s][l] = out[s][l]
    BY <1>1
  <2> QED
    BY <2>1, <2>2, EventsOfPlaces
<1>3. ASSUME NEW e \in EventsOf(s, out'[s]), e.line <= Len(out[s]) PROVE e \in EventsOf(s, out[s])
  <2>l. PICK l \in 1..Len(out'[s]) : \E i \in 1..Len(out'[s][l]) :
          e = [stream |-> s, line |-> l, idx |-> i, of |-> Len(out'[s][l]), type |-> out'[s][l][i]]
    BY EventsOfPlaces
  <2>1. PICK i \in 1..Len(out'[s][l]) :
          e = [stream |-> s, line |-> l, idx |-> i, of |-> Len(out'[s][l]), type |-> out'[s][l][i]]
    BY <2>l
  <2>2. l \in 1..Len(out[s]) /\ out'[s][l] = out[s][l]
    BY <1>1, <1>3, <2>1
  <2> QED
    BY <2>1, <2>2, EventsOfPlaces
<1> QED
  BY <1>2, <1>3 DEF Written
-----------------------------------------------------------------------------
(* The inductive invariant.                                                *)

\* Only what was written is buffered and stored.
EventsReal ==
  /\ \A j \in 1..Len(buffer) :
       buffer[j].stream \in Streams => buffer[j] \in Written(buffer[j].stream)
  /\ \A n \in 1..Len(store) :
       store[n].stream \in Streams => store[n] \in Written(store[n].stream)

\* Without a runtime there is no buffer, and none is left of a dead daemon.
Cleared ==
  /\ daemon = "down" => rt = "none"
  /\ rt = "none" => /\ buffer = <<>>
                    /\ \A s \in Streams : read[s] = 0 /\ safe[s] = 0 /\ quietLine[s] = 0

\* The buffer holds the events of a file in their order, and lines as a whole.
BufferOrder ==
  /\ \A j \in 1..Len(buffer) : \A k \in 1..Len(buffer) :
       k < j /\ buffer[k].stream \in Streams /\ buffer[j].stream = buffer[k].stream =>
         Before(buffer[k], buffer[j])
  /\ \A j \in 1..Len(buffer) : buffer[j].stream \in Streams /\ ~IsLast(buffer[j]) =>
       /\ j + 1 \in 1..Len(buffer) /\ buffer[j + 1].stream = buffer[j].stream
       /\ buffer[j + 1].line = buffer[j].line /\ buffer[j + 1].idx = buffer[j].idx + 1

\* The cursors follow each other, and what is to come is beyond them.
CursorOrder ==
  \A s \in Streams :
    /\ rt # "none" => saved[s] <= safe[s]
    /\ safe[s] <= read[s] /\ quietLine[s] <= read[s]
    /\ \A j \in 1..Len(buffer) : buffer[j].stream = s =>
         /\ buffer[j].line <= read[s]
         /\ j > consumed => buffer[j].line > saved[s]
         /\ j > yielded => buffer[j].line > safe[s]
         /\ quietLine[s] # 0 /\ j > quietAt[s] => buffer[j].line > quietLine[s]

\* An event that was overtaken in the log is on a line the cursor has passed:
\* no runtime will read it again.
LogOrder ==
  \A s \in Streams : \A e \in Written(s) : \A f \in Written(s) :
    Before(e, f) /\ Stored(f) /\ ~Stored(e) => e.line <= saved[s]

\* By the time that the n-th event of the buffer is handed out, the cursor
\* will have passed the line.
Passing(s, line, n) ==
  \/ line <= safe[s]
  \/ \E k \in (yielded + 1)..n : buffer[k].stream = s /\ line <= buffer[k].line /\ IsLast(buffer[k])

\* What has become of an event that was read: it is stored, or among the first
\* j of the buffer, or it was discarded and its line is about to be passed.
Behind(s, e, j, n) ==
  \/ Stored(e)
  \/ InFlight(e, j)
  \/ Passing(s, e.line, n) /\ (e.line > base[s] => e \in dropped)

AllBehind ==
  \A s \in Streams : \A e \in Written(s) :
    /\ e.line <= read[s] => Behind(s, e, Len(buffer), Len(buffer))
    /\ \A j \in (consumed + 1)..Len(buffer) :
         buffer[j].stream = s /\ Before(e, buffer[j]) => Behind(s, e, j - 1, j)

OrderInv ==
  /\ EventsReal /\ Cleared /\ BufferOrder /\ CursorOrder /\ LogOrder /\ AllBehind

\* A report of the daemon stores nothing that was read from a file.
LEMMA StoredSame ==
  ASSUME TypeOK, store' = store \/ \E ev : ev.stream \notin Streams /\ store' = Append(store, ev)
  PROVE  \A e : e.stream \in Streams => (Stored(e)' <=> Stored(e))
<1>1. CASE store' = store
  BY <1>1 DEF Stored
<1>2. ASSUME NEW ev, ev.stream \notin Streams, store' = Append(store, ev),
             NEW e, e.stream \in Streams
      PROVE  Stored(e)' <=> Stored(e)
  <2>1. /\ Len(store) \in Nat /\ Len(store') = Len(store) + 1 /\ store'[Len(store) + 1] = ev
        /\ \A k \in 1..Len(store) : store'[k] = store[k]
    BY <1>2 DEF TypeOK
  <2>2. ev # e
    BY <1>2
  <2> QED
    BY <2>1, <2>2 DEF Stored
<1> QED
  BY <1>1, <1>2

\* What is on the log or on its way stays there while the files grow and the
\* daemon reports things of its own.
LEMMA OrderAside ==
  ASSUME TypeOK, TypeOK', CoverInv, OrderInv, OutKept,
         UNCHANGED <<saved, read, buffer, yielded, consumed, safe, quietLine, quietAt, dropped>>,
         daemon' = "down" => daemon = "down", rt' = "none" <=> rt = "none",
         store' = store \/ \E ev : ev.stream \notin Streams /\ store' = Append(store, ev)
  PROVE  OrderInv'
<1>1. ASSUME NEW s \in Streams
      PROVE  /\ Written(s) \subseteq Written(s)'
             /\ \A e \in Written(s)' : e.line <= Len(out[s]) => e \in Written(s)
  BY WrittenGrows DEF OutKept
<1>2. \A e : e.stream \in Streams => (Stored(e)' <=> Stored(e))
  BY StoredSame
<1>3. ASSUME NEW s \in Streams, NEW e \in Written(s)' PROVE e.stream = s /\ e.line \in Nat
  <2>1. \E l \in 1..Len(out'[s]) : \E i \in 1..Len(out'[s][l]) :
          e = [stream |-> s, line |-> l, idx |-> i, of |-> Len(out'[s][l]), type |-> out'[s][l][i]]
    BY EventsOfPlaces DEF Written
  <2> QED
    BY <2>1
<1>4. base' = base
  BY DEF OutKept
<1>5. EventsReal'
  <2>1. \A j \in 1..Len(buffer') : buffer'[j].stream \in Streams => buffer'[j] \in Written(buffer[j].stream)'
    BY <1>1 DEF OrderInv, EventsReal
  <2>2. ASSUME NEW n \in 1..Len(store'), store'[n].stream \in Streams
        PROVE  store'[n] \in Written(store[n].stream)'
    <3>1. Stored(store'[n])
      BY <1>2, <2>2 DEF Stored
    <3>2. PICK m \in 1..Len(store) : store[m] = store'[n]
      BY <3>1 DEF Stored
    <3>3. store[m] \in Written(store[m].stream)
      BY <2>2, <3>2 DEF OrderInv, EventsReal
    <3> QED
      BY <1>1, <2>2, <3>2, <3>3
  <2> QED
    BY <2>1, <2>2 DEF EventsReal
<1>6. Cleared' /\ BufferOrder' /\ CursorOrder'
  <2>1. Cleared'
    BY DEF OrderInv, Cleared
  <2>2. BufferOrder'
    BY DEF OrderInv, BufferOrder, Before, IsLast
  <2>3. CursorOrder'
    BY DEF OrderInv, CursorOrder
  <2> QED
    BY <2>1, <2>2, <2>3
<1>7. LogOrder'
  <2> SUFFICES ASSUME NEW s \in Streams, NEW e \in Written(s)', NEW f \in Written(s)',
                      Before(e, f), Stored(f)', ~Stored(e)'
               PROVE  e.line <= saved[s]
    BY DEF LogOrder, Before
  <2>1. Stored(f) /\ ~Stored(e)
    BY <1>2, <1>3
  <2>2. f \in Written(s)
    BY <1>3, <2>1 DEF OrderInv, EventsReal, Stored
  <2>3. e.line <= f.line /\ f.line <= Len(out[s]) /\ Len(out[s]) \in Nat
    <3>1. f.line \in 1..Len(out[s]) /\ Len(out[s]) \in Nat
      BY <2>2, WrittenEvent, CursorFacts
    <3> QED
      BY <1>3, <3>1 DEF Before
  <2>4. e \in Written(s)
    BY <1>1, <1>3, <2>2, <2>3, WrittenEvent
  <2> QED
    BY <2>1, <2>2, <2>4 DEF OrderInv, LogOrder
<1>8. AllBehind'
  <2>1. ASSUME NEW s \in Streams, NEW e \in Written(s), NEW j, NEW n, Behind(s, e, j, n)
        PROVE  Behind(s, e, j, n)'
    <3>1. e.stream = s
      BY WrittenEvent
    <3>2. Stored(e) => Stored(e)'
      BY <1>2, <3>1
    <3>3. InFlight(e, j) => InFlight(e, j)'
      BY DEF InFlight
    <3>4. Passing(s, e.line, n) => Passing(s, e.line, n)'
      BY DEF Passing, IsLast
    <3> QED
      BY <1>4, <2>1, <3>2, <3>3, <3>4 DEF Behind
  <2> SUFFICES ASSUME NEW s \in Streams, NEW e \in Written(s)'
               PROVE  /\ e.line <= read[s] => Behind(s, e, Len(buffer), Len(buffer))'
                      /\ \A j \in (consumed + 1)..Len(buffer) :
                           buffer[j].stream = s /\ Before(e, buffer[j]) => Behind(s, e, j - 1, j)'
    BY DEF AllBehind, Before
  <2>2. ASSUME e.line <= read[s] PROVE e \in Written(s)
    <3>1. e.line <= Len(out[s])
      BY <1>3, <2>2, CursorFacts
    <3> QED
      BY <1>1, <3>1
  <2>3. e.line <= read[s] => Behind(s, e, Len(buffer), Len(buffer))'
    BY <2>1, <2>2 DEF OrderInv, AllBehind
  <2>4. ASSUME NEW j \in (consumed + 1)..Len(buffer), buffer[j].stream = s, Before(e, buffer[j])
        PROVE  Behind(s, e, j - 1, j)'
    <3>1. j \in 1..Len(buffer)
      BY DEF TypeOK
    <3>2. buffer[j].line \in Nat /\ buffer[j].line <= read[s] /\ read[s] \in Nat
      <4>1. buffer[j] \in AnyEvent
        BY <3>1, SMTT(30) DEF TypeOK
      <4>2. buffer[j].line \in Nat
        BY <4>1 DEF AnyEvent
      <4> QED
        BY <2>4, <3>1, <4>2, CursorFacts DEF OrderInv, CursorOrder
    <3>3. e.line <= read[s]
      BY <1>3, <2>4, <3>2 DEF Before
    <3> QED
      BY <2>1, <2>2, <2>4, <3>3 DEF OrderInv, AllBehind
  <2> QED
    BY <2>3, <2>4
<1> QED
  BY <1>5, <1>6, <1>7, <1>8 DEF OrderInv

\* Reading on: more of the buffer, and cursors that have only moved forward.
LEMMA BehindLater ==
  ASSUME TypeOK, NEW s \in Streams, NEW e \in Written(s),
         NEW j \in 0..Len(buffer), NEW n \in 0..Len(buffer), NEW i \in Nat, NEW m \in Nat,
         j <= i, n <= m, Behind(s, e, j, n),
         UNCHANGED <<store, consumed, yielded, base, dropped>>,
         \A k \in 1..Len(buffer) : buffer'[k] = buffer[k],
         safe[s] <= safe'[s], safe'[s] \in Nat
  PROVE  Behind(s, e, i, m)'
<1>1. /\ Len(buffer) \in Nat /\ consumed \in Nat /\ yielded \in Nat /\ safe[s] \in Nat
      /\ j \in Nat /\ n \in Nat
  BY DEF TypeOK
<1>2. CASE Stored(e)
  BY <1>2 DEF Behind, Stored
<1>3. CASE InFlight(e, j)
  <2>1. PICK k \in (consumed + 1)..j : buffer[k] = e
    BY <1>3 DEF InFlight
  <2>2. k \in 1..Len(buffer) /\ k \in (consumed' + 1)..i
    BY <1>1, <2>1
  <2> QED
    BY <2>1, <2>2 DEF Behind, InFlight
<1>4. CASE Passing(s, e.line, n) /\ (e.line > base[s] => e \in dropped)
  <2>1. CASE e.line <= safe[s]
    <3>1. e.line \in Nat
      BY WrittenEvent
    <3>2. e.line <= safe'[s]
      BY <1>1, <2>1, <3>1
    <3> QED
      BY <1>4, <3>2 DEF Behind, Passing
  <2>2. ASSUME NEW k \in (yielded + 1)..n, buffer[k].stream = s, e.line <= buffer[k].line, IsLast(buffer[k])
        PROVE  Behind(s, e, i, m)'
    <3>1. k \in 1..Len(buffer) /\ k \in (yielded' + 1)..m
      BY <1>1
    <3>2. Passing(s, e.line, m)'
      BY <2>2, <3>1 DEF Passing, IsLast
    <3> QED
      BY <1>4, <3>2 DEF Behind
  <2> QED
    BY <1>4, <2>1, <2>2 DEF Passing
<1> QED
  BY <1>2, <1>3, <1>4 DEF Behind

\* The numbers that the order of the buffer is about.
LEMMA BufferEvent ==
  ASSUME TypeOK, EventsReal, NEW j \in 1..Len(buffer), NEW s \in Streams, buffer[j].stream = s
  PROVE  /\ buffer[j] \in Written(s)
         /\ buffer[j].line \in Nat /\ buffer[j].idx \in Nat /\ buffer[j].of \in Nat
         /\ buffer[j].idx <= buffer[j].of /\ buffer[j].line >= 1
<1>1. buffer[j] \in Written(s)
  BY DEF EventsReal
<1>2. PICK e \in Written(s) : e = buffer[j]
  BY <1>1
<1>3. /\ e.line \in Nat /\ e.line >= 1 /\ e.idx \in 1..Len(out[s][e.line]) /\ e.of = Len(out[s][e.line])
      /\ e.idx \in Nat /\ e.of \in Nat
  BY WrittenEvent
<1>4. e.idx <= e.of
  BY <1>3
<1> QED
  BY <1>1, <1>2, <1>3, <1>4

\* The report of a dead process goes to the end of the buffer.
LEMMA OrderFinish ==
  ASSUME TypeOK, TypeOK', CoverInv, OrderInv, Finish PROVE OrderInv'
<1> USE DEF harness, db, control, history
<1>1. /\ UNCHANGED <<out, store, saved, read, yielded, consumed, safe, quietLine, quietAt, base,
                     dropped, daemon>>
      /\ rt = "live" /\ rt' = "done" /\ daemon # "down"
  BY DEF Finish, Running
<1>2. Len(buffer) \in Nat /\ consumed \in Nat /\ yielded \in Nat
  BY DEF TypeOK
<1>3. PICK extra \in 0..1 :
        /\ Len(buffer') = Len(buffer) + extra
        /\ \A k \in 1..Len(buffer) : buffer'[k] = buffer[k]
        /\ \A k \in 1..Len(buffer') : k > Len(buffer) => buffer'[k].stream \notin Streams
  <2>1. CASE buffer' = buffer
    BY <1>2, <2>1
  <2>2. ASSUME NEW type \in SynthesizedTypes, buffer' = Append(buffer, Report("exit", type))
        PROVE  /\ Len(buffer') = Len(buffer) + 1
               /\ \A k \in 1..Len(buffer) : buffer'[k] = buffer[k]
               /\ \A k \in 1..Len(buffer') : k > Len(buffer) => buffer'[k].stream \notin Streams
    <3>1. type \in EventTypes
      BY DEF SynthesizedTypes, EventTypes, Terminal
    <3>2. Report("exit", type).stream \notin Streams
      BY <3>1, ReportType DEF Origins
    <3>3. /\ Len(buffer') = Len(buffer) + 1
          /\ \A k \in 1..Len(buffer) : buffer'[k] = buffer[k]
          /\ buffer'[Len(buffer) + 1] = Report("exit", type)
      BY <1>2, <2>2 DEF TypeOK
    <3>4. \A k \in 1..Len(buffer') : k > Len(buffer) => k = Len(buffer) + 1
      BY <1>2, <3>3
    <3> QED
      BY <3>2, <3>3, <3>4
  <2> QED
    BY <2>1, <2>2 DEF Finish
<1>4. \A k \in 1..Len(buffer') : buffer'[k].stream \in Streams => k \in 1..Len(buffer) /\ buffer'[k] = buffer[k]
  BY <1>2, <1>3
<1>5. \A s : Written(s)' = Written(s)
  BY <1>1 DEF Written
<1>6. EventsReal'
  BY <1>1, <1>4, <1>5 DEF OrderInv, EventsReal
<1>7. Cleared'
  BY <1>1 DEF Cleared
<1>8. BufferOrder'
  <2>1. ASSUME NEW j \in 1..Len(buffer'), NEW k \in 1..Len(buffer'),
               k < j, buffer'[k].stream \in Streams, buffer'[j].stream = buffer'[k].stream
        PROVE  Before(buffer[k], buffer[j])'
    BY <1>4, <2>1 DEF OrderInv, BufferOrder, Before
  <2>2. ASSUME NEW j \in 1..Len(buffer'), buffer'[j].stream \in Streams, ~IsLast(buffer'[j])
        PROVE  /\ j + 1 \in 1..Len(buffer') /\ buffer'[j + 1].stream = buffer'[j].stream
               /\ buffer'[j + 1].line = buffer'[j].line /\ buffer'[j + 1].idx = buffer'[j].idx + 1
    <3>1. j \in 1..Len(buffer) /\ buffer'[j] = buffer[j]
      BY <1>4, <2>2
    <3>2. j + 1 \in 1..Len(buffer)
      BY <2>2, <3>1 DEF OrderInv, BufferOrder
    <3>3. buffer'[j + 1] = buffer[j + 1] /\ j + 1 \in 1..Len(buffer')
      BY <1>2, <1>3, <3>2
    <3> QED
      BY <2>2, <3>1, <3>3 DEF OrderInv, BufferOrder
  <2> QED
    BY <2>1, <2>2 DEF BufferOrder, IsLast
<1>9. CursorOrder'
  BY <1>1, <1>4 DEF OrderInv, CursorOrder
<1>10. LogOrder'
  BY <1>1, <1>5 DEF OrderInv, LogOrder, Stored, Before
<1>11. AllBehind'
  <2> SUFFICES ASSUME NEW s \in Streams, NEW e \in Written(s)
               PROVE  /\ e.line <= read[s] => Behind(s, e, Len(buffer), Len(buffer))'
                      /\ \A j \in (consumed + 1)..Len(buffer') :
                           buffer'[j].stream = s /\ Before(e, buffer'[j]) => Behind(s, e, j - 1, j)'
    BY <1>1, <1>5 DEF AllBehind, Before
  <2>0. safe[s] <= safe'[s] /\ safe'[s] \in Nat /\ Len(buffer) \in 0..Len(buffer)
    BY <1>1, <1>2, CursorFacts
  <2>1. ASSUME e.line <= read[s] PROVE Behind(s, e, Len(buffer), Len(buffer))'
    <3>1. Behind(s, e, Len(buffer), Len(buffer))
      BY <2>1 DEF OrderInv, AllBehind
    <3>2. PICK m \in Nat : m = Len(buffer') /\ Len(buffer) <= m
      BY <1>2, <1>3
    <3>3. Behind(s, e, m, m)'
      BY <1>1, <1>3, <2>0, <3>1, <3>2, BehindLater
    <3> QED
      BY <3>2, <3>3
  <2>2. ASSUME NEW j \in (consumed + 1)..Len(buffer'), buffer'[j].stream = s, Before(e, buffer'[j])
        PROVE  Behind(s, e, j - 1, j)'
    <3>1. j \in 1..Len(buffer') /\ j \in Nat
      BY <1>2
    <3>2. j \in 1..Len(buffer) /\ buffer'[j] = buffer[j]
      BY <1>4, <2>2, <3>1
    <3>3. Behind(s, e, j - 1, j)
      BY <1>2, <2>2, <3>2 DEF OrderInv, AllBehind
    <3>4. j \in 0..Len(buffer) /\ j - 1 \in 0..Len(buffer) /\ j - 1 \in Nat
      BY <1>2, <3>2
    <3> QED
      BY <1>1, <1>3, <2>0, <3>1, <3>3, <3>4, BehindLater
  <2> QED
    BY <2>1, <2>2
<1> QED
  BY <1>6, <1>7, <1>8, <1>9, <1>10, <1>11 DEF OrderInv

\* The events of the next line go to the end of the buffer together.
LEMMA OrderPump ==
  ASSUME TypeOK, TypeOK', CoverInv, OrderInv, NEW s \in Streams, Pump(s)
  PROVE  OrderInv'
<1> USE DEF harness, db, control, history
<1>1. PICK n \in Nat : n = read[s] + 1
  BY CursorFacts
<1>2. PICK len \in Nat : len = Len(buffer)
  BY DEF TypeOK
<1>3. n \in 1..Len(out[s])
  <2>1. read[s] < Len(out[s])
    BY DEF Pump
  <2> QED
    BY <1>1, <2>1, CursorFacts
<1> DEFINE evs == LineEvents(s, n)
<1>4. PICK size \in Nat : size = Len(evs)
  <2>1. evs \in Seq(AnyEvent)
    BY <1>3, LineEventsType
  <2> HIDE DEF evs
  <2> QED
    BY <2>1
<1>5. /\ UNCHANGED <<out, store, saved, yielded, consumed, base, dropped, daemon, rt>>
      /\ rt = "live" /\ daemon # "down"
      /\ buffer' = buffer \o evs
      /\ read' = [read EXCEPT ![s] = n]
  BY <1>1 DEF Pump, Running
<1>6. /\ evs \in Seq(AnyEvent)
      /\ \A i \in 1..size : /\ evs[i] \in Written(s)
                            /\ evs[i].stream = s /\ evs[i].line = n /\ evs[i].idx = i /\ evs[i].of = size
      /\ \A e \in Written(s) : e.line = n => e.idx \in 1..size /\ e = evs[e.idx]
  <2>1. evs \in Seq(AnyEvent) /\ Len(evs) = Len(out[s][n])
    BY <1>3, LineEventsType
  <2>2. \A i \in 1..Len(out[s][n]) :
          /\ evs[i] \in Written(s) /\ evs[i].line = n /\ evs[i].idx = i /\ evs[i].of = Len(out[s][n])
    BY <1>3, WrittenAt
  <2>3. \A e \in Written(s) : e.line = n => e.idx \in 1..Len(out[s][n]) /\ e = evs[e.idx]
    BY WrittenEvent
  <2> HIDE DEF evs
  <2>4. \A i \in 1..Len(out[s][n]) : evs[i].stream = s
    BY <2>2, WrittenEvent
  <2> QED
    BY <1>4, <2>1, <2>2, <2>3, <2>4
<1> HIDE DEF evs
<1>7. /\ Len(buffer') = len + size
      /\ \A k \in 1..len : buffer'[k] = buffer[k]
      /\ \A i \in 1..size : buffer'[len + i] = evs[i]
  BY <1>2, <1>4, <1>5, <1>6 DEF TypeOK
<1>8. ASSUME NEW k \in 1..Len(buffer')
      PROVE  \/ k \in 1..len /\ buffer'[k] = buffer[k]
             \/ /\ k - len \in 1..size /\ k > len /\ buffer'[k] = evs[k - len]
                /\ buffer'[k].stream = s /\ buffer'[k].line = n
                /\ buffer'[k].idx = k - len /\ buffer'[k].of = size
  <2>1. CASE k <= len
    BY <1>7, <2>1
  <2>2. CASE k > len
    <3>1. k - len \in 1..size /\ len + (k - len) = k
      BY <1>7, <2>2
    <3>2. buffer'[k] = evs[k - len]
      BY <1>7, <3>1
    <3> QED
      BY <1>6, <2>2, <3>1, <3>2
  <2> QED
    BY <2>1, <2>2
<1>9. /\ consumed \in 0..len /\ yielded \in 0..len /\ consumed <= yielded
      /\ \A t \in Streams : /\ read'[t] = (IF t = s THEN n ELSE read[t])
                            /\ read[t] \in Nat /\ saved[t] \in Nat /\ safe[t] \in Nat
                            /\ quietLine[t] \in Nat /\ quietAt[t] \in Nat
                            /\ saved[t] <= safe[t] /\ safe[t] <= read[t] /\ quietLine[t] <= read[t]
  <2>1. consumed \in 0..len /\ yielded \in 0..len /\ consumed <= yielded
    BY <1>2 DEF TypeOK
  <2>2. \A t \in Streams : read'[t] = IF t = s THEN n ELSE read[t]
    BY <1>5 DEF TypeOK
  <2> QED
    BY <1>5, <2>1, <2>2, CursorFacts DEF OrderInv, CursorOrder
\* What the pump does with the cursors.
<1>10. \/ /\ UNCHANGED <<safe, quietLine, quietAt>>
       \/ /\ size = 0 /\ len <= yielded
          /\ \A t \in Streams : /\ safe'[t] = (IF t = s THEN Later(safe[s], n) ELSE safe[t])
                                /\ quietLine'[t] = (IF t = s THEN 0 ELSE quietLine[t])
                                /\ quietAt'[t] = (IF t = s THEN 0 ELSE quietAt[t])
       \/ /\ size = 0 /\ UNCHANGED safe
          /\ \A t \in Streams : /\ quietLine'[t] = (IF t = s THEN n ELSE quietLine[t])
                                /\ quietAt'[t] = (IF t = s THEN len ELSE quietAt[t])
  <2>1. CASE evs # <<>>
    BY <1>1, <2>1 DEF Pump, evs
  <2>2. CASE evs = <<>> /\ Len(buffer) <= yielded
    <3>1. /\ safe' = [safe EXCEPT ![s] = Later(@, n)]
          /\ quietLine' = [quietLine EXCEPT ![s] = 0]
          /\ quietAt' = [quietAt EXCEPT ![s] = 0]
      BY <1>1, <2>2 DEF Pump, evs
    <3> QED
      BY <1>2, <1>4, <2>2, <3>1 DEF TypeOK
  <2>3. CASE evs = <<>> /\ ~(Len(buffer) <= yielded)
    <3>1. /\ quietLine' = [quietLine EXCEPT ![s] = n]
          /\ quietAt' = [quietAt EXCEPT ![s] = Len(buffer)]
          /\ UNCHANGED safe
      BY <1>1, <2>3 DEF Pump, evs
    <3> QED
      BY <1>2, <1>4, <2>3, <3>1 DEF TypeOK
  <2> QED
    BY <2>1, <2>2, <2>3
<1>11. ASSUME NEW t \in Streams
       PROVE  /\ safe[t] <= safe'[t] /\ safe'[t] \in Nat
              /\ safe'[t] <= read'[t] /\ quietLine'[t] <= read'[t]
              /\ safe'[t] = safe[t] \/ (size = 0 /\ len <= yielded)
              /\ \/ quietLine'[t] = 0
                 \/ quietLine'[t] = quietLine[t] /\ quietAt'[t] = quietAt[t]
                 \/ size = 0 /\ quietAt'[t] = len
  BY <1>1, <1>9, <1>10 DEF Later
<1>12. \A t : Written(t)' = Written(t)
  BY <1>5 DEF Written
<1>13. EventsReal'
  <2>1. ASSUME NEW k \in 1..Len(buffer'), buffer'[k].stream \in Streams
        PROVE  buffer'[k] \in Written(buffer'[k].stream)
    BY <1>2, <1>6, <1>8, <2>1 DEF OrderInv, EventsReal
  <2> QED
    BY <1>5, <1>12, <2>1 DEF OrderInv, EventsReal
<1>14. Cleared'
  BY <1>5 DEF Cleared
<1>15. BufferOrder'
  <2>1. ASSUME NEW j \in 1..Len(buffer'), NEW k \in 1..Len(buffer'),
               k < j, buffer'[k].stream \in Streams, buffer'[j].stream = buffer'[k].stream
        PROVE  Before(buffer'[k], buffer'[j])
    <3>1. CASE j \in 1..len
      <4>1. k \in 1..len /\ buffer'[k] = buffer[k] /\ buffer'[j] = buffer[j]
        BY <1>7, <2>1, <3>1
      <4> QED
        BY <1>2, <2>1, <3>1, <4>1 DEF OrderInv, BufferOrder
    <3>2. CASE j \notin 1..len
      <4>1. buffer'[j].stream = s /\ buffer'[j].line = n /\ buffer'[j].idx = j - len
        BY <1>8, <3>2
      <4>2. CASE k \in 1..len
        <5>1. buffer'[k] = buffer[k] /\ buffer[k].line <= read[s] /\ buffer[k].line \in Nat
          <6>1. buffer'[k] = buffer[k]
            BY <1>7, <4>2
          <6> QED
            BY <1>2, <2>1, <4>1, <4>2, <6>1, BufferEvent DEF OrderInv, CursorOrder
        <5> QED
          BY <1>1, <1>9, <4>1, <5>1 DEF Before
      <4>3. CASE k \notin 1..len
        <5>1. buffer'[k].line = n /\ buffer'[k].idx = k - len
          BY <1>8, <4>3
        <5> QED
          BY <2>1, <4>1, <5>1 DEF Before
      <4> QED
        BY <4>2, <4>3
    <3> QED
      BY <3>1, <3>2
  <2>2. ASSUME NEW j \in 1..Len(buffer'), buffer'[j].stream \in Streams, buffer'[j].idx # buffer'[j].of
        PROVE  /\ j + 1 \in 1..Len(buffer') /\ buffer'[j + 1].stream = buffer'[j].stream
               /\ buffer'[j + 1].line = buffer'[j].line /\ buffer'[j + 1].idx = buffer'[j].idx + 1
    <3>1. CASE j \in 1..len
      <4>1. buffer'[j] = buffer[j]
        BY <1>7, <3>1
      <4>2. /\ j + 1 \in 1..len /\ buffer[j + 1].stream = buffer[j].stream
            /\ buffer[j + 1].line = buffer[j].line /\ buffer[j + 1].idx = buffer[j].idx + 1
        BY <1>2, <2>2, <3>1, <4>1 DEF OrderInv, BufferOrder, IsLast
      <4>3. buffer'[j + 1] = buffer[j + 1] /\ j + 1 \in 1..Len(buffer')
        BY <1>7, <4>2
      <4> QED
        BY <4>1, <4>2, <4>3
    <3>2. CASE j \notin 1..len
      <4>1. /\ buffer'[j].stream = s /\ buffer'[j].line = n /\ buffer'[j].idx = j - len
            /\ buffer'[j].of = size /\ j > len /\ j - len \in 1..size
        BY <1>8, <3>2
      <4>2. j + 1 \in 1..Len(buffer') /\ j + 1 \notin 1..len
        BY <1>7, <2>2, <4>1
      <4>3. /\ buffer'[j + 1].stream = s /\ buffer'[j + 1].line = n
            /\ buffer'[j + 1].idx = (j + 1) - len
        BY <1>8, <4>2
      <4> QED
        BY <4>1, <4>2, <4>3
    <3> QED
      BY <3>1, <3>2
  <2> QED
    BY <2>1, <2>2 DEF BufferOrder, Before, IsLast
<1>16. CursorOrder'
  <2> SUFFICES ASSUME NEW t \in Streams, NEW j \in 1..Len(buffer'), buffer'[j].stream = t
               PROVE  /\ buffer'[j].line <= read'[t]
                      /\ j > consumed => buffer'[j].line > saved[t]
                      /\ j > yielded => buffer'[j].line > safe'[t]
                      /\ quietLine'[t] # 0 /\ j > quietAt'[t] => buffer'[j].line > quietLine'[t]
    <3>1. ASSUME NEW t \in Streams PROVE saved'[t] <= safe'[t]
      BY <1>5, <1>9, <1>11
    <3> QED
      BY <1>5, <1>11, <3>1 DEF CursorOrder
  <2>1. CASE j \in 1..len
    <3>1. buffer'[j] = buffer[j]
      BY <1>7, <2>1
    <3>2. /\ buffer[j].line <= read[t] /\ buffer[j].line \in Nat
          /\ j > consumed => buffer[j].line > saved[t]
          /\ j > yielded => buffer[j].line > safe[t]
          /\ quietLine[t] # 0 /\ j > quietAt[t] => buffer[j].line > quietLine[t]
      BY <1>2, <2>1, <3>1, BufferEvent DEF OrderInv, CursorOrder
    <3>3. read[t] <= read'[t]
      BY <1>1, <1>9
    <3>4. j > yielded => safe'[t] = safe[t]
      BY <1>9, <1>11, <2>1
    <3>5. quietLine'[t] # 0 /\ j > quietAt'[t] => quietLine'[t] = quietLine[t] /\ quietAt'[t] = quietAt[t]
      BY <1>11, <2>1
    <3>6. read'[t] \in Nat
      BY <1>9
    <3> QED
      BY <1>9, <3>1, <3>2, <3>3, <3>4, <3>5, <3>6
  <2>2. CASE j \notin 1..len
    <3>1. buffer'[j].line = n /\ t = s /\ size # 0
      BY <1>8, <2>2
    <3>2. safe'[s] = safe[s]
      BY <1>11, <3>1
    <3>3. quietLine'[s] = 0 \/ quietLine'[s] = quietLine[s]
      BY <1>11, <3>1
    <3> QED
      BY <1>1, <1>9, <3>1, <3>2, <3>3
  <2> QED
    BY <2>1, <2>2
<1>17. LogOrder'
  BY <1>5, <1>12 DEF OrderInv, LogOrder, Stored, Before
<1>18. AllBehind'
  <2> SUFFICES ASSUME NEW t \in Streams, NEW e \in Written(t)
               PROVE  /\ e.line <= read'[t] => Behind(t, e, Len(buffer), Len(buffer))'
                      /\ \A j \in (consumed + 1)..Len(buffer') :
                           buffer'[j].stream = t /\ Before(e, buffer'[j]) => Behind(t, e, j - 1, j)'
    BY <1>5, <1>12 DEF AllBehind, Before
  <2>1. PICK m \in Nat : m = Len(buffer') /\ m = len + size
    BY <1>7
  \* What was read before is behind every later point.
  <2>2. ASSUME NEW i \in Nat, NEW k \in Nat, len <= i, len <= k, e.line <= read[t]
        PROVE  Behind(t, e, i, k)'
    <3>1. Behind(t, e, len, len)
      BY <1>2, <2>2 DEF OrderInv, AllBehind
    <3>2. len \in 0..Len(buffer) /\ \A q \in 1..Len(buffer) : buffer'[q] = buffer[q]
      BY <1>2, <1>7
    <3> QED
      BY <1>5, <1>11, <2>2, <3>1, <3>2, BehindLater
  \* What is on the line itself is in the buffer.
  <2>3. ASSUME t = s, e.line = n, NEW i \in Nat, NEW k \in Nat, len + e.idx <= i
        PROVE  Behind(t, e, i, k)'
    <3>1. e.idx \in 1..size /\ e = evs[e.idx]
      BY <1>6, <2>3
    <3>2. buffer'[len + e.idx] = e
      BY <1>7, <3>1
    <3>3. len + e.idx \in (consumed' + 1)..i
      BY <1>5, <1>9, <2>3, <3>1
    <3> QED
      BY <3>2, <3>3 DEF Behind, InFlight
  <2>4. e.line \in Nat /\ e.idx \in Nat
    BY WrittenEvent
  <2>5. ASSUME e.line <= read'[t] PROVE Behind(t, e, Len(buffer), Len(buffer))'
    <3>1. CASE e.line <= read[t]
      BY <2>1, <2>2, <3>1
    <3>2. CASE ~(e.line <= read[t])
      <4>1. t = s /\ e.line = n
        BY <1>1, <1>9, <2>4, <2>5, <3>2
      <4>2. e.idx \in 1..size
        BY <1>6, <4>1
      <4> QED
        BY <2>1, <2>3, <4>1, <4>2
    <3> QED
      BY <3>1, <3>2
  <2>6. ASSUME NEW j \in (consumed + 1)..Len(buffer'), buffer'[j].stream = t, Before(e, buffer'[j])
        PROVE  Behind(t, e, j - 1, j)'
    <3>1. j \in 1..Len(buffer') /\ j \in Nat
      BY <1>9, <2>1
    <3>2. CASE j \in 1..len
      <4>1. buffer'[j] = buffer[j] /\ j \in (consumed + 1)..Len(buffer)
        BY <1>2, <1>7, <3>2
      <4>2. Behind(t, e, j - 1, j)
        BY <2>6, <4>1 DEF OrderInv, AllBehind
      <4>3. j - 1 \in 0..Len(buffer) /\ j \in 0..Len(buffer) /\ j - 1 \in Nat
            /\ \A q \in 1..Len(buffer) : buffer'[q] = buffer[q]
        BY <1>2, <1>7, <3>2
      <4> QED
        BY <1>5, <1>11, <3>1, <4>2, <4>3, BehindLater
    <3>3. CASE j \notin 1..len
      <4>1. t = s /\ buffer'[j].line = n /\ buffer'[j].idx = j - len /\ j > len
        BY <1>8, <2>6, <3>1, <3>3
      <4>2. CASE e.line < n
        <5>1. e.line <= read[t] /\ j - 1 \in Nat /\ len <= j - 1 /\ len <= j
          BY <1>1, <1>9, <2>4, <3>1, <4>1, <4>2
        <5> QED
          BY <2>2, <3>1, <5>1
      <4>3. CASE e.line = n /\ e.idx < j - len
        <5>1. j - 1 \in Nat /\ len + e.idx <= j - 1
          BY <2>4, <3>1, <4>1, <4>3
        <5> QED
          BY <2>3, <3>1, <4>1, <4>3, <5>1
      <4> QED
        BY <2>6, <4>1, <4>2, <4>3 DEF Before
    <3> QED
      BY <3>2, <3>3
  <2> QED
    BY <2>5, <2>6
<1> QED
  BY <1>13, <1>14, <1>15, <1>16, <1>17, <1>18 DEF OrderInv

\* Handing an event out moves the cursor up to it.  A terminal event that is
\* discarded on the way is at most one short of the end of its line, so the
\* next event handed out, if any of the line is left, moves the cursor past it.
LEMMA OrderDeliver ==
  ASSUME TypeOK, TypeOK', CoverInv, OrderInv, Deliver
  PROVE  OrderInv'
<1> USE DEF harness, db, control
<1>1. PICK y \in Nat : y = yielded + 1
  BY DEF TypeOK
<1>2. /\ UNCHANGED <<out, store, saved, read, buffer, base, daemon, rt>>
      /\ yielded' = y /\ consumed = yielded /\ y \in 1..Len(buffer) /\ Len(buffer) \in Nat
      /\ rt # "none"
  <2>1. /\ UNCHANGED <<out, store, saved, read, buffer, base, daemon, rt>>
        /\ yielded' = y /\ consumed = yielded /\ yielded < Len(buffer)
    BY <1>1 DEF Deliver, LoopReady
  <2>2. Len(buffer) \in Nat /\ yielded \in Nat
    BY DEF TypeOK
  <2>3. rt = "none" => Len(buffer) = 0
    BY DEF OrderInv, Cleared
  <2> QED
    BY <1>1, <2>1, <2>2, <2>3
<1> DEFINE ev == buffer[y]
<1>3. ev \in AnyEvent
  BY <1>2 DEF TypeOK
<1>4. \/ /\ ~Discarded(ev) /\ UNCHANGED <<consumed, dropped>>
      \/ /\ Discarded(ev) /\ consumed' = y
         /\ dropped' = IF ev.stream \in Streams THEN dropped \cup {ev} ELSE dropped
  BY <1>1 DEF Deliver
\* What happens to the cursors of each file.
<1>5. ASSUME NEW s \in Streams
      PROVE  /\ safe[s] \in Nat /\ safe'[s] \in Nat /\ safe[s] <= safe'[s]
             /\ ev.stream = s /\ IsLast(ev) => ev.line <= safe'[s]
             /\ \/ safe'[s] = safe[s]
                \/ ev.stream = s /\ IsLast(ev) /\ safe'[s] = ev.line
                \/ quietLine[s] # 0 /\ quietAt[s] <= y /\ safe'[s] = quietLine[s]
             /\ quietLine'[s] = 0 \/ (quietLine'[s] = quietLine[s] /\ quietAt'[s] = quietAt[s])
  <2> DEFINE passed == quietLine[s] # 0 /\ quietAt[s] <= y
  <2>1. /\ safe'[s] = Later(Later(safe[s], IF ev.stream = s /\ IsLast(ev) THEN ev.line ELSE 0),
                            IF passed THEN quietLine[s] ELSE 0)
        /\ quietLine'[s] = IF passed THEN 0 ELSE quietLine[s]
        /\ quietAt'[s] = IF passed THEN 0 ELSE quietAt[s]
    BY <1>1 DEF Deliver, EventCursor
  <2>2. safe[s] \in Nat /\ quietLine[s] \in Nat /\ ev.line \in Nat
    BY <1>3, CursorFacts DEF AnyEvent
  <2> HIDE DEF passed
  <2>3. /\ safe'[s] \in Nat /\ safe[s] <= safe'[s]
        /\ ev.stream = s /\ IsLast(ev) => ev.line <= safe'[s]
        /\ \/ safe'[s] = safe[s]
           \/ ev.stream = s /\ IsLast(ev) /\ safe'[s] = ev.line
           \/ passed /\ safe'[s] = quietLine[s]
    BY <2>1, <2>2 DEF Later
  <2> QED
    BY <2>1, <2>2, <2>3 DEF passed
<1>6. \A s : Written(s)' = Written(s)
  BY <1>2 DEF Written
<1>7. EventsReal' /\ Cleared' /\ BufferOrder' /\ LogOrder'
  <2>1. EventsReal'
    BY <1>2, <1>6 DEF OrderInv, EventsReal
  <2>2. Cleared'
    BY <1>2 DEF OrderInv, Cleared
  <2>3. BufferOrder'
    BY <1>2 DEF OrderInv, BufferOrder, Before, IsLast
  <2>4. LogOrder'
    BY <1>2, <1>6 DEF OrderInv, LogOrder, Stored, Before
  <2> QED
    BY <2>1, <2>2, <2>3, <2>4
<1>8. CursorOrder'
  <2>1. ASSUME NEW s \in Streams
        PROVE  saved[s] <= safe'[s] /\ safe'[s] <= read[s] /\ quietLine'[s] <= read[s]
    <3>1. /\ saved[s] <= safe[s] /\ safe[s] <= read[s] /\ quietLine[s] <= read[s]
          /\ saved[s] \in Nat /\ read[s] \in Nat /\ quietLine[s] \in Nat
          /\ ev.stream = s => ev.line <= read[s]
      BY <1>2, CursorFacts DEF OrderInv, CursorOrder
    <3> QED
      BY <1>5, <3>1
  <2>2. ASSUME NEW s \in Streams, NEW j \in 1..Len(buffer), buffer[j].stream = s
        PROVE  /\ buffer[j].line <= read[s]
               /\ j > consumed' => buffer[j].line > saved[s]
               /\ j > y => buffer[j].line > safe'[s]
               /\ quietLine'[s] # 0 /\ j > quietAt'[s] => buffer[j].line > quietLine'[s]
    <3>1. /\ buffer[j].line <= read[s] /\ buffer[j].line \in Nat /\ buffer[j].idx \in Nat
          /\ buffer[j].of \in Nat /\ buffer[j].idx <= buffer[j].of
          /\ j > consumed => buffer[j].line > saved[s]
          /\ j > yielded => buffer[j].line > safe[s]
          /\ quietLine[s] # 0 /\ j > quietAt[s] => buffer[j].line > quietLine[s]
      BY <2>2, BufferEvent DEF OrderInv, CursorOrder
    <3>2. consumed' >= consumed /\ yielded \in Nat /\ consumed' \in Nat /\ quietAt[s] \in Nat
      BY <1>1, <1>2, <1>4, CursorFacts DEF TypeOK
    <3>3. ASSUME j > y PROVE buffer[j].line > safe'[s]
      <4>1. CASE safe'[s] = safe[s]
        BY <1>1, <3>1, <3>2, <3>3, <4>1
      <4>2. CASE ev.stream = s /\ IsLast(ev) /\ safe'[s] = ev.line
        <5>1. Before(ev, buffer[j])
          BY <1>2, <2>2, <3>3, <4>2 DEF OrderInv, BufferOrder
        <5>2. ev.line = buffer[j].line => ev.of = buffer[j].of
          <6>1. PICK e \in Written(s), f \in Written(s) : e = ev /\ f = buffer[j]
            BY <1>2, <2>2, <4>2, BufferEvent DEF OrderInv
          <6>2. e.of = Len(out[s][e.line]) /\ f.of = Len(out[s][f.line])
            BY WrittenEvent
          <6> QED
            BY <6>1, <6>2
        <5>3. ev.line \in Nat /\ ev.idx = ev.of
          BY <1>3, <4>2 DEF AnyEvent, IsLast
        <5> QED
          BY <3>1, <4>2, <5>1, <5>2, <5>3 DEF Before
      <4>3. CASE quietLine[s] # 0 /\ quietAt[s] <= y /\ safe'[s] = quietLine[s]
        BY <3>1, <3>2, <3>3, <4>3
      <4> QED
        BY <1>5, <4>1, <4>2, <4>3
    <3>4. quietLine'[s] # 0 => quietLine'[s] = quietLine[s] /\ quietAt'[s] = quietAt[s]
      BY <1>5
    <3>5. j > consumed' => j > consumed
      BY <1>2, <3>2
    <3> QED
      BY <3>1, <3>3, <3>4, <3>5
  <2> QED
    BY <1>2, <2>1, <2>2 DEF CursorOrder
<1>9. ASSUME NEW s \in Streams, NEW e \in Written(s), NEW j \in 0..Len(buffer), NEW n \in 0..Len(buffer),
             Behind(s, e, j, n),
             Discarded(ev) /\ ev = e /\ ~IsLast(ev) => y + 1 <= n
      PROVE  Behind(s, e, j, n)'
  <2>0. /\ e.line \in Nat /\ e.stream = s /\ j \in Nat /\ n \in Nat /\ dropped \subseteq dropped'
        /\ e.type \in Terminal => e.of <= e.idx + 1
    BY <1>4, WrittenEvent
  <2>1. CASE Stored(e)
    BY <1>2, <2>1 DEF Behind, Stored
  <2>2. CASE Passing(s, e.line, n) /\ (e.line > base[s] => e \in dropped)
    <3>1. CASE e.line <= safe[s]
      BY <1>2, <1>5, <2>0, <2>2, <3>1 DEF Behind, Passing
    <3>2. ASSUME NEW k \in (yielded + 1)..n, buffer[k].stream = s, e.line <= buffer[k].line, IsLast(buffer[k])
          PROVE  Behind(s, e, j, n)'
      <4>1. CASE k = y
        <5>1. e.line <= ev.line /\ ev.line <= safe'[s] /\ ev.line \in Nat
          BY <1>3, <1>5, <3>2, <4>1 DEF AnyEvent
        <5>2. e.line <= safe'[s]
          BY <1>5, <2>0, <5>1
        <5> QED
          BY <1>2, <2>0, <2>2, <5>2 DEF Behind, Passing
      <4>2. CASE k # y
        <5>1. k \in (yielded' + 1)..n
          BY <1>1, <1>2, <2>0, <4>2
        <5>2. Passing(s, e.line, n)'
          BY <1>2, <3>2, <5>1 DEF Passing, IsLast
        <5> QED
          BY <1>2, <2>0, <2>2, <5>2 DEF Behind
      <4> QED
        BY <4>1, <4>2
    <3> QED
      BY <2>2, <3>1, <3>2 DEF Passing
  <2>3. CASE InFlight(e, j)
    <3>1. PICK k \in (consumed + 1)..j : buffer[k] = e
      BY <2>3 DEF InFlight
    <3>2. CASE k \in (consumed' + 1)..j
      BY <1>2, <3>1, <3>2 DEF Behind, InFlight
    <3>3. CASE k \notin (consumed' + 1)..j
      <4>1. Discarded(ev) /\ k = y /\ e = ev /\ e \in dropped'
        <5>1. consumed' # consumed
          BY <3>3
        <5>2. Discarded(ev) /\ consumed' = y /\ dropped' = IF ev.stream \in Streams THEN dropped \cup {ev} ELSE dropped
          BY <1>4, <5>1
        <5>3. k = y
          BY <1>1, <1>2, <2>0, <3>1, <3>3, <5>2
        <5> QED
          BY <2>0, <3>1, <5>2, <5>3
      <4>2. Passing(s, e.line, n)'
        <5>1. CASE IsLast(ev)
          BY <1>5, <2>0, <4>1, <5>1 DEF Passing
        <5>2. CASE ~IsLast(ev)
          <6>1. /\ y + 1 \in 1..Len(buffer) /\ buffer[y + 1].stream = s
                /\ buffer[y + 1].line = e.line /\ buffer[y + 1].idx = e.idx + 1
            BY <1>2, <2>0, <4>1, <5>2 DEF OrderInv, BufferOrder
          <6>2. PICK z \in Nat : z = y + 1
            BY <1>1
          <6>3. z \in 1..Len(buffer) /\ buffer[z].stream = s /\ buffer[z].line = e.line /\ buffer[z].idx = e.idx + 1
            BY <6>1, <6>2
          <6>4. IsLast(buffer[z])
            <7>1. PICK f \in Written(s) : f = buffer[z]
              BY <6>3, BufferEvent DEF OrderInv
            <7>2. /\ f.of = Len(out[s][f.line]) /\ e.of = Len(out[s][e.line])
                  /\ f.idx \in 1..Len(out[s][f.line])
              BY WrittenEvent
            <7>3. e.type \in Terminal
              BY <4>1 DEF Discarded
            <7>4. f.idx = f.of
              <8>1. f.of = e.of /\ f.idx = e.idx + 1 /\ f.idx <= f.of /\ e.of <= e.idx + 1
                BY <2>0, <6>3, <7>1, <7>2, <7>3
              <8>2. e.of \in Nat /\ e.idx \in Nat
                BY WrittenEvent
              <8> QED
                BY <8>1, <8>2
            <7> QED
              BY <7>1, <7>4 DEF IsLast
          <6>5. z \in (yielded' + 1)..n
            BY <1>2, <1>9, <2>0, <4>1, <5>2, <6>2
          <6>6. e.line <= buffer[z].line
            BY <2>0, <6>3
          <6> QED
            BY <1>2, <6>3, <6>4, <6>5, <6>6 DEF Passing, IsLast
        <5> QED
          BY <5>1, <5>2
      <4> QED
        BY <4>1, <4>2 DEF Behind
    <3> QED
      BY <3>2, <3>3
  <2> QED
    BY <1>9, <2>1, <2>2, <2>3 DEF Behind
<1>10. AllBehind'
  <2> SUFFICES ASSUME NEW s \in Streams, NEW e \in Written(s)
               PROVE  /\ e.line <= read[s] => Behind(s, e, Len(buffer), Len(buffer))'
                      /\ \A j \in (consumed' + 1)..Len(buffer) :
                           buffer[j].stream = s /\ Before(e, buffer[j]) => Behind(s, e, j - 1, j)'
    BY <1>2, <1>6 DEF AllBehind, Before
  <2>1. PICK m \in Nat : m = Len(buffer)
    BY <1>2
  <2>2. ASSUME e.line <= read[s] PROVE Behind(s, e, m, m)'
    <3>1. Behind(s, e, m, m) /\ m \in 0..Len(buffer)
      BY <2>1, <2>2 DEF OrderInv, AllBehind
    <3>2. ev = e /\ ~IsLast(ev) => y + 1 <= m
      <4>1. e.stream = s
        BY WrittenEvent
      <4> QED
        BY <1>2, <2>1, <4>1 DEF OrderInv, BufferOrder
    <3> QED
      BY <1>9, <3>1, <3>2
  <2>3. ASSUME NEW j \in (consumed' + 1)..Len(buffer), buffer[j].stream = s, Before(e, buffer[j])
        PROVE  Behind(s, e, j - 1, j)'
    <3>1. /\ j \in (consumed + 1)..Len(buffer) /\ j - 1 \in 0..Len(buffer) /\ j \in 0..Len(buffer)
          /\ Discarded(ev) => y + 1 <= j
      <4>1. consumed \in Nat /\ consumed' \in Nat /\ consumed <= consumed'
        BY <1>1, <1>2, <1>4 DEF TypeOK
      <4>2. j \in (consumed + 1)..Len(buffer) /\ j \in Nat /\ j >= 1
        <5>1. \A a, b, c \in Nat : a <= b => \A k \in (b + 1)..c : k \in (a + 1)..c /\ k \in Nat /\ k >= 1
          OBVIOUS
        <5>2. Len(buffer) \in Nat
          BY <1>2
        <5> QED
          BY <4>1, <5>1, <5>2
      <4>3. Discarded(ev) => j \in (y + 1)..Len(buffer)
        BY <1>4
      <4>4. Discarded(ev) => y + 1 <= j
        BY <1>1, <1>2, <4>2, <4>3
      <4> QED
        BY <1>2, <4>1, <4>2, <4>4
    <3>2. \A k \in (consumed + 1)..Len(buffer) :
            buffer[k].stream = s /\ Before(e, buffer[k]) => Behind(s, e, k - 1, k)
      BY DEF OrderInv, AllBehind
    <3>3. Behind(s, e, j - 1, j)
      BY <2>3, <3>1, <3>2
    <3> QED
      BY <1>9, <3>1, <3>3
  <2> QED
    BY <1>2, <2>1, <2>2, <2>3
<1> QED
  BY <1>7, <1>8, <1>10 DEF OrderInv

\* What a transaction stores is next in its file: nothing that follows it is
\* stored, and what precedes it was stored, or discarded and passed.
LEMMA InHand ==
  ASSUME TypeOK, CoverInv, OrderInv, consumed < yielded, buffer[yielded].stream \in Streams
  PROVE  /\ buffer[yielded] \in Written(buffer[yielded].stream)
         /\ buffer[yielded].line > saved[buffer[yielded].stream]
         /\ \A e \in Written(buffer[yielded].stream) : Before(e, buffer[yielded]) =>
              \/ Stored(e)
              \/ /\ e.line <= safe[buffer[yielded].stream]
                 /\ e.line > base[buffer[yielded].stream] => e \in dropped
<1>1. /\ consumed \in Nat /\ yielded \in Nat /\ Len(buffer) \in Nat /\ yielded <= Len(buffer)
      /\ yielded <= consumed + 1
  BY DEF TypeOK, CoverInv
<1>2. PICK y \in Nat : y = yielded /\ consumed = y - 1 /\ y \in (consumed + 1)..Len(buffer) /\ y \in 1..Len(buffer)
  BY <1>1
<1>3. PICK s \in Streams : s = buffer[y].stream
  BY <1>2
<1>4. buffer[y] \in Written(s)
  BY <1>2, <1>3, BufferEvent DEF OrderInv
<1>5. buffer[y].line > saved[s]
  <2>1. y > consumed
    BY <1>1, <1>2
  <2> QED
    BY <1>2, <1>3, <2>1 DEF OrderInv, CursorOrder
<1>6. ASSUME NEW e \in Written(s), Before(e, buffer[y])
      PROVE  \/ Stored(e)
             \/ e.line <= safe[s] /\ (e.line > base[s] => e \in dropped)
  <2>1. Behind(s, e, y - 1, y)
    BY <1>2, <1>3, <1>6 DEF OrderInv, AllBehind
  <2>2. ~InFlight(e, y - 1)
    <3>1. (consumed + 1)..(y - 1) = {}
      BY <1>1, <1>2
    <3> QED
      BY <3>1 DEF InFlight
  <2>3. Passing(s, e.line, y) => e.line <= safe[s]
    <3>1. (yielded + 1)..y = {}
      BY <1>1, <1>2
    <3> QED
      BY <3>1 DEF Passing
  <2> QED
    BY <2>1, <2>2, <2>3 DEF Behind
<1> QED
  BY <1>2, <1>3, <1>4, <1>5, <1>6

LEMMA OrderCommit ==
  ASSUME TypeOK, TypeOK', CoverInv, OrderInv, Commit
  PROVE  OrderInv'
<1> USE DEF harness, control, history
<1>1. /\ UNCHANGED <<out, read, buffer, yielded, safe, quietLine, quietAt, base, dropped, daemon, rt>>
      /\ saved' = safe /\ consumed' = yielded /\ consumed < yielded
  BY DEF Commit
<1>2. /\ consumed \in Nat /\ yielded \in Nat /\ Len(buffer) \in Nat /\ yielded <= Len(buffer)
      /\ yielded <= consumed + 1 /\ yielded \in 1..Len(buffer)
  <2>1. /\ consumed \in Nat /\ yielded \in Nat /\ Len(buffer) \in Nat /\ yielded <= Len(buffer)
        /\ yielded <= consumed + 1
    BY DEF TypeOK, CoverInv
  <2> QED
    BY <1>1, <2>1
<1>3. PICK ev \in AnyEvent : ev = buffer[yielded]
  <2>1. buffer[yielded] \in AnyEvent
    BY <1>2 DEF TypeOK
  <2> QED
    BY <2>1
<1>4. store' = IF IsReplay(ev) THEN store ELSE Append(store, ev)
  BY <1>3 DEF Commit
<1>5. \A e : Stored(e) => Stored(e)'
  <2>1. store' = store \/ \E f : store' = Append(store, f)
    BY <1>4
  <2> QED
    BY <2>1, StoredKept
<1>6. ev.stream \in Streams => Stored(ev)'
  <2>1. CASE IsReplay(ev)
    BY <1>5, <2>1 DEF IsReplay
  <2>2. CASE ~IsReplay(ev)
    <3>1. store' = Append(store, ev)
      BY <1>4, <2>2
    <3>2. Len(store) \in Nat /\ Len(store') = Len(store) + 1 /\ store'[Len(store) + 1] = ev
      BY <3>1 DEF TypeOK
    <3>3. Len(store) + 1 \in 1..Len(store')
      BY <3>2
    <3> QED
      BY <3>2, <3>3 DEF Stored
  <2> QED
    BY <2>1, <2>2
<1>7. \A e : Stored(e)' => Stored(e) \/ e = ev
  <2>1. CASE store' = store
    BY <2>1 DEF Stored
  <2>2. CASE store' = Append(store, ev)
    <3>1. /\ Len(store) \in Nat /\ Len(store') = Len(store) + 1 /\ store'[Len(store) + 1] = ev
          /\ \A k \in 1..Len(store) : store'[k] = store[k]
      BY <2>2 DEF TypeOK
    <3>2. \A k \in 1..Len(store') : k = Len(store) + 1 \/ k \in 1..Len(store)
      BY <3>1
    <3> QED
      BY <3>1, <3>2 DEF Stored
  <2> QED
    BY <1>4, <2>1, <2>2
<1>8. \A s : Written(s)' = Written(s)
  BY <1>1 DEF Written
<1>9. rt # "none"
  <2>1. rt = "none" => Len(buffer) = 0
    BY DEF OrderInv, Cleared
  <2> QED
    BY <1>2, <2>1
<1>10. EventsReal'
  <2>1. ASSUME NEW n \in 1..Len(store'), store'[n].stream \in Streams
        PROVE  store'[n] \in Written(store'[n].stream)
    <3>1. PICK f \in AnyEvent : f = store'[n]
      BY DEF TypeOK
    <3>2. Stored(f)'
      BY <3>1 DEF Stored
    <3>3. CASE Stored(f)
      BY <2>1, <3>1, <3>3 DEF OrderInv, EventsReal, Stored
    <3>4. CASE f = ev
      BY <1>1, <1>3, <2>1, <3>1, <3>4, InHand
    <3> QED
      BY <1>7, <3>2, <3>3, <3>4
  <2> QED
    BY <1>1, <1>8, <2>1 DEF OrderInv, EventsReal
<1>11. Cleared' /\ BufferOrder'
  <2>1. Cleared'
    BY <1>1 DEF OrderInv, Cleared
  <2>2. BufferOrder'
    BY <1>1 DEF OrderInv, BufferOrder, Before, IsLast
  <2> QED
    BY <2>1, <2>2
<1>12. CursorOrder'
  BY <1>1, <1>2, <1>9, CursorFacts DEF OrderInv, CursorOrder
<1>13. LogOrder'
  <2> SUFFICES ASSUME NEW s \in Streams, NEW e \in Written(s), NEW f \in Written(s),
                      Before(e, f), Stored(f)', ~Stored(e)'
               PROVE  e.line <= safe[s]
    BY <1>1, <1>8 DEF LogOrder, Before
  <2>1. ~Stored(e)
    BY <1>5
  <2>2. CASE Stored(f)
    <3>1. e.line <= saved[s]
      BY <2>1, <2>2 DEF OrderInv, LogOrder
    <3>2. saved[s] <= safe[s]
      BY <1>9 DEF OrderInv, CursorOrder
    <3>3. e.line \in Nat /\ saved[s] \in Nat /\ safe[s] \in Nat
      BY WrittenEvent, CursorFacts
    <3> QED
      BY <3>1, <3>2, <3>3
  <2>3. CASE f = ev
    <3>1. ev.stream = s
      BY <2>3, WrittenEvent
    <3> QED
      BY <1>1, <1>3, <2>1, <2>3, <3>1, InHand
  <2> QED
    BY <1>7, <2>2, <2>3
<1>14. ASSUME NEW s \in Streams, NEW e \in Written(s), NEW j \in Nat, NEW n \in Nat, Behind(s, e, j, n)
       PROVE  Behind(s, e, j, n)'
  <2>1. CASE Stored(e)
    BY <1>5, <2>1 DEF Behind
  <2>2. CASE InFlight(e, j)
    <3>1. PICK k \in (consumed + 1)..j : buffer[k] = e
      BY <2>2 DEF InFlight
    <3>2. CASE k = yielded
      <4>1. e = ev /\ ev.stream \in Streams
        BY <1>3, <3>1, <3>2, WrittenEvent
      <4> QED
        BY <1>6, <4>1 DEF Behind
    <3>3. CASE k # yielded
      <4>1. k \in (consumed' + 1)..j
        BY <1>1, <1>2, <3>3
      <4> QED
        BY <1>1, <3>1, <4>1 DEF Behind, InFlight
    <3> QED
      BY <3>2, <3>3
  <2>3. CASE Passing(s, e.line, n) /\ (e.line > base[s] => e \in dropped)
    BY <1>1, <2>3 DEF Behind, Passing, IsLast
  <2> QED
    BY <1>14, <2>1, <2>2, <2>3 DEF Behind
<1>15. AllBehind'
  <2> SUFFICES ASSUME NEW s \in Streams, NEW e \in Written(s)
               PROVE  /\ e.line <= read[s] => Behind(s, e, Len(buffer), Len(buffer))'
                      /\ \A j \in (yielded + 1)..Len(buffer) :
                           buffer[j].stream = s /\ Before(e, buffer[j]) => Behind(s, e, j - 1, j)'
    BY <1>1, <1>8 DEF AllBehind, Before
  <2>1. PICK m \in Nat : m = Len(buffer)
    BY <1>2
  <2>2. ASSUME e.line <= read[s] PROVE Behind(s, e, m, m)'
    <3>1. Behind(s, e, m, m)
      BY <2>1, <2>2 DEF OrderInv, AllBehind
    <3> QED
      BY <1>14, <3>1
  <2>3. ASSUME NEW j \in (yielded + 1)..Len(buffer), buffer[j].stream = s, Before(e, buffer[j])
        PROVE  Behind(s, e, j - 1, j)'
    <3>1. j \in (consumed + 1)..Len(buffer) /\ j - 1 \in Nat /\ j \in Nat
      BY <1>1, <1>2
    <3>2. Behind(s, e, j - 1, j)
      BY <2>3, <3>1 DEF OrderInv, AllBehind
    <3> QED
      BY <1>14, <3>1, <3>2
  <2> QED
    BY <1>1, <2>1, <2>2, <2>3
<1> QED
  BY <1>10, <1>11, <1>12, <1>13, <1>15 DEF OrderInv

\* With an empty buffer the order is a matter of the cursors alone.
LEMMA OrderEmpty ==
  ASSUME TypeOK, TypeOK', CoverInv, OrderInv, out' = out, saved' = saved, buffer' = <<>>,
         store' = store \/ \E ev : ev.stream \notin Streams /\ store' = Append(store, ev),
         Cleared',
         \A s \in Streams : /\ rt' # "none" => saved[s] <= safe'[s]
                            /\ safe'[s] <= read'[s] /\ quietLine'[s] <= read'[s],
         \A s \in Streams : \A e \in Written(s) : e.line <= read'[s] =>
            Stored(e)' \/ (e.line <= safe'[s] /\ (e.line > base'[s] => e \in dropped'))
  PROVE  OrderInv'
<1>1. \A s : Written(s)' = Written(s)
  BY DEF Written
<1>2. \A e : e.stream \in Streams => (Stored(e)' <=> Stored(e))
  BY StoredSame
<1>3. Len(buffer') = 0
  OBVIOUS
<1>4. EventsReal'
  <2>1. ASSUME NEW n \in 1..Len(store'), store'[n].stream \in Streams
        PROVE  store'[n] \in Written(store'[n].stream)
    <3>1. Stored(store'[n])
      BY <1>2, <2>1 DEF Stored
    <3> QED
      BY <2>1, <3>1 DEF OrderInv, EventsReal, Stored
  <2> QED
    BY <1>1, <1>3, <2>1 DEF EventsReal
<1>5. BufferOrder'
  BY <1>3 DEF BufferOrder
<1>6. CursorOrder'
  BY <1>3 DEF CursorOrder
<1>7. LogOrder'
  <2> SUFFICES ASSUME NEW s \in Streams, NEW e \in Written(s), NEW f \in Written(s),
                      Before(e, f), Stored(f)', ~Stored(e)'
               PROVE  e.line <= saved[s]
    BY <1>1 DEF LogOrder, Before
  <2>1. e.stream = s /\ f.stream = s
    BY WrittenEvent
  <2> QED
    BY <1>2, <2>1 DEF OrderInv, LogOrder
<1>8. AllBehind'
  <2>1. consumed' \in Nat
    BY DEF TypeOK
  <2>2. (consumed' + 1)..Len(buffer') = {}
    <3>1. \A c \in Nat : (c + 1)..0 = {}
      OBVIOUS
    <3> QED
      BY <1>3, <2>1, <3>1
  <2>3. ASSUME NEW s \in Streams, NEW e \in Written(s), e.line <= read'[s]
        PROVE  Behind(s, e, Len(buffer), Len(buffer))'
    BY <2>3 DEF Behind, Passing
  <2> QED
    BY <1>1, <2>2, <2>3 DEF AllBehind
<1> QED
  BY <1>4, <1>5, <1>6, <1>7, <1>8 DEF OrderInv

\* A turn starts at the ends of the files, beyond all that was written.
LEMMA OrderStart ==
  ASSUME TypeOK, TypeOK', CoverInv, OrderInv, Announced, Spawned,
         daemon = "up", UNCHANGED <<out, saved, daemon>>
  PROVE  OrderInv'
<1>1. /\ out' = out /\ saved' = saved /\ buffer' = <<>> /\ UNCHANGED daemon
      /\ store' = Append(store, Report("turn", "plain"))
      /\ daemon = "up" /\ rt' = "live"
      /\ \A s \in Streams : /\ read'[s] = Len(out[s]) /\ safe'[s] = Len(out[s])
                            /\ base'[s] = Len(out[s]) /\ quietLine'[s] = 0
  BY DEF Announced, Spawned, NoLines
<1>2. Report("turn", "plain").stream \notin Streams
  BY ReportType DEF Origins, EventTypes
<1>3. Cleared'
  BY <1>1 DEF Cleared
<1>4. \A s \in Streams : Len(out[s]) \in Nat /\ saved[s] <= Len(out[s])
  BY CursorFacts
<1>5. ASSUME NEW s \in Streams, NEW e \in Written(s)
      PROVE  e.line <= safe'[s] /\ ~(e.line > base'[s])
  <2>1. e.line \in 1..Len(out[s])
    BY WrittenEvent
  <2> QED
    BY <1>1, <1>4, <2>1
<1> QED
  BY <1>1, <1>2, <1>3, <1>4, <1>5, OrderEmpty

\* A daemon that dies takes the buffer with it.
LEMMA OrderForget ==
  ASSUME TypeOK, TypeOK', CoverInv, OrderInv, ForgetAll, daemon' = "down",
         UNCHANGED <<out, store, saved, base, dropped>>
  PROVE  OrderInv'
<1>1. /\ buffer' = <<>> /\ rt' = "none"
      /\ \A s \in Streams : read'[s] = 0 /\ safe'[s] = 0 /\ quietLine'[s] = 0
  BY DEF ForgetAll, NoLines
<1>2. Cleared'
  BY <1>1 DEF Cleared
<1>3. ASSUME NEW s \in Streams, NEW e \in Written(s)
      PROVE  ~(e.line <= read'[s])
  <2>1. e.line \in 1..Len(out[s])
    BY WrittenEvent
  <2> QED
    BY <1>1, <2>1
<1> QED
  BY <1>1, <1>2, <1>3, OrderEmpty

\* A reattached runtime reads on where nothing later was stored.
LEMMA OrderRestart ==
  ASSUME TypeOK, TypeOK', CoverInv, OrderInv, Restart
  PROVE  OrderInv'
<1> USE DEF harness, db, history
<1>1. /\ UNCHANGED <<out, store, saved, dropped, base, buffer, yielded, consumed, quietLine, quietAt>>
      /\ daemon = "down" /\ daemon' = "up"
      /\ \/ read' = saved /\ safe' = saved /\ rt' = "live"
         \/ read' = read /\ safe' = safe /\ rt' = rt
  BY DEF Restart
<1>2. rt = "none" /\ buffer = <<>> /\ \A s \in Streams : quietLine[s] = 0
  BY <1>1 DEF OrderInv, Cleared
<1>3. CASE read' = read /\ safe' = safe /\ rt' = rt
  <2>1. OutKept
    <3>1. \A s \in Streams : Len(out[s]) \in Nat
      BY CursorFacts
    <3> QED
      BY <1>1, <3>1 DEF OutKept
  <2> QED
    BY <1>1, <1>3, <2>1, OrderAside
<1>4. CASE read' = saved /\ safe' = saved /\ rt' = "live"
  <2>1. Cleared'
    BY <1>1, <1>4 DEF Cleared
  <2>2. \A s \in Streams : saved[s] \in Nat
    BY CursorFacts
  <2>3. ASSUME NEW s \in Streams, NEW e \in Written(s), e.line <= saved[s], e.line > base[s]
        PROVE  Stored(e) \/ e \in dropped
    <3>1. Covered(s, saved[s], consumed)
      BY DEF CoverInv
    <3>2. e.line \in (base[s] + 1)..saved[s] /\ e.idx \in 1..Len(out[s][e.line]) /\ e = LineEvents(s, e.line)[e.idx]
      BY <2>3, WrittenEvent, CursorFacts
    <3>3. ~InFlight(e, consumed)
      <4>1. consumed \in Nat
        BY DEF TypeOK
      <4>2. (consumed + 1)..consumed = {}
        BY <4>1
      <4> QED
        BY <4>2 DEF InFlight
    <3> QED
      BY <3>1, <3>2, <3>3 DEF Covered, Done
  <2>4. \A e : Stored(e)' <=> Stored(e)
    BY <1>1 DEF Stored
  <2>5. \A s \in Streams : \A e \in Written(s) : e.line <= read'[s] =>
            Stored(e)' \/ (e.line <= safe'[s] /\ (e.line > base'[s] => e \in dropped'))
    BY <1>1, <1>4, <2>3, <2>4
  <2>6. \A s \in Streams : /\ rt' # "none" => saved[s] <= safe'[s]
                           /\ safe'[s] <= read'[s] /\ quietLine'[s] <= read'[s]
    BY <1>1, <1>2, <1>4, <2>2
  <2> QED
    BY <1>1, <1>2, <2>1, <2>5, <2>6, OrderEmpty
<1> QED
  BY <1>1, <1>3, <1>4

\* The order holds of every reachable state.
THEOREM Ordering == Spec => []OrderInv
<1>1. Init => OrderInv
  <2> SUFFICES ASSUME Init PROVE OrderInv
    OBVIOUS
  <2>1. /\ buffer = <<>> /\ store = <<>> /\ rt = "none" /\ daemon = "up" /\ consumed = 0
        /\ \A s \in Streams : /\ out[s] = <<>> /\ read[s] = 0 /\ safe[s] = 0 /\ saved[s] = 0
                              /\ quietLine[s] = 0
    BY DEF Init, NoLines
  <2>2. ASSUME NEW s \in Streams, NEW e \in Written(s) PROVE FALSE
    <3>1. 1..Len(out[s]) = {}
      BY <2>1
    <3> QED
      BY <3>1, EventsOfPlaces DEF Written
  <2>3. EventsReal /\ Cleared /\ BufferOrder /\ CursorOrder
    BY <2>1 DEF EventsReal, Cleared, BufferOrder, CursorOrder
  <2>4. LogOrder
    BY <2>2 DEF LogOrder
  <2>5. AllBehind
    BY <2>2 DEF AllBehind
  <2> QED
    BY <2>3, <2>4, <2>5 DEF OrderInv
<1>2. TypeOK /\ TypeOK' /\ CoverInv /\ OrderInv /\ [Next]_vars => OrderInv'
  <2> SUFFICES ASSUME TypeOK, TypeOK', CoverInv, OrderInv, [Next]_vars PROVE OrderInv'
    OBVIOUS
  <2> USE DEF harness, db, runtime, control, history
  <2>0. ASSUME OutKept,
               UNCHANGED <<saved, read, buffer, yielded, consumed, safe, quietLine, quietAt, dropped>>,
               daemon' = "down" => daemon = "down", rt' = "none" <=> rt = "none",
               store' = store \/ \E ev : ev.stream \notin Streams /\ store' = Append(store, ev)
        PROVE  OrderInv'
    BY <2>0, OrderAside
  <2>1. ASSUME NEW s \in Streams, HarnessWrite(s) PROVE OrderInv'
    <3>1. PICK frame : out' = [out EXCEPT ![s] = Append(@, frame)]
      BY <2>1 DEF HarnessWrite
    <3>2. base' = base
      BY <2>1 DEF HarnessWrite
    <3>3. ASSUME NEW t \in Streams
          PROVE  Len(out[t]) <= Len(out'[t]) /\ \A l \in 1..Len(out[t]) : out'[t][l] = out[t][l]
      <4>1. out[t] \in Seq(Frames \cup ErrFrames) /\ Len(out[t]) \in Nat
        <5>1. out[t] \in Seq(Frames \cup ErrFrames)
          BY DEF TypeOK
        <5> QED
          BY <5>1
      <4>2. out'[t] = out[t] \/ out'[t] = Append(out[t], frame)
        BY <3>1 DEF TypeOK
      <4> QED
        BY <4>1, <4>2
    <3>4. OutKept
      BY <3>2, <3>3 DEF OutKept
    <3> QED
      BY <2>0, <2>1, <3>4 DEF HarnessWrite
  <2>2. out' = out /\ base' = base => OutKept
    BY CursorFacts DEF OutKept
  <2>3. ASSUME NEW origin \in Origins, NEW type \in EventTypes
        PROVE  Report(origin, type).stream \notin Streams
    BY ReportType
  <2>4. Reporting => store' = store \/ \E ev : ev.stream \notin Streams /\ store' = Append(store, ev)
    BY <2>3, ReportingStep DEF Reported
  <2>5. CASE HarnessExit \/ KillHarness
    BY <2>0, <2>2, <2>5 DEF HarnessExit, KillHarness
  <2>6. ASSUME NEW s \in Streams, Pump(s) PROVE OrderInv'
    BY <2>6, OrderPump
  <2>7. CASE Finish
    BY <2>7, OrderFinish
  <2>8. CASE Deliver
    BY <2>8, OrderDeliver
  <2>9. CASE Commit
    BY <2>9, OrderCommit
  <2>10. CASE CommitGivenUp \/ AttachConsumer
    BY <2>0, <2>2, <2>10 DEF CommitGivenUp, AttachConsumer
  <2>11. CASE CommitFails
    BY <2>0, <2>2, <2>4, <2>11 DEF CommitFails, Reporting
  <2>12. CASE StreamEnd
    BY <2>0, <2>2, <2>4, <2>12 DEF StreamEnd, Reporting
  <2>13. CASE StartTurn
    BY <2>13, OrderStart DEF StartTurn, Startable
  <2>21. CASE StartThrows
    <3>1. CASE Announced /\ Spawned
      BY <2>21, <3>1, OrderStart DEF StartThrows, Startable
    <3>2. CASE UNCHANGED <<runtime, base>>
      BY <2>0, <2>2, <2>4, <2>21, <3>2 DEF StartThrows, Reporting
    <3> QED
      BY <2>21, <3>1, <3>2 DEF StartThrows
  <2>22. CASE StartReported
    BY <2>0, <2>2, <2>4, <2>22 DEF StartReported, Reporting
  <2>14. CASE StopBegin \/ ShutdownBegin
    BY <2>0, <2>2, <2>14 DEF StopBegin, ShutdownBegin
  <2>15. CASE StopEnd
    BY <2>0, <2>2, <2>4, <2>15 DEF StopEnd, Reporting
  <2>16. CASE MarkInterrupted
    BY <2>0, <2>2, <2>4, <2>16 DEF MarkInterrupted, Reporting
  <2>23. CASE RestartGivesUp
    BY <2>0, <2>2, <2>4, <2>23 DEF RestartGivesUp, Reporting
  <2>17. CASE DrainRuntime
    <3>1. rt' = "none" <=> rt = "none"
      BY <2>17 DEF DrainRuntime
    <3> QED
      BY <2>0, <2>2, <2>17, <3>1 DEF DrainRuntime
  <2>18. CASE Exit \/ Crash
    BY <2>18, OrderForget DEF Exit, Crash
  <2>19. CASE Restart
    BY <2>19, OrderRestart
  <2>20. CASE UNCHANGED vars
    BY <2>0, <2>2, <2>20 DEF vars
  <2> QED
    BY <2>1, <2>5, <2>6, <2>7, <2>8, <2>9, <2>10, <2>11, <2>12, <2>13,
       <2>14, <2>15, <2>16, <2>17, <2>18, <2>19, <2>20, <2>21, <2>22, <2>23 DEF Next
<1> QED
  BY <1>1, <1>2, TypeCorrect, Covering, PTL DEF Spec
-----------------------------------------------------------------------------
(* The steps of the pipeline are steps of the log.                         *)

\* A place of a file, as the log counts places.
LEMMA PlaceOf ==
  ASSUME TypeOK, NEW s \in Streams, NEW e \in Written(s)
  PROVE  /\ <<e.line, e.idx>> \in EL!Positions(s)
         /\ EL!EventAt(s, e.line, e.idx) = e
<1>1. /\ e.line \in 1..Len(out[s]) /\ e.idx \in 1..Len(out[s][e.line])
      /\ e = LineEvents(s, e.line)[e.idx]
  BY WrittenEvent
<1>2. LineEvents(s, e.line)[e.idx] =
        [stream |-> s, line |-> e.line, idx |-> e.idx,
         of |-> Len(out[s][e.line]), type |-> out[s][e.line][e.idx]]
  BY <1>1, LineEventsType
<1>3. EL!EventAt(s, e.line, e.idx) = e
  BY <1>1, <1>2 DEF EL!EventAt
<1> DEFINE row(l) == {l} \X (1..Len(out[s][l]))
<1>4. <<e.line, e.idx>> \in row(e.line)
  BY <1>1
<1>5. EL!Positions(s) = UNION {row(l) : l \in 1..Len(out[s])}
  BY DEF EL!Positions
<1> HIDE DEF row
<1>6. <<e.line, e.idx>> \in UNION {row(l) : l \in 1..Len(out[s])}
  BY <1>1, <1>4
<1> QED
  BY <1>3, <1>5, <1>6

\* And every place holds an event that was written.
LEMMA EventIn ==
  ASSUME TypeOK, NEW s \in Streams, NEW p \in EL!Positions(s)
  PROVE  /\ EL!EventAt(s, p[1], p[2]) \in Written(s)
         /\ EL!EventAt(s, p[1], p[2]).line = p[1] /\ EL!EventAt(s, p[1], p[2]).idx = p[2]
<1> DEFINE row(l) == {l} \X (1..Len(out[s][l]))
<1>1. p \in UNION {row(l) : l \in 1..Len(out[s])}
  BY DEF EL!Positions
<1> HIDE DEF row
<1>2. PICK l \in 1..Len(out[s]) : p \in row(l)
  BY <1>1
<1>3. p[1] = l /\ p[2] \in 1..Len(out[s][l])
  BY <1>2 DEF row
<1>4. EL!EventAt(s, p[1], p[2]) = LineEvents(s, l)[p[2]]
  BY <1>3, LineEventsType DEF EL!EventAt
<1> QED
  BY <1>3, <1>4, WrittenAt

\* What the daemon reports itself is a report of the log.
LEMMA ReportStep ==
  ASSUME TypeOK, NEW ev, ev.stream \notin Streams, store' = Append(store, ev),
         UNCHANGED <<out, base, dropped>>
  PROVE  EL!Next
<1>1. Len(store') = Len(store) + 1 /\ store'[Len(store')] = ev
  BY DEF TypeOK
<1>2. EL!Report(store'[Len(store')])
  BY <1>1 DEF EL!Report
<1> QED
  BY <1>1, <1>2 DEF EL!Next

\* A transaction that stores an event of a file records it in its place.
LEMMA RecordStep ==
  ASSUME TypeOK, CoverInv, OrderInv, Commit
  PROVE  [EL!Next]_EL!vars
<1> USE DEF harness, db, history
<1>1. consumed < yielded /\ UNCHANGED <<out, base, dropped>>
  BY DEF Commit
<1>2. PICK ev \in AnyEvent : ev = buffer[yielded]
  <2>1. yielded \in 1..Len(buffer)
    BY <1>1 DEF TypeOK
  <2> QED
    BY <2>1 DEF TypeOK
<1>3. CASE IsReplay(ev)
  <2>1. store' = store
    BY <1>2, <1>3 DEF Commit
  <2> QED
    BY <1>1, <2>1 DEF EL!vars
<1>4. CASE ~IsReplay(ev) /\ ev.stream \notin Streams
  <2>1. store' = Append(store, ev)
    BY <1>2, <1>4 DEF Commit
  <2> QED
    BY <1>1, <1>4, <2>1, ReportStep
<1>5. CASE ~IsReplay(ev) /\ ev.stream \in Streams
  <2>1. store' = Append(store, ev) /\ ~Stored(ev)
    BY <1>2, <1>5 DEF Commit, IsReplay
  <2>2. PICK s \in Streams : s = ev.stream
    BY <1>5
  <2>3. /\ ev \in Written(s) /\ ev.line > saved[s]
        /\ \A e \in Written(s) : Before(e, ev) =>
             Stored(e) \/ (e.line <= safe[s] /\ (e.line > base[s] => e \in dropped))
    BY <1>1, <1>2, <2>2, InHand
  <2>4. <<ev.line, ev.idx>> \in EL!Positions(s) /\ EL!EventAt(s, ev.line, ev.idx) = ev
    BY <2>3, PlaceOf
  <2>5. \A l, i : EL!Recorded(s, l, i) <=> Stored(EL!EventAt(s, l, i))
    BY DEF EL!Recorded, Stored
  <2>6. ASSUME NEW p \in EL!Positions(s)
        PROVE  /\ EL!Precedes(ev.line, ev.idx, p[1], p[2]) => ~EL!Recorded(s, p[1], p[2])
               /\ p[1] > base[s] /\ EL!Precedes(p[1], p[2], ev.line, ev.idx) =>
                    EL!Recorded(s, p[1], p[2]) \/ EL!EventAt(s, p[1], p[2]) \in dropped
    <3>1. PICK f \in Written(s) : f = EL!EventAt(s, p[1], p[2]) /\ f.line = p[1] /\ f.idx = p[2]
      BY EventIn
    <3>2. EL!Precedes(ev.line, ev.idx, p[1], p[2]) <=> Before(ev, f)
      BY <3>1 DEF EL!Precedes, Before
    <3>3. EL!Precedes(p[1], p[2], ev.line, ev.idx) <=> Before(f, ev)
      BY <3>1 DEF EL!Precedes, Before
    <3>4. Before(ev, f) => ~Stored(f)
      <4>1. Before(ev, f) /\ Stored(f) => ev.line <= saved[s]
        BY <2>1, <2>3 DEF OrderInv, LogOrder
      <4>2. ev.line \in Nat /\ saved[s] \in Nat
        BY <2>3, WrittenEvent, CursorFacts
      <4> QED
        BY <2>3, <4>1, <4>2
    <3>5. Before(f, ev) /\ f.line > base[s] => Stored(f) \/ f \in dropped
      BY <2>3
    <3> QED
      BY <2>5, <3>1, <3>2, <3>3, <3>4, <3>5
  <2>7. EL!Record(s, ev.line, ev.idx)
    BY <1>1, <2>1, <2>4, <2>5, <2>6 DEF EL!Record
  <2>8. \E p \in EL!Positions(s) : EL!Record(s, p[1], p[2])
    <3>1. PICK p \in EL!Positions(s) : p = <<ev.line, ev.idx>>
      BY <2>4
    <3>2. p[1] = ev.line /\ p[2] = ev.idx
      BY <3>1
    <3> QED
      BY <2>7, <3>2
  <2> QED
    BY <2>8 DEF EL!Next
<1> QED
  BY <1>3, <1>4, <1>5

\* A terminal event that is dropped is discarded from the log.
LEMMA DiscardStep ==
  ASSUME TypeOK, OrderInv, Deliver
  PROVE  [EL!Next]_EL!vars
<1> USE DEF harness, db
<1>1. /\ UNCHANGED <<out, store, base>>
      /\ yielded < Len(buffer)
      /\ \/ dropped' = dropped
         \/ /\ Discarded(buffer[yielded + 1]) /\ buffer[yielded + 1].stream \in Streams
            /\ dropped' = dropped \cup {buffer[yielded + 1]}
  BY DEF Deliver
<1>2. CASE dropped' = dropped
  BY <1>1, <1>2 DEF EL!vars
<1>3. CASE dropped' # dropped
  <2>1. yielded + 1 \in 1..Len(buffer)
    BY <1>1 DEF TypeOK
  <2>2. PICK s \in Streams : s = buffer[yielded + 1].stream
    BY <1>1, <1>3
  <2>3. PICK e \in Written(s) : e = buffer[yielded + 1]
    BY <2>1, <2>2, BufferEvent DEF OrderInv
  <2>4. PICK p \in EL!Positions(s) : p = <<e.line, e.idx>>
    BY PlaceOf
  <2>5. p[1] = e.line /\ p[2] = e.idx
    BY <2>4
  <2>6. EL!EventAt(s, p[1], p[2]) = e /\ out[s][p[1]][p[2]] = e.type
    <3>1. EL!EventAt(s, e.line, e.idx) = e
      BY PlaceOf
    <3>2. e.type = out[s][e.line][e.idx]
      BY WrittenEvent
    <3> QED
      BY <2>5, <3>1, <3>2
  <2>7. e.type \in EL!Terminal
    BY <1>1, <1>3, <2>3 DEF Discarded, Terminal, EL!Terminal
  <2>8. EL!Discard(s, p[1], p[2])
    BY <1>1, <1>3, <2>3, <2>6, <2>7 DEF EL!Discard
  <2> QED
    BY <2>8 DEF EL!Next
<1> QED
  BY <1>2, <1>3

\* Every step of the pipeline is a step of the log or leaves it alone.
LEMMA LogStep ==
  ASSUME TypeOK, CoverInv, OrderInv, [Next]_vars
  PROVE  [EL!Next]_EL!vars
<1> USE DEF harness, db, history
<1>1. CASE UNCHANGED <<out, store, base, dropped>>
  BY <1>1 DEF EL!vars
<1>2. ASSUME NEW s \in Streams, HarnessWrite(s) PROVE EL!Next
  <2>1. PICK frame \in Frames \cup ErrFrames : out' = [out EXCEPT ![s] = Append(@, frame)]
    BY <1>2 DEF HarnessWrite
  <2>2. EL!Produce(s)
    BY <1>2, <2>1 DEF HarnessWrite, EL!Produce
  <2> QED
    BY <2>2 DEF EL!Next
<1>3. ASSUME Announced, Spawned, UNCHANGED <<out, dropped>> PROVE EL!Next
  <2>1. Report("turn", "plain").stream \notin Streams
    BY ReportType DEF Origins, EventTypes
  <2>2. /\ store' = Append(store, Report("turn", "plain")) /\ UNCHANGED <<out, dropped>>
        /\ base' = [s \in Streams |-> Len(out[s])]
    BY <1>3 DEF Announced, Spawned
  <2>3. Len(store') = Len(store) + 1 /\ store'[Len(store')] = Report("turn", "plain")
    BY <2>2 DEF TypeOK
  <2>4. EL!NextTurn(store'[Len(store')])
    BY <2>1, <2>2, <2>3 DEF EL!NextTurn
  <2> QED
    BY <2>3, <2>4 DEF EL!Next
<1>4. ASSUME Reporting, UNCHANGED <<out, base, dropped>>
      PROVE  [EL!Next]_EL!vars
  <2>1. CASE store' = store
    BY <1>1, <1>4, <2>1
  <2>2. ASSUME NEW origin \in Origins, NEW type \in EventTypes,
               store' = Append(store, Report(origin, type))
        PROVE  [EL!Next]_EL!vars
    BY <1>4, <2>2, ReportType, ReportStep
  <2> QED
    BY <1>4, <2>1, <2>2, ReportingStep DEF Reported
<1>5. CASE StartTurn
  BY <1>3, <1>5 DEF StartTurn
<1>6. CASE StartThrows
  <2>1. CASE Announced /\ Spawned
    BY <1>3, <1>6, <2>1 DEF StartThrows
  <2>2. CASE UNCHANGED base
    BY <1>4, <1>6, <2>2 DEF StartThrows, Reporting
  <2> QED
    BY <1>6, <2>1, <2>2 DEF StartThrows
<1>7. CASE CommitFails \/ StreamEnd \/ StartReported
  BY <1>4, <1>7 DEF CommitFails, StreamEnd, StartReported, Reporting
<1>8. CASE StopEnd \/ RestartGivesUp
  BY <1>4, <1>8 DEF StopEnd, RestartGivesUp, Reporting
<1>9. CASE MarkInterrupted
  BY <1>4, <1>9 DEF MarkInterrupted, Reporting
<1>10. CASE Commit
  BY <1>10, RecordStep
<1>11. CASE Deliver
  BY <1>11, DiscardStep
<1>12. CASE \E s \in Streams : Pump(s)
  BY <1>1, <1>12 DEF Pump
<1>13. CASE HarnessExit \/ Finish \/ CommitGivenUp \/ AttachConsumer \/ StopBegin
  BY <1>1, <1>13 DEF HarnessExit, Finish, CommitGivenUp, AttachConsumer, StopBegin
<1>14. CASE ShutdownBegin \/ KillHarness \/ DrainRuntime \/ Exit \/ Crash \/ Restart
  BY <1>1, <1>14 DEF ShutdownBegin, KillHarness, DrainRuntime, Exit, Crash, Restart
<1>15. CASE UNCHANGED vars
  BY <1>1, <1>15 DEF vars
<1> QED
  BY <1>2, <1>5, <1>6, <1>7, <1>8, <1>9, <1>10, <1>11, <1>12, <1>13, <1>14, <1>15 DEF Next

\* The pipeline implements the log's promise: what the readers of a session
\* see is each event once, file by file in the order of its lines, with
\* nothing of the turn missing in between but what was discarded.
THEOREM LogImplemented == Spec => ImplementsEventLog
<1>1. Init => EL!Init
  BY DEF Init, EL!Init, NoLines
<1>2. TypeOK /\ CoverInv /\ OrderInv /\ [Next]_vars => [EL!Next]_EL!vars
  BY LogStep
<1> QED
  BY <1>1, <1>2, TypeCorrect, Covering, Ordering, PTL DEF Spec, ImplementsEventLog, EL!Spec
===============================================================================
