------------------------------ MODULE EventLog ------------------------------
(***************************************************************************)
(* What the event log of one codedeck session promises to the readers of   *)
(* `codedeck logs`, `wait` and the web console, without saying how: the    *)
(* harness writes lines to its log files, every line stands for a few      *)
(* normalized events, and the log records those events once each and, file *)
(* by file, in the order they were written.  Between a turn's first line   *)
(* and the last recorded event nothing is missing except terminal frames   *)
(* that a lifecycle operation owning the outcome has discarded.            *)
(*                                                                         *)
(* EventPipeline is the detailed specification that implements this one.   *)
(***************************************************************************)
EXTENDS Naturals, Sequences

CONSTANTS
  Streams,     \* the log files of one session
  Frames       \* the event sequences a harness line can normalize to

VARIABLES
  out,         \* out[s]: the frames of the complete lines in file s
  log,         \* the recorded events, oldest first
  base,        \* base[s]: lines in file s when the current turn started
  dropped      \* terminal events discarded by a lifecycle operation

vars == <<out, log, base, dropped>>

Terminal == {"completed", "failed"}

\* The i-th event of the l-th line of file s.  Only events read from a file
\* carry a source; what the daemon itself reports has an origin of its own.
EventAt(s, l, i) ==
  [stream |-> s, line |-> l, idx |-> i, of |-> Len(out[s][l]), type |-> out[s][l][i]]

Positions(s) == UNION {{l} \X (1..Len(out[s][l])) : l \in 1..Len(out[s])}

Recorded(s, l, i) == \E n \in 1..Len(log) : log[n] = EventAt(s, l, i)

Precedes(l1, i1, l2, i2) == l1 < l2 \/ (l1 = l2 /\ i1 < i2)
-----------------------------------------------------------------------------
Init ==
  /\ out = [s \in Streams |-> <<>>]
  /\ log = <<>>
  /\ base = [s \in Streams |-> 0]
  /\ dropped = {}

Produce(s) ==
  /\ UNCHANGED <<log, base, dropped>>
  /\ \E frame \in Frames : out' = [out EXCEPT ![s] = Append(@, frame)]

\* A new turn appends to the same files; what precedes it is not its output.
NextTurn(start) ==
  /\ start.stream \notin Streams
  /\ base' = [s \in Streams |-> Len(out[s])]
  /\ log' = Append(log, start)
  /\ UNCHANGED <<out, dropped>>

\* An event the daemon reports itself: a stop, an interruption, a failure.
Report(ev) ==
  /\ ev.stream \notin Streams
  /\ log' = Append(log, ev)
  /\ UNCHANGED <<out, base, dropped>>

Record(s, l, i) ==
  /\ log' = Append(log, EventAt(s, l, i))
  /\ UNCHANGED <<out, base, dropped>>
  /\ ~Recorded(s, l, i)
  /\ \A p \in Positions(s) :
       /\ Precedes(l, i, p[1], p[2]) => ~Recorded(s, p[1], p[2])
       /\ (p[1] > base[s] /\ Precedes(p[1], p[2], l, i)) =>
            Recorded(s, p[1], p[2]) \/ EventAt(s, p[1], p[2]) \in dropped

Discard(s, l, i) ==
  /\ UNCHANGED <<out, log, base>>
  /\ out[s][l][i] \in Terminal
  /\ dropped' = dropped \cup {EventAt(s, l, i)}

Next ==
  \/ \E s \in Streams : Produce(s)
  \/ Len(log') = Len(log) + 1 /\ NextTurn(log'[Len(log')])
  \/ Len(log') = Len(log) + 1 /\ Report(log'[Len(log')])
  \/ \E s \in Streams : \E p \in Positions(s) : Record(s, p[1], p[2])
  \/ \E s \in Streams : \E p \in Positions(s) : Discard(s, p[1], p[2])

Spec == Init /\ [][Next]_vars
=============================================================================
