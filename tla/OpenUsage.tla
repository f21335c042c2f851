------------------------------ MODULE OpenUsage ------------------------------
(***************************************************************************)
(* The usage of interactive sessions.  `codedeck open` adopts a row of the *)
(* daemon, runs a Claude head in the terminal and releases the row when    *)
(* the head ends.  The daemon is not the head's parent: it learns what the *)
(* head spends from status line reports, from sweeps of the transcript     *)
(* while the row is active, and from reconciling the transcripts linked to *)
(* a row when a link is superseded, at release and at boot.  Every way     *)
(* ends in the ledger, under the source key of the native conversation.    *)
(*                                                                         *)
(* Simplifications:                                                        *)
(*   - A message costs one; the i-th message of a transcript is i.  One    *)
(*     without a message id or a request id is in Keyless.                 *)
(*   - Of the rows that match a resumed native id, any may be the one last *)
(*     updated.  All agents are claude; pids are heads and never recycled. *)
(*   - A status line asks for no sweep while the one before it goes on,    *)
(*     instead of queueing behind it.                                      *)
(*   - The order in which a reconciliation takes its links is left open.   *)
(*   - The answer to a link request does not wait for the reconciliation    *)
(*     that the request started, so that a release may be sent before.     *)
(***************************************************************************)
EXTENDS UsageLedger

CONSTANTS
  Heads,         \* the runs of `codedeck open`
  None,          \* no row, no head, no native id
  Keyless,       \* the messages that lack an id
  MaxUsage,      \* bounds the messages of a conversation and those read again
  MaxRestarts,   \* bounds the times the daemon goes down, either way
  MaxEvents,     \* bounds those and all messages together
  MaxSweeps,     \* bounds the sweeps in progress
  Faults         \* TRUE: reading a transcript or storing its usage may fail

Natives == Sources

ASSUME NamesAssumption == None \notin Rows \cup Natives \cup Heads
ASSUME KeylessAssumption == Keyless \subseteq Nat
ASSUME BoundsAssumption == {MaxUsage, MaxRestarts, MaxEvents, MaxSweeps} \subseteq Nat
ASSUME FaultsAssumption == Faults \in BOOLEAN

VARIABLES
  \* The transcripts, one per native id, written by the heads.
  total,         \* messages in it, Null if there is no file
  billed,        \* the total in its last cost-state line, or Null
  \* The processes of `codedeck open` with their heads.
  phase,         \* "none", "adopted", "running", "closing" or "gone"
  rowOf,         \* the row it adopted
  talk,          \* its conversation, the one to resume before it runs
  seen, sent,    \* the ids in the sidecar file, and those linked
  patched,       \* its session.patch has been answered
  \* The session rows and the links table.
  status, pid,
  native,        \* native_session_id
  links,         \* links[r]: the natives linked to r
  reconciled,    \* those with a reconciled_at
  ledger,
  \* The daemon.
  daemon,        \* "up", "draining" or "down"
  restarts,
  killing,       \* the heads the shutdown has yet to kill
  cursor,        \* liveTranscriptCursors
  moved,         \* the file is no longer the one the cursor is for
  sweep,         \* the sweep in progress on a native id
  tidying,       \* cursors a release has yet to clean up
  jobs,          \* reconciliations in progress
  \* History.
  owed,          \* what the transcripts held at boot, per link of an ended row
  excused,       \* links made on an ended row or whose reading has failed
  recounted      \* keyless messages that a sweep has read again

transcripts == <<total, billed>>
head        == <<phase, rowOf, talk, seen, sent, patched>>
rows        == <<status, pid, native>>
linkage      == <<links, reconciled>>
sweeps      == <<cursor, moved, sweep, tidying>>
control     == <<daemon, restarts, killing>>
history     == <<owed, excused, recounted>>
vars == <<transcripts, head, rows, linkage, ledger, control, sweeps, jobs, history>>
-----------------------------------------------------------------------------
Usages == 0..MaxUsage

\* The bound on the length of what is explored.
Room == restarts + MapThenSumSet(LAMBDA n : OrZero(total[n]), Natives) < MaxEvents

Ended == {"completed", "failed", "stopped", "interrupted"}

NoCursor == [upto |-> 0, keys |-> 0, counted |-> 0]
NoSweep == [stage |-> "none", row |-> None, previous |-> {}, size |-> 0, fresh |-> FALSE]
NoRead == [native |-> None, usage |-> Null]

Serving == daemon = "up"
Alive(h) == h \in Heads /\ phase[h] = "running"
Live(r) == pid[r] # None /\ Alive(pid[r])

\* Links of a row that another one supersedes, unless they are reconciled.
Previous(r, n) == links[r] \ (reconciled[r] \cup {n})

\* What reading a transcript yields: its last cost-state line, or the sum of
\* its messages if it has none.
Reading(n) == IF billed[n] # Null THEN billed[n] ELSE total[n]

Job(r, via, left, read) == [row |-> r, via |-> via, left |-> left, read |-> read]

\* Ids whose reconciliation a status line already asked for are not asked for
\* again, and a reconciliation of given ids skips the reconciled ones.
Queued(r, ns) ==
  LET asked == UNION {{j.read.native} \cup j.left : j \in {i \in jobs : i.row = r /\ i.via = "queue"}}
  IN  IF ns \subseteq asked THEN {} ELSE {Job(r, "queue", ns \ (asked \cup reconciled[r]), NoRead)}

\* History: n is linked to a row that has ended.
LateLink(r, n) == IF status[r] \in Ended /\ n \notin links[r] THEN {<<r, n>>} ELSE {}

Superseding(r, via, ns) == IF ns = {} THEN {} ELSE {Job(r, via, ns, NoRead)}
-----------------------------------------------------------------------------
(* The head: conversations, their transcripts and their end. *)

\* The head starts or switches to a conversation: the one it resumes, a new
\* one, or another that the user picks inside it.
Talk(h, n) ==
  /\ \/ phase[h] = "adopted" /\ talk[h] \in {None, n}
     \/ phase[h] = "running" /\ talk[h] # n
  /\ phase' = [phase EXCEPT ![h] = "running"]
  /\ talk' = [talk EXCEPT ![h] = n]
  /\ seen' = [seen EXCEPT ![h] = @ \cup {n}]
  /\ UNCHANGED <<transcripts, rowOf, sent, patched, rows, linkage, ledger, control, sweeps, jobs, history>>

WriteMessage(h) ==
  /\ Alive(h) /\ OrZero(total[talk[h]]) < MaxUsage /\ Room
  /\ total' = [total EXCEPT ![talk[h]] = OrZero(@) + 1]
  /\ UNCHANGED <<billed, head, rows, linkage, ledger, control, sweeps, jobs, history>>

\* The head ends, by itself or killed; only the former writes a cost-state.
HeadEnds(h, saves) ==
  /\ Alive(h)
  /\ phase' = [phase EXCEPT ![h] = "closing"]
  /\ billed' = IF saves THEN [billed EXCEPT ![talk[h]] = total[talk[h]]] ELSE billed
  /\ UNCHANGED <<total, rowOf, talk, seen, sent, patched>>
  /\ UNCHANGED <<rows, linkage, ledger, control, sweeps, jobs, history>>

\* `codedeck open` is over.
Leaves(h) ==
  /\ phase' = [phase EXCEPT ![h] = "gone"]
  /\ rowOf' = [rowOf EXCEPT ![h] = None] /\ talk' = [talk EXCEPT ![h] = None]
  /\ seen' = [seen EXCEPT ![h] = {}] /\ sent' = [sent EXCEPT ![h] = {}]
  /\ patched' = [patched EXCEPT ![h] = FALSE]

\* The terminal is closed: `codedeck open` dies with its head, nothing is sent.
TerminalCloses(h) ==
  /\ phase[h] \in {"adopted", "running", "closing"}
  /\ Leaves(h)
  /\ UNCHANGED <<transcripts, rows, linkage, ledger, control, sweeps, jobs, history>>

\* The head rewrites its transcript into a new file with the same messages.
Rewrite(h) ==
  /\ Alive(h) /\ cursor[talk[h]] # NoCursor /\ ~moved[talk[h]]
  /\ recounted[talk[h]] < MaxUsage
  /\ moved' = [moved EXCEPT ![talk[h]] = TRUE]
  /\ UNCHANGED <<transcripts, head, rows, linkage, ledger, control, cursor, sweep, tidying, jobs, history>>
-----------------------------------------------------------------------------
(* Requests of `codedeck open`. *)

\* A row that a resume may take over: it ended or its head is dead.
Over(r) == status[r] \in Ended \/ ~Live(r)

\* session.adopt revives the row that last held the resumed conversation, if
\* it is over, and creates one otherwise.
Adopt(h, n) ==
  /\ Serving /\ phase[h] = "none"
  /\ LET matching == {q \in Rows : native[q] = n /\ n # None}
     IN  \E r \in Rows :
           /\ \/ r \in matching /\ Over(r)
              \/ status[r] = "none" /\ (matching = {} \/ \E q \in matching : ~Over(q))
           /\ status' = [status EXCEPT ![r] = "working"]
           /\ pid' = [pid EXCEPT ![r] = None]
           /\ rowOf' = [rowOf EXCEPT ![h] = r]
  /\ phase' = [phase EXCEPT ![h] = "adopted"]
  /\ talk' = [talk EXCEPT ![h] = n]
  /\ UNCHANGED <<transcripts, seen, sent, patched, native, linkage, ledger, control, sweeps, jobs, history>>

\* The head could not be started.
LaunchFails(h) ==
  /\ phase[h] = "adopted"
  /\ phase' = [phase EXCEPT ![h] = "closing"]
  /\ talk' = [talk EXCEPT ![h] = None]
  /\ patched' = [patched EXCEPT ![h] = TRUE]
  /\ UNCHANGED <<transcripts, rowOf, seen, sent, rows, linkage, ledger, control, sweeps, jobs, history>>

\* session.patch tells the row its pid; the request is lost without a daemon.
Patch(h) ==
  /\ phase[h] \in {"running", "closing"} /\ ~patched[h]
  /\ pid' = IF Serving THEN [pid EXCEPT ![rowOf[h]] = h] ELSE pid
  /\ patched' = [patched EXCEPT ![h] = TRUE]
  /\ UNCHANGED <<transcripts, phase, rowOf, talk, seen, sent, status, native, linkage, ledger, control, sweeps, jobs, history>>

\* The link watcher sends what the SessionStart hook wrote to the sidecar; a
\* head that closes makes one last attempt for each.
LinkNative(h, n) ==
  /\ phase[h] \in {"running", "closing"} /\ n \in seen[h] \ sent[h]
  /\ LET r == rowOf[h] IN
       IF Serving
       THEN /\ links' = [links EXCEPT ![r] = @ \cup {n}]
            /\ jobs' = jobs \cup Superseding(r, "link", Previous(r, n))
            /\ excused' = excused \cup LateLink(r, n)
       ELSE phase[h] = "closing" /\ UNCHANGED <<links, jobs, excused>>
  /\ sent' = [sent EXCEPT ![h] = @ \cup {n}]
  /\ UNCHANGED <<transcripts, phase, rowOf, talk, seen, patched, rows, reconciled, ledger, control, sweeps, owed, recounted>>

\* The row's process lives on, after a shutdown that was cut short.
Refused(r) == status[r] = "interrupted" /\ Live(r)

MutantReleased(r, n) == links[r] \ {n}

\* What a release reconciles: every link of the row, and the one it brings.
Released(r, n) == links[r] \cup ({n} \ {None})

\* session.release, sent when the links and the patch have been.  It changes
\* nothing if it is refused or the row has ended.
Release(h) ==
  /\ phase[h] = "closing" /\ patched[h] /\ seen[h] = sent[h]
  /\ Leaves(h)
  /\ LET r == rowOf[h]
         n == talk[h]
     IN  IF ~Serving \/ Refused(r) \/ status[r] \in Ended \ {"interrupted"}
         THEN UNCHANGED <<rows, links, jobs>>
         ELSE /\ status' = [status EXCEPT ![r] = IF n = None THEN "failed" ELSE "completed"]
              /\ native' = IF n = None THEN native ELSE [native EXCEPT ![r] = n]
              /\ links' = [links EXCEPT ![r] = @ \cup ({n} \ {None})]
              /\ jobs' = jobs \cup {Job(r, "release", Released(r, n), NoRead)}
              /\ UNCHANGED pid
  /\ UNCHANGED <<transcripts, reconciled, ledger, control, sweeps, history>>
-----------------------------------------------------------------------------
(* Status line reports and the sweeps they start. *)

\* usage.get: one transaction links the conversation and observes its cost,
\* which may be an old one.  A payload without a cost, or one with a transcript
\* whose row is active, asks for a sweep; otherwise the superseded links are
\* reconciled at once.
StatusLine(h, v, sweeping) ==
  /\ Serving /\ Alive(h)
  /\ LET r == rowOf[h]
         n == talk[h]
         previous == IF v = Null THEN {} ELSE Previous(r, n)
     IN  /\ v <= OrZero(total[n])
         /\ links' = IF v = Null THEN links ELSE [links EXCEPT ![r] = @ \cup {n}]
         /\ excused' = IF v = Null THEN excused ELSE excused \cup LateLink(r, n)
         /\ ledger' = Observe(ledger, r, n, v)
         /\ \/ /\ sweeping /\ status[r] = "working"
               /\ Cardinality({k \in Natives : sweep[k] # NoSweep}) < MaxSweeps
               /\ sweep' = [sweep EXCEPT ![n] =
                    [stage |-> "asked", row |-> r, previous |-> previous, size |-> 0, fresh |-> FALSE]]
               /\ UNCHANGED jobs
            \/ /\ ~sweeping /\ v # Null
               /\ jobs' = jobs \cup Queued(r, previous)
               /\ UNCHANGED sweep
  /\ UNCHANGED <<transcripts, head, rows, reconciled, control, cursor, moved, tidying, owed, recounted>>

SweepOver(n, previous) ==
  /\ sweep' = [sweep EXCEPT ![n] = NoSweep]
  /\ jobs' = jobs \cup Queued(sweep[n].row, previous)

\* The transcript is open and the row still active: it is linked, and the next
\* chunk of what the file holds now is being read.
SweepBegins(n) ==
  LET r == sweep[n].row IN
  /\ daemon # "down" /\ sweep[n].stage = "asked"
  /\ IF status[r] = "working" /\ total[n] # Null
     THEN /\ links' = [links EXCEPT ![r] = @ \cup {n}]
          /\ sweep' = [sweep EXCEPT ![n] =
               [stage |-> "reading", row |-> r, previous |-> sweep[n].previous \cup Previous(r, n),
                size |-> total[n], fresh |-> moved[n]]]
          /\ moved' = [moved EXCEPT ![n] = FALSE]
          /\ UNCHANGED jobs
     ELSE SweepOver(n, sweep[n].previous) /\ UNCHANGED <<links, moved>>
  /\ UNCHANGED <<transcripts, head, rows, reconciled, ledger, control, cursor, tidying, history>>

MutantReset(c) == [NoCursor EXCEPT !.counted = c.counted]

\* A file that is not the one read before is read from the start, but messages
\* already counted are known by their keys, if they have one.
Reset(c) == [upto |-> 0, keys |-> c.keys, counted |-> c.counted]

\* The cursor after the messages up to position `to` have been consumed.
Consume(c, to) ==
  [upto |-> to,
   keys |-> IF to > c.keys THEN to ELSE c.keys,
   counted |-> c.counted + Cardinality({i \in c.upto + 1..to : i > c.keys \/ i \in Keyless})]

\* History: the messages among them that had been consumed before and are
\* counted once more.
Again(c, to) == Cardinality({i \in c.upto + 1..to : i <= c.keys /\ i \in Keyless})

\* The chunk has been read: the row, if still active, observes what is counted
\* so far.  A store that refuses leaves the cursor where it was.
SweepEnds(n) ==
  LET s == sweep[n]
      from == IF s.fresh THEN Reset(cursor[n]) ELSE cursor[n]
  IN
  /\ daemon # "down" /\ s.stage = "reading"
  /\ \/ /\ status[s.row] = "working"
        /\ \E to \in from.upto..s.size :
             /\ cursor' = [cursor EXCEPT ![n] = Consume(from, to)]
             /\ ledger' = Observe(ledger, s.row, n, Consume(from, to).counted)
             /\ recounted' = [recounted EXCEPT ![n] = @ + Again(from, to)]
        /\ UNCHANGED moved
     \/ /\ status[s.row] # "working" \/ Faults
        /\ moved' = [moved EXCEPT ![n] = @ \/ s.fresh]
        /\ UNCHANGED <<cursor, ledger, recounted>>
  /\ SweepOver(n, s.previous)
  /\ UNCHANGED <<transcripts, head, rows, linkage, control, tidying, owed, excused>>
-----------------------------------------------------------------------------
(* Reconciliation. *)

\* The next link is read.  One that never had a transcript is settled as
\* missing.
ReadTranscript(j, n) ==
  /\ daemon # "down" /\ j.read = NoRead /\ n \in j.left
  /\ \/ /\ total[n] = Null
        /\ jobs' = (jobs \ {j}) \cup {Job(j.row, j.via, j.left \ {n}, NoRead)}
        /\ reconciled' = [reconciled EXCEPT ![j.row] = @ \cup {n}]
     \/ /\ total[n] # Null
        /\ LET read == [native |-> n, usage |-> Reading(n)]
           IN  jobs' = (jobs \ {j}) \cup {Job(j.row, j.via, j.left \ {n}, read)}
        /\ UNCHANGED reconciled
  /\ UNCHANGED <<transcripts, head, rows, links, ledger, control, sweeps, history>>

\* What was read is observed and the link marked, in one transaction.
Reconcile(j) ==
  /\ daemon # "down" /\ j.read # NoRead
  /\ ledger' = Observe(ledger, j.row, j.read.native, j.read.usage)
  /\ reconciled' = [reconciled EXCEPT ![j.row] = @ \cup {j.read.native}]
  /\ jobs' = (jobs \ {j}) \cup {Job(j.row, j.via, j.left, NoRead)}
  /\ UNCHANGED <<transcripts, head, rows, links, control, sweeps, history>>

\* A release's reconciliation is followed by a clean-up of the cursors.
JobEnds(j) ==
  /\ daemon # "down" /\ j.read = NoRead /\ j.left = {}
  /\ jobs' = jobs \ {j}
  /\ tidying' = IF j.via = "release" THEN tidying \cup links[j.row] ELSE tidying
  /\ UNCHANGED <<transcripts, head, rows, linkage, ledger, control, cursor, moved, sweep, history>>

\* The first error ends the reconciliation and is logged.
JobFails(j) ==
  /\ Faults /\ daemon # "down"
  /\ jobs' = jobs \ {j}
  /\ owed' = IF j.via = "boot" THEN {o \in owed : o.row # j.row} ELSE owed
  /\ excused' = excused \cup {<<j.row, n>> : n \in (j.left \cup {j.read.native}) \ {None}}
  /\ UNCHANGED <<transcripts, head, rows, linkage, ledger, control, sweeps, recounted>>

\* A cursor is dropped, between two sweeps, unless an active row still needs it.
Tidy(n) ==
  /\ daemon # "down" /\ n \in tidying /\ sweep[n] = NoSweep
  /\ tidying' = tidying \ {n}
  /\ cursor' = IF \E r \in Rows : status[r] = "working" /\ n \in links[r]
               THEN cursor ELSE [cursor EXCEPT ![n] = NoCursor]
  /\ UNCHANGED <<transcripts, head, rows, linkage, ledger, control, moved, sweep, jobs, history>>
-----------------------------------------------------------------------------
(* Stop, shutdown, crash and boot. *)

\* session.stop: refused if the row ended and its process is gone.
Stop(r) ==
  /\ Serving /\ status[r] # "none" /\ (status[r] = "working" \/ Live(r))
  /\ status' = IF status[r] = "working" THEN [status EXCEPT ![r] = "stopped"] ELSE status
  /\ phase' = IF Live(r) THEN [phase EXCEPT ![pid[r]] = "closing"] ELSE phase
  /\ UNCHANGED <<transcripts, rowOf, talk, seen, sent, patched, pid, native, linkage, ledger, control, sweeps, jobs, history>>

ShutdownBegins ==
  /\ Serving /\ restarts < MaxRestarts /\ Room
  /\ daemon' = "draining" /\ restarts' = restarts + 1
  /\ LET active == {r \in Rows : status[r] = "working"}
     IN  /\ status' = [r \in Rows |-> IF r \in active THEN "interrupted" ELSE status[r]]
         /\ killing' = {pid[r] : r \in active} \ {None}
  /\ UNCHANGED <<transcripts, head, pid, native, linkage, ledger, sweeps, jobs, history>>

KillHead(h) ==
  /\ daemon = "draining" /\ h \in killing
  /\ killing' = killing \ {h}
  /\ phase' = IF Alive(h) THEN [phase EXCEPT ![h] = "closing"] ELSE phase
  /\ UNCHANGED <<transcripts, rowOf, talk, seen, sent, patched, rows, linkage, ledger, daemon, restarts, sweeps, jobs, history>>

\* The daemon is gone, and with it what it had in memory.
Down ==
  /\ daemon' = "down" /\ killing' = {} /\ jobs' = {} /\ tidying' = {} /\ owed' = {}
  /\ cursor' = [n \in Natives |-> NoCursor]
  /\ moved' = [n \in Natives |-> FALSE]
  /\ sweep' = [n \in Natives |-> NoSweep]
  /\ excused' = {}
  /\ UNCHANGED <<transcripts, head, rows, linkage, ledger, recounted>>

Exit == daemon = "draining" /\ killing = {} /\ UNCHANGED restarts /\ Down

Crash ==
  \/ daemon = "draining" /\ UNCHANGED restarts /\ Down
  \/ Serving /\ restarts < MaxRestarts /\ Room /\ restarts' = restarts + 1 /\ Down

\* recover(): what becomes of a row that is found active.
Recovered(r) ==
  CASE status[r] # "working" -> status[r]
    [] pid[r] = None -> "failed"
    [] Live(r) -> "working"
    [] OTHER -> "completed"

MutantRetried(r) == Recovered(r) = "interrupted"

\* The rows reconciled at boot, if they have links that are not reconciled.
Retried(r) == Recovered(r) \in {"interrupted", "completed", "failed"}

\* History: how a boot finds a row, told by whether it has a pid.
Found(r) == IF status[r] = "working" /\ pid[r] = None THEN "unpatched" ELSE status[r]

Boot ==
  /\ daemon = "down" /\ daemon' = "up"
  /\ status' = [r \in Rows |-> Recovered(r)]
  /\ jobs' = {Job(r, "boot", links[r], NoRead) : r \in {q \in Rows : Retried(q) /\ links[q] # reconciled[q]}}
  /\ owed' = UNION {{[row |-> r, native |-> n, usage |-> Reading(n),
                      found |-> Found(r), marked |-> n \in reconciled[r]]
                       : n \in {k \in links[r] : total[k] # Null}}
                     : r \in {q \in Rows : status[q] # "none" /\ Recovered(q) # "working"}}
  /\ UNCHANGED <<transcripts, head, pid, native, linkage, ledger, restarts, killing, sweeps, excused, recounted>>
-----------------------------------------------------------------------------
Init ==
  /\ total = [n \in Natives |-> Null] /\ billed = [n \in Natives |-> Null]
  /\ phase = [h \in Heads |-> "none"]
  /\ rowOf = [h \in Heads |-> None] /\ talk = [h \in Heads |-> None]
  /\ seen = [h \in Heads |-> {}] /\ sent = [h \in Heads |-> {}]
  /\ patched = [h \in Heads |-> FALSE]
  /\ status = [r \in Rows |-> "none"] /\ pid = [r \in Rows |-> None]
  /\ native = [r \in Rows |-> None]
  /\ links = [r \in Rows |-> {}] /\ reconciled = [r \in Rows |-> {}]
  /\ ledger = EmptyLedger
  /\ daemon = "up" /\ restarts = 0 /\ killing = {}
  /\ cursor = [n \in Natives |-> NoCursor] /\ moved = [n \in Natives |-> FALSE]
  /\ sweep = [n \in Natives |-> NoSweep] /\ tidying = {} /\ jobs = {}
  /\ owed = {} /\ excused = {} /\ recounted = [n \in Natives |-> 0]

HeadStep ==
  \E h \in Heads :
    \/ \E n \in Natives : Talk(h, n)
    \/ WriteMessage(h) \/ Rewrite(h)
    \/ \E saves \in BOOLEAN : HeadEnds(h, saves)
    \/ TerminalCloses(h)
    \/ LaunchFails(h)

RequestStep ==
  \E h \in Heads :
    \/ \E n \in Natives \cup {None} : Adopt(h, n)
    \/ Patch(h)
    \/ \E n \in Natives : LinkNative(h, n)
    \/ Release(h)
    \/ \E v \in Usages \cup {Null}, sweeping \in BOOLEAN : StatusLine(h, v, sweeping)

SweepStep == \E n \in Natives : SweepBegins(n) \/ SweepEnds(n) \/ Tidy(n)

JobStep == \E j \in jobs : (\E n \in Natives : ReadTranscript(j, n)) \/ Reconcile(j) \/ JobEnds(j)

DaemonStep ==
  \/ \E r \in Rows : Stop(r)
  \/ ShutdownBegins
  \/ \E h \in Heads : KillHead(h)
  \/ Exit \/ Crash \/ Boot

Next ==
  \/ HeadStep \/ RequestStep \/ SweepStep \/ JobStep \/ DaemonStep
  \/ \E j \in jobs : JobFails(j)

Spec == Init /\ [][Next]_vars
-----------------------------------------------------------------------------
\* What the rows were attributed of a source, together.
Attributed(share, k) == MapThenSumSet(LAMBDA r : share[r][k], Rows)

\* What the rows were attributed of a conversation adds up to its high-water
\* mark, whoever observed it and in whatever order (spec ORCH-15).
SumIsMark == \A n \in Natives : Attributed(ledger.share, n) = OrZero(ledger.mark[n])

\* No message is counted twice: not by a sweep after a replaced file, a lost
\* cursor or a restart, nor by two rows or two ways of observing at once.  The
\* exception are messages without both ids, which a sweep cannot tell from new
\* ones when it reads a replaced file from its start; what is counted too much
\* is no more than those.
NeverOvercounted ==
  /\ \A n \in Natives : OrZero(ledger.mark[n]) <= OrZero(total[n]) + recounted[n]
  /\ \A n \in Natives : cursor[n].counted <= OrZero(total[n]) + recounted[n]

BootDone == Serving /\ \A j \in jobs : j.via # "boot"

\* Once the reconciliation of a boot is over, every link of an ended row that
\* was left unreconciled has been counted up to what the transcript then held.
BootReads ==
  BootDone =>
    \A o \in owed : o.found # "stopped" /\ ~o.marked => o.usage <= OrZero(ledger.mark[o.native])

\* The links of a row that ended by a release or at a boot are being reconciled
\* until they are, unless they were made later or reading them has failed.  A
\* new head on the row releases it again.
EndedIsReconciled ==
  \A r \in Rows : Serving /\ status[r] \in {"completed", "failed"} =>
    \A n \in links[r] \ reconciled[r] :
      \/ <<r, n>> \in excused
      \/ \E j \in jobs : j.row = r /\ (n \in j.left \/ n = j.read.native)
==============================================================================
