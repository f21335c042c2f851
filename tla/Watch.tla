-------------------------------- MODULE Watch --------------------------------
(***************************************************************************)
(* Who follows a session: `wait`, the foreground `run` and `logs --follow` *)
(* (src/cli) against the daemon's broadcasts.  The session is what a       *)
(* follower can tell apart of SessionLifecycle: its status, the last event *)
(* of its log, the turn, the lock and the slot.  A follower changes        *)
(* nothing of the session, so one of them is enough: its kind is chosen in *)
(* Init.                                                                   *)
(***************************************************************************)
EXTENDS Naturals

CONSTANTS
  None,
  MaxTurns,      \* bound: turns of the session
  MaxRestarts    \* bound: boots after the first

\* No exit code and no verdict yet.
ASSUME NoneAssumption == None \notin {"ok", "failed", "infra", "completed"}

VARIABLES
  daemon,      \* "up", "draining" or "down"
  status,      \* the row's status; a "dead" view of it counts as working
  said,        \* the newest session.completed or session.failed of the log
  isLast,      \* it is the log's last event
  refused,     \* history: the store refused the row an outcome
  unsaid,      \* the row ended and no subscriber was told
  loop,        \* the turn: "off", "starts", "reads", "holds", "stuck"
  held,        \* the verdict a loop waits to commit
  lock,        \* "free" or the operation that holds it
  was,         \* what a stop read before its await
  arrived,     \* an event was stored since
  pending,     \* the slot holds a message
  handle,      \* the driver has a runtime for the session
  turns, restarts, stopAsked,
  kind,        \* "wait", "run" or "logs"
  pc, subscribed, asked,
  mail,        \* lines of the subscription the follower has not read
  outcome,     \* the verdict a run heard
  code         \* the exit code

row == <<status, refused>>
log == <<said, isLast>>
turn == <<loop, held, handle, turns>>
stop == <<was, arrived, stopAsked>>
life == <<daemon, restarts>>
follower == <<kind, pc, asked, outcome, code>>
session == <<row, unsaid, log, turn, lock, stop, pending, life>>
vars == <<session, follower, mail, subscribed>>

Verdicts == {"completed", "failed"}
Ended == {"completed", "failed", "stopped", "orphaned", "interrupted"}
Terminal(s) == s \in Ended
Up == daemon = "up"

Code(s) ==
  CASE s \in {"failed", "orphaned"} -> "failed" [] s = "interrupted" -> "infra" [] OTHER -> "ok"

Init ==
  /\ daemon = "up" /\ status = "working" /\ refused = FALSE /\ said = None /\ isLast = FALSE /\ unsaid = FALSE
  /\ loop = "starts" /\ held = None /\ lock = "free" /\ was = None /\ arrived = FALSE
  /\ pending = FALSE /\ handle = FALSE /\ turns = 1 /\ restarts = 0 /\ stopAsked = FALSE
  /\ kind \in {"wait", "run", "logs"} /\ pc = "first" /\ subscribed = FALSE /\ asked = FALSE
  /\ mail = {} /\ outcome = None /\ code = None

-----------------------------------------------------------------------------
(* The session. *)

\* broadcast: a verdict is followed by the line that ends the stream.
Broadcast(v) == mail' = IF subscribed THEN mail \cup {v, "done"} ELSE mail
Logs(v) == said' = v /\ isLast' = TRUE /\ arrived' = (arrived \/ lock = "stop")
\* An event that is no verdict.
LogsOther == isLast' = FALSE /\ arrived' = (arrived \/ lock = "stop") /\ UNCHANGED said

\* The store may refuse a status: the row stays as it is.
Sets(s) == status' = s /\ UNCHANGED refused
Refuses == UNCHANGED status /\ refused' = TRUE
Writes(s) == Sets(s) \/ Refuses

\* emit
Tells(v) == Logs(v) /\ Broadcast(v) /\ unsaid' = FALSE

\* A start that fails. The first one's failure is told and not stored, a
\* queued message's and an automatic one's is told and stored unless the store
\* refuses it, a send's is neither: its client gets the error.
Failure(owner) ==
  /\ Writes("failed")
  /\ \/ owner \in {"dispatch", "resume"} /\ Logs("failed")
     \/ UNCHANGED <<log, arrived>>
  /\ IF owner = "send" THEN UNCHANGED mail ELSE Broadcast("failed")
  /\ unsaid' = (owner = "send" /\ (unsaid \/ status' = "failed"))

\* An event loop that throws: create waits for its own and takes that for a
\* start that fails; of the others nobody hears.
Thrown ==
  /\ UNCHANGED <<log, arrived>>
  /\ IF turns = 1 /\ restarts = 0
     THEN Writes("failed") /\ Broadcast("failed") /\ unsaid' = FALSE
     ELSE UNCHANGED <<row, mail, unsaid>>
\* The loop's report of a failure goes to the store that may have failed it:
\* the event first, which is told, then the status.
ReportRefused == (Tells("failed") /\ Refuses) \/ Thrown

Begins(owner) ==
  /\ lock' = owner /\ loop' = "starts" /\ turns' = turns + 1
  /\ Sets("working") /\ unsaid' = FALSE /\ LogsOther
  /\ UNCHANGED <<held, handle>>

Started ==
  /\ Up /\ loop = "starts"
  /\ loop' = "reads" /\ handle' = TRUE
  /\ lock' = IF lock = "stop" THEN lock ELSE "free"
  /\ UNCHANGED <<row, unsaid, log, held, turns, stop, pending, life, follower, mail, subscribed>>

\* Before the spawn, or after it: then the runtime has no loop.
StartFails ==
  /\ Up /\ loop = "starts"
  /\ Failure(lock)
  /\ \/ loop' = "off" /\ UNCHANGED handle
     \/ loop' = "stuck" /\ handle' = TRUE
  /\ lock' = IF lock = "stop" THEN lock ELSE "free"
  /\ pending' \in {pending, pending \/ lock = "dispatch"}
  /\ UNCHANGED <<held, turns, was, stopAsked, life, follower, subscribed>>

\* The store refuses the first write of a start: no turn begins.
StartRefused(owner) ==
  /\ Up /\ lock = "free" /\ loop = "off"
  /\ owner = "dispatch" => pending
  /\ owner = "resume" => restarts > 0 /\ ~handle /\ status = "interrupted"
  /\ Failure(owner)
  /\ pending' \in {pending, FALSE}
  /\ UNCHANGED <<turn, lock, was, stopAsked, life, follower, subscribed>>

\* MUTANT Arrives: the verdict is told before it is stored.
MutantArrives(v) ==
  /\ Up /\ loop = "reads" /\ lock = "free"
  /\ loop' = "holds" /\ held' = v
  /\ Broadcast(v)
  /\ UNCHANGED <<row, unsaid, log, lock, handle, turns, stop, pending, life, follower, subscribed>>

\* A verdict under a lock is dropped; another waits for the store.
Arrives(v) ==
  /\ Up /\ loop = "reads" /\ lock = "free"
  /\ loop' = "holds" /\ held' = v
  /\ UNCHANGED <<row, unsaid, log, lock, handle, turns, stop, pending, life, follower, mail, subscribed>>

\* updateSessionFromEvent passes over a status that it cannot write.
Commits ==
  /\ Up /\ loop = "holds"
  /\ loop' = "reads" /\ held' = None
  /\ IF status = "stopped" THEN UNCHANGED row ELSE Writes(held)
  /\ Tells(held)
  /\ UNCHANGED <<lock, handle, turns, was, stopAsked, pending, life, follower, subscribed>>

\* An event loop's stream ends: its tail, and the message that waited.
Dispatches(resumable) == resumable /\ pending /\ lock = "free" /\ turns < MaxTurns
Ends(resumable) ==
  LET closed == IF Terminal(status) THEN status ELSE IF isLast THEN said ELSE "failed"
      synthesized == ~Terminal(status) /\ ~isLast
  IN /\ Up /\ loop = "reads"
     /\ IF synthesized THEN Broadcast("failed") ELSE UNCHANGED mail
     /\ IF Dispatches(resumable)
        THEN /\ lock' = "dispatch" /\ loop' = "starts" /\ turns' = turns + 1
             /\ Sets("working") /\ unsaid' = FALSE /\ pending' = FALSE
             /\ said' = (IF synthesized THEN "failed" ELSE said) /\ isLast' = FALSE
             /\ UNCHANGED arrived
        ELSE /\ Sets(closed) /\ loop' = "off"
             /\ unsaid' = (unsaid \/ (~Terminal(status) /\ ~synthesized))
             /\ IF synthesized THEN Logs("failed") ELSE UNCHANGED <<log, arrived>>
             /\ UNCHANGED <<lock, turns, pending>>
     /\ UNCHANGED <<held, handle, was, stopAsked, life, follower, subscribed>>
\* The tail cannot write: it throws, and the message stays in the slot.
TailThrows ==
  /\ Up /\ loop = "reads" /\ ~Terminal(status)
  /\ loop' = "off"
  /\ IF isLast THEN Thrown ELSE ReportRefused
  /\ UNCHANGED <<held, handle, turns, lock, was, stopAsked, pending, life, follower, subscribed>>

\* A stream or a commit that fails for good: the runtime is never drained.
Throws ==
  /\ Up /\ loop \in {"reads", "holds"}
  /\ loop' = "stuck" /\ held' = None
  /\ (Tells("failed") /\ Sets("failed")) \/ ReportRefused
  /\ UNCHANGED <<lock, handle, turns, was, stopAsked, pending, life, follower, subscribed>>

Sends ==
  /\ Up /\ lock = "free"
  /\ \/ /\ loop # "off"
        /\ pending' = TRUE /\ LogsOther
        /\ UNCHANGED <<row, unsaid, turn, lock>>
     \/ /\ loop = "off" /\ turns < MaxTurns
        /\ pending' = FALSE
        /\ Begins("send")
  /\ UNCHANGED <<was, stopAsked, life, follower, mail, subscribed>>

Stops ==
  /\ Up /\ lock = "free"
  /\ ~Terminal(status) \/ handle
  /\ lock' = "stop" /\ was' = status /\ arrived' = FALSE /\ stopAsked' = TRUE
  /\ Sets(IF Terminal(status) THEN status ELSE "stopped")
  /\ unsaid' = (unsaid \/ ~Terminal(status))
  /\ pending' \in {pending, FALSE}
  /\ UNCHANGED <<log, turn, life, follower, mail, subscribed>>
StopEnds ==
  /\ Up /\ lock = "stop"
  /\ lock' = "free" /\ pending' \in {pending, FALSE} /\ was' = None /\ arrived' = FALSE
  /\ CASE arrived /\ isLast -> Sets(said) /\ unsaid' = FALSE /\ UNCHANGED <<log, mail>>
       [] ~(arrived /\ isLast) /\ ~Terminal(was) ->
            said' = "completed" /\ isLast' = TRUE /\ unsaid' = FALSE /\ Broadcast("completed") /\ UNCHANGED row
       [] OTHER -> UNCHANGED <<row, unsaid, log, mail>>
  /\ UNCHANGED <<turn, stopAsked, life, follower, subscribed>>
\* The status of before is put back, if the store lets it.
StopFails ==
  /\ Up /\ lock = "stop"
  /\ lock' = "free" /\ was' = None /\ arrived' = FALSE
  /\ \/ Sets(was) /\ unsaid' = (unsaid /\ Terminal(was))
     \/ Refuses /\ UNCHANGED unsaid
  /\ UNCHANGED <<log, turn, stopAsked, pending, life, follower, mail, subscribed>>

\* Every request but a repeated stop of the daemon is refused from here on.
Shutdown ==
  /\ Up
  /\ daemon' = "draining" /\ loop' = "off" /\ held' = None
  /\ \/ UNCHANGED <<row, log, mail>>
     \/ /\ ~Terminal(status)
        /\ Writes("interrupted") /\ said' = "failed" /\ isLast' = TRUE /\ Broadcast("failed")
  /\ UNCHANGED <<handle, turns, lock, stop, unsaid, pending, restarts, follower, subscribed>>
\* The drain is over, or a crash: the sockets close.
Dies ==
  /\ daemon # "down"
  /\ daemon' = "down" /\ loop' = "off" /\ held' = None /\ handle' = FALSE
  /\ lock' = "free" /\ was' = None /\ arrived' = FALSE
  /\ mail' = IF subscribed THEN mail \cup {"close"} ELSE mail
  /\ subscribed' = FALSE
  /\ UNCHANGED <<row, unsaid, log, turns, stopAsked, pending, restarts, follower>>
\* recover() is over before the daemon listens: nobody is subscribed.
Boots ==
  /\ daemon = "down" /\ restarts < MaxRestarts
  /\ daemon' = "up" /\ restarts' = restarts + 1 /\ unsaid' = FALSE
  /\ \/ /\ ~Terminal(status) /\ loop' = "reads" /\ handle' = TRUE
        /\ UNCHANGED <<status, log>>
     \/ /\ ~Terminal(status) /\ status' \in {"failed", "orphaned"}
        /\ UNCHANGED <<loop, handle, log>>
     \/ /\ ~Terminal(status) /\ status' = "failed" /\ said' = "failed" /\ isLast' = TRUE
        /\ UNCHANGED <<loop, handle>>
     \/ Terminal(status) /\ UNCHANGED <<status, loop, handle, log>>
  /\ UNCHANGED <<refused, held, turns, lock, stop, pending, follower, mail, subscribed>>
AutoResumes ==
  /\ Up /\ restarts > 0 /\ ~handle /\ lock = "free" /\ loop = "off"
  /\ status = "interrupted" /\ turns < MaxTurns
  /\ Begins("resume")
  /\ UNCHANGED <<was, stopAsked, pending, life, follower, mail, subscribed>>

-----------------------------------------------------------------------------
(* The followers. *)

\* MUTANT Subscribe: a late subscriber waits for the next broadcast.
MutantSubscribe == subscribed' = TRUE /\ mail' = {}

\* session.subscribe: of a session that ended, the end is told again.
Subscribe ==
  /\ subscribed' = ~Terminal(status)
  /\ mail' = IF ~Terminal(status) THEN {} ELSE IF isLast THEN {said, "done"} ELSE {"done"}
HangUp == subscribed' = FALSE /\ mail' = {}
Exit(c) == pc' = "ended" /\ code' = c

WaitGets ==
  /\ kind = "wait" /\ pc \in {"first", "get"}
  /\ CASE Up /\ Terminal(status) -> Exit(Code(status))
       [] ~Up /\ pc = "first" -> Exit("infra")
       [] OTHER -> pc' = "subscribe" /\ UNCHANGED code
  /\ UNCHANGED <<session, kind, asked, outcome, mail, subscribed>>
WaitSubscribes ==
  /\ kind = "wait" /\ pc = "subscribe"
  /\ IF Up THEN Subscribe /\ pc' = "listen" ELSE pc' = "get" /\ UNCHANGED <<mail, subscribed>>
  /\ UNCHANGED <<session, kind, asked, outcome, code>>
WaitHears ==
  /\ kind = "wait" /\ pc = "listen" /\ mail # {}
  /\ pc' = "get" /\ HangUp
  /\ UNCHANGED <<session, kind, asked, outcome, code>>

\* run: the subscription and the request for the log are under way together.
RunSubscribes ==
  /\ kind = "run" /\ pc \in {"first", "listen"} /\ ~asked
  /\ asked' = TRUE
  /\ IF Up THEN Subscribe ELSE mail' = {"close"} /\ subscribed' = FALSE
  /\ UNCHANGED <<session, kind, pc, outcome, code>>
RunReadsLog ==
  /\ kind = "run" /\ pc = "first"
  /\ IF Up /\ said # None
     THEN pc' = "finish" /\ outcome' = said /\ asked' = TRUE /\ HangUp
     ELSE pc' = "listen" /\ UNCHANGED <<outcome, asked, mail, subscribed>>
  /\ UNCHANGED <<session, kind, code>>
RunHears ==
  /\ kind = "run" /\ pc \in {"first", "listen"} /\ mail # {}
  /\ pc' = "finish" /\ HangUp
  /\ IF mail \cap Verdicts = {} THEN UNCHANGED outcome ELSE outcome' \in mail \cap Verdicts
  /\ UNCHANGED <<session, kind, asked, code>>
\* finishFromStore
RunFinishes ==
  /\ kind = "run" /\ pc = "finish"
  /\ Exit(IF Up THEN Code(status) ELSE IF outcome = "completed" THEN "ok" ELSE "failed")
  /\ UNCHANGED <<session, kind, asked, outcome, mail, subscribed>>
RunPolls ==
  /\ kind = "run" /\ pc = "listen" /\ Up /\ Terminal(status)
  /\ Exit(Code(status)) /\ HangUp
  /\ UNCHANGED <<session, kind, asked, outcome>>

LogsReads ==
  /\ kind = "logs" /\ pc = "first"
  /\ IF Up THEN pc' = "subscribe" /\ UNCHANGED code ELSE Exit("failed")
  /\ UNCHANGED <<session, kind, asked, outcome, mail, subscribed>>
LogsSubscribes ==
  /\ kind = "logs" /\ pc = "subscribe"
  /\ IF Up THEN Subscribe /\ pc' = "listen" /\ UNCHANGED code
     ELSE Exit("failed") /\ UNCHANGED <<mail, subscribed>>
  /\ UNCHANGED <<session, kind, asked, outcome>>
LogsHears ==
  /\ kind = "logs" /\ pc = "listen" /\ mail # {}
  /\ Exit(IF "failed" \in mail THEN "failed" ELSE "ok") /\ HangUp
  /\ UNCHANGED <<session, kind, asked, outcome>>
\* Its poll knows three of the statuses that end a session.
LogsPolls ==
  /\ kind = "logs" /\ pc = "listen" /\ Up /\ status \in {"completed", "failed", "stopped"}
  /\ Exit(Code(status)) /\ HangUp
  /\ UNCHANGED <<session, kind, asked, outcome>>

Follows ==
  \/ WaitGets \/ WaitSubscribes \/ WaitHears
  \/ RunSubscribes \/ RunReadsLog \/ RunHears \/ RunFinishes \/ RunPolls
  \/ LogsReads \/ LogsSubscribes \/ LogsHears \/ LogsPolls

Next ==
  \/ Started \/ StartFails
  \/ \E owner \in {"send", "dispatch", "resume"} : StartRefused(owner)
  \/ \E v \in Verdicts : Arrives(v)
  \/ Commits
  \/ \E resumable \in BOOLEAN : Ends(resumable)
  \/ TailThrows \/ Throws \/ Sends \/ Stops \/ StopEnds \/ StopFails
  \/ Shutdown \/ Dies \/ Boots \/ AutoResumes
  \/ Follows

\* The followers read their sockets and their timers fire; killTree gives up
\* after a bounded time, so a stop answers. Harnesses, clients and the daemon
\* owe nothing.
Spec == Init /\ [][Next]_vars /\ WF_vars(Follows) /\ WF_vars(StopEnds \/ StopFails)

-----------------------------------------------------------------------------
\* No follower outlasts its session: once the session stays ended under a
\* daemon that serves, wait, run and logs --follow come to an end, however
\* the end and their subscription fell together (daemon.ts 1345-1363, 1585-
\* 1600). The formula names the exceptions of the code, which wait, the only
\* one of the three without a poll, waits for in vain: a send whose start
\* fails (daemon.ts 1234), the tail of a loop whose verdict was told before,
\* under a stop that failed or while the store refused the status (1913), and
\* a stop that fails and cannot put the status back (1315) end the row and
\* tell nobody.
WatchEnds ==
  []<>( \/ pc = "ended" \/ ~Up \/ ~Terminal(status)
        \/ kind = "wait" /\ subscribed /\ unsaid )

\* The exit code of run is the session's outcome: of a session with one turn,
\* that nobody stopped and whose daemon serves since its start, 0 means
\* completed (the comments of run.ts 246 and 281; "Broadcast only after the durable
\* event+cursor commit", daemon.ts 1882). The exception is an outcome that was
\* told though the store refused it to the row (917-918, 1900-1901): run reads
\* a row that still works and takes that for success.
RunTellsOutcome ==
  [][kind = "run" /\ pc # "ended" /\ code' = "ok" /\ turns = 1 /\ ~stopAsked /\ Up /\ restarts = 0
       => status = "completed" \/ (refused /\ status = "working")]_vars
=============================================================================
