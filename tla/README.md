# codedeck in TLA+

codedeck runs coding agents ("harnesses": claude, codex, opencode, omp, antigravity, grok) as
detached processes. A daemon starts them, tails their log files, normalizes what they write into
events and keeps everything in one SQLite database; short-lived CLI commands and a web console talk
to the daemon over a socket. This directory specifies the parts of it that are hard to test: what
happens when the daemon dies between two writes, when a stop meets the end of a turn, when a
message is queued in the last instant of a turn, when two paths count the same usage.

All source paths below are relative to the repository's `src/`.

## The system

| Component | State it keeps | Operations | What makes it correct |
| --- | --- | --- | --- |
| Event pipeline: `drivers/session-runtime.ts`, `tailer.ts`, `terminal.ts`, `store/events.ts`, the event loop of `daemon/daemon.ts` | log files, read and safe cursors, buffer, yielded and consumed counters; events table; cursor and status columns | tail, normalize, yield, commit, finish, drain, reattach | nothing lost, nothing stored twice, in order; status and log agree; a dead harness is reported |
| Session lifecycle and send queue: `daemon/daemon.ts`, `daemon/auto-resume.ts`, `drivers/session-driver.ts`, `store/sessions.ts` | session row (status, pid, native id, pending message), sidecar file, driver handles, `sessionLocks` | create, send, dispatch, stop, release, shutdown, recover, heal, auto-resume | one harness per session, at most one start per message, a stop that holds, no forgotten session |
| Open (interactive) sessions: `cli/commands/open.ts`, `open/*` | a row with the head process of the user's terminal, links to native conversation ids | adopt, patch, linkNative, release, boot recovery | a row ends when its terminal ends; a resumed conversation continues its row |
| Usage ledger: `store/usage-ledger.ts`, `native-links.ts`, `core/claude-transcript.ts` | high-water mark per source, attribution per row and source, transcript cursors | observe, ingest, reconcile, usage.get | every increase counted once, for one row; nothing lost when a session ends |
| Event subscribers: `session.subscribe`, `cli/commands/wait.ts`, `run.ts`, `logs.ts` | sets of sockets; each follower's progress | subscribe, broadcast, follow, poll | no follower outlasts its session; the exit code is the session's outcome |
| Daemon boot: `daemon/instance-lock.ts`, `ipc.ts`, `build-id.ts` | lock file, socket, pid file | probe, start on demand, acquire, listen, drain | the daemon that serves is the one behind the socket |
| Web console supervisor: `daemon/web-supervisor.ts`, `web/child.ts`, `cli/web-launch.ts` | the child process and how it was started | ensure, replace, handshake, exit, close | every ensure is answered, with the console that was asked for; no console outlives its daemon |
| Setup page and configuration: `web/setup-page.ts`, `setup-routes.ts`, `config/*` | settings file, legacy file, model catalog; the page's draft, drawer and flags | load, edit, refresh, dry run, apply; batch setup | what is written was reviewed and confirmed, and keeps what others wrote |
| Setup wizard: `cli/commands/setup.ts`, `picker-state.ts` | the screens still to come, the answers | keys, paste, confirm, save | saved as answered; a key held down answers nothing twice |
| The keyboard of an open session: `open/pty.ts`, `injection.ts` | what the gate thinks of the harness's line; the pending rename | forward, observe, inject | a rename is typed on an empty line only, and is not forgotten |
| Claims board: `store/claims.ts`, `session.create` | claims of sessions on paths; reserved session ids | add, query, release; create across its awaits | a claim lives as long as its session; creates that overlap do not meet |
| Drivers and parsers: `drivers/*/` | Antigravity's parser: the turn so far | parse a line, build a command line, classify a failure | terminal frames are recognized; a failure is blamed on who caused it |
| Process tree: `utils/process.ts` | none | killTree | the right process group is ended |
| Rules of `run` and `open`: `cli/commands/run.ts`, `config/config.ts`, `open.ts`, `open/contract.ts` | none | resolve agent, model, effort, role, invocation | the row is what was asked for |
| Git, database, UI, plugin | none of their own | | |

Everything in the daemon is one Node thread: between two `await`s nothing else of the daemon runs.
What interleaves is the harness processes, the files, CLI requests, timers, promises that resume
after an `await`, and the end of the daemon process at any instant, by a power shutdown that drains
(`runShutdown`) or by a kill that does not. SQLite transactions are atomic and survive the crash.
`PROJECT.json` lists the hazards that follow from this, with the lines where they bite.

## Modules

| Module | What it is |
| --- | --- |
| `EventLog` | Abstract: the log of one session records the events of the harness's lines once each, in file order, nothing missing but deliberately discarded terminal frames. |
| `EventPipeline` | The detailed path of one session's events; implements `EventLog`. |
| `EventPipeline_proofs` | TLAPS: types, no loss, no duplicate, the outcome, the refinement. |
| `Harnesses` | What each driver tells its harness and makes of each kind of line; failure classes. Operators with assumptions that TLC evaluates. |
| `SendQueue` | Abstract: what becomes of a message sent to a session. |
| `SessionLifecycle` | The turns, requests and daemon lives of one headless session; implements `SendQueue`. |
| `SessionLifecycle_proofs` | TLAPS: the inductive invariant and what follows from it; the refinement. |
| `UsageLedger` | The ledger as a value and `Observe` as an operator on it; no behaviour of its own. |
| `OpenUsage` | The daemon's side of interactive sessions and the three ways in which what they use reaches the ledger; extends `UsageLedger`. |
| `OpenUsage_proofs` | TLAPS: nothing counted twice, the rows' shares add up, no link forgotten, a boot counts what it finds. |
| `OpenRules`, `OpenLaunch` | The command `codedeck open`: its pure decisions; one run of it. |
| `InputGate` | The keyboard of an open session under a pty. |
| `SetupConfig`, `Setup` | Settings documents and catalogs as values; the setup page and everybody else who writes them. |
| `Setup_proofs` | TLAPS: types, the page's invariant, what a save writes. |
| `SetupWizard` | `codedeck setup --tui`, key by key. |
| `Terminal_proofs` | TLAPS for the programs at the terminal: `OpenLaunch`, `InputGate`, `SetupWizard`. |
| `Host`, `Host_proofs` | Commands, daemons, the lock, the socket, the supervisor and the consoles. |
| `Watch`, `Watch_proofs` | `wait`, `run` and `logs --follow` beside their session; TLAPS for `run`'s exit code. |
| `Board` | The rows of several sessions across the awaits of `session.create`, and the claims board. |
| `KillTree` | `killTree` against a process table that recycles pids. |
| `Duties_proofs` | TLAPS for `Board` and `KillTree`. |
| `RunRules` | What `run` makes of its options and the settings, as operators with assumptions. |
| `MC*` | Finite instances for TLC; the `.cfg` files give the constants. `MCTerminal` and `MCDuties` put modules side by side that share no state: a behaviour is about one of them. |

Three kinds of composition: a module that extends another (`OpenUsage` and `UsageLedger`, `Setup`
and `SetupConfig`, `OpenLaunch` and `OpenRules`); a refinement (`EventPipeline`, `SessionLifecycle`);
and an instance that takes its inputs from another module (`MCEventPipeline` uses only frames that
`Harnesses` says the parsers produce). Otherwise a module sees its neighbours through what they
promise: `Watch` and `Board` see of a session its row, `Host` sees of a daemon whether it serves.

Where the guards of a `CASE` overlap, it stands for an `if`/`else if` of the code and is read in that
order, as TLC reads it.

### EventPipeline

A file is a sequence of lines and a line is the sequence of event types that it normalizes to, so
the cursors count lines where the code counts bytes (the tailer never hands out an offset inside a
line). `out`, `alive`, `turn` are the world; `store`, `saved`, `status` the database; `rt`, `read`,
`buffer`, `yielded`, `consumed`, `safe`, `quietLine`, `quietAt` the fields of `SessionRuntime`
(`buffer`, `yieldedEvents`, `consumedEvents`, `safeOffsets`, `pendingOffsets`); `consumer` is how
far `attachDriverEvents` has come; `locked`, `stopReq`, `stopping`, `wasActive` are what a stop or a
shutdown has noted. `Pump` is `FileTailer.pump` with `handleLine`, `Finish` the exit handler,
`Deliver` one `yield` of `events()` together with the lock's filter, `Commit` the transaction of
`persistDriverEvent`, `StreamEnd` what follows the loop. `Crash` forgets the runtime; `Restart` is
`recover`.

`Deliver` and `Commit` are two actions because `persistDriverEvent` waits when the store is busy.
`LoopReady` says that the event loop has its next step ready: promise continuations run before any
timer, request or file event, so no other action of the daemon is enabled then (`Idle`). Without it the
model has behaviours that Node does not have.

What may fail is part of the actions. An outcome that the daemon reports itself is two writes, `emit` and
`setStatus` (`Tell`): either may be refused, and the code swallows it, so the row can stay working with no
loop (`CommitFails`, `StreamEnd`, `MarkInterrupted`). A start may throw before its writes, between them or
after the spawn (`StartThrows`), and its caller writes the failure to the row alone, or with an event as well
(`StartReported`); an attach may throw (`RestartGivesUp`); a flush may stop short, at `drainToEof`'s deadline or a
failing read (`Flushed`); `updateSessionFromEvent` may pass over the status of the event it commits (`Commit`).
`faults` counts them, bounded by `MaxFaults`. `split` is history: an outcome was written to the
row or to the log alone; `refused`: this daemon could not tell an outcome.

### SessionLifecycle

Here a turn's output is reduced to its native session id and at most one terminal frame, and the
starting of a turn is opened up: `Begin`, `Announce`, `Spawn`, `WriteSidecar`, `Record` are the
synchronous steps of `runResumeTurn` (and `startDriverForSession`), between which a crash, the harness
or a store error may come but no other step of the daemon: `step` says where it is. A process
identity (pid and start time) is the number of the turn it was spawned for. `StopBegin`/`StopEnd`
and `ShutdownBegin`/`KillHarness`/`DrainRuntime`/`Exit` are split at their `await`s. `BootQuiet`,
`BootGivesUp`, `BootReattach` are the outcomes of `reviveStoreBusyFailures` and `recover` for the
session, `Scan` the auto-resume. `Faults` switches on the failures of the store and of attaching to
the log files: any write of a send, a start, a commit, the end of a stream, a stop, a release or a shutdown's mark
may be refused, by itself where the code gives it a `try` of its own. `ClearPending` is such a write: `stale`
(history) is the message that the last cancel left in the slot because the store refused.

### OpenUsage

`total` and `billed` are the transcripts that Claude heads write: a message costs one, and a
cost-state line repeats the total. `phase`, `rowOf`, `talk`, `seen`, `sent`, `patched` are the
processes of `codedeck open` with their heads, the sidecar file and the link watcher. `status`,
`pid`, `native` are columns of the session row; `links` and `reconciled` the table
`session_native_links`; `ledger` the tables of `store/usage-ledger.ts`. `cursor` and `moved` stand
for `liveTranscriptCursors` and the identity of the file behind each, `sweep` for a run of
`ingestLiveTranscript`, `jobs` for the calls of `reconcileOpenUsage` in progress.

An action is what happens between two `await`s: `SweepBegins`/`SweepEnds` around the read of a chunk,
`ReadTranscript`/`Reconcile` around the read of a transcript, each with the transaction that follows
it. `Job` carries what a reconciliation has read but not committed, so a status line, a sweep, another
reconciliation, an adopt, a stop or a crash can come in between. `Boot` is `recover` for open rows
with the choice of rows that `start` reconciles. The head, its terminal and its transcript are
outside of the repository and modelled from how the code uses them: a head may switch conversations,
end with or without a cost-state line, be killed, or replace its transcript file.

A message that lacks a message id or a request id (`Keyless`) has no key: a sweep that reads a replaced file
from its start takes it for a new one (`Consume`). `recounted` (history) is how often that happened to a conversation.

`owed` and `excused` are history too. `owed` is filled at boot with what the transcript of every link of an
ended row holds then; `excused` names the links made after a row's end, and those whose reading
failed: the code promises nothing of either until the next release or boot.

### Harnesses and RunRules

`Frame(h, l)` is the sequence of event types that harness `h`'s parser makes of a line `l`; a line is
its kind and the features the parser tests. Antigravity's parser remembers the turn, so it is
a function of its memory too. Assumptions compare the operators with what they are for: one line ends a
session at most once, a line that reports an error never completes it, an Antigravity runtime that reattaches reads the rest
of a turn as the one before would have, a harness is told the nearest effort that it takes and which conversation it
goes on with, and exit code 1 means that the harness ended in good order. `RunRules` does the same for `run`: the row that `session.create`
writes, from options, role binding and settings. TLC evaluates the assumptions over all inputs of the
small types in the modules.

### OpenLaunch and OpenRules

One run of `codedeck open`, from adopt to release. `pc` follows the async function of the action;
`watching`, `sent`, `inFlight` are the link watcher and `awaited` the requests that its last flush waits for,
`patch` and `release` the requests that are answered on their own connections, `signals`, `kill`, `guard` the Ctrl+C guard, `raw` and `listening`
what `startPtySession` took of the terminal. `store` and `before` are what opencode or codex has on
disk and the snapshot that is compared with it. `own` and `others` are history: the conversations of
this head and of other launches, and so are `stale`, what the session file held before the launch, and
`again`, the links that a tick sent once more during the last flush. What the daemon does with the requests is in `OpenUsage`.

`OpenRules` has the decisions that wait for nobody: the scan of the arguments, the role among
them, the model of the passthrough, the differences between two listings of conversations.

### InputGate

The gate sees bytes in the chunks in which they were read, and the terminal may cut a key or a report
anywhere. `wire` is what was sent and not yet read, `half` the key that the harness has half of. `gate` is
what codedeck thinks of the harness's line, `line` what that line is; the model lets the harness do with
each key whatever the comments of the gate allow (a menu may open or not, Escape may clear the line or
not: `Texts`, `Menus`). `pending`, `used`, `timer` are the rename, `sidecar` the file that names it.

### Setup, SetupConfig and SetupWizard

`load`, `target`, `draft`, `catalog`, `confirmOff`, `drawer`, `reviewOk`, `refreshing` are the fields of
the page's controller and `shown`, `boxes`, `canApply` what `update()` drew last; every action that
calls it ends with `Update`. A request is in `flight` at the page or at the server, which reads, validates
and writes in steps of its own; `batch` and `wizard` are the command-line programs that write the same file.
`reviewed`, `chosen`, `asked`, `ticked`, `behind` are history: what the page showed and
what the person did. The keyboard reaches the page behind the open drawer; an edit made there may be
saved without review, which `behind` marks.

`SetupWizard` is the sequence of screens: `screens` is `pending` of `runScreens`, an answer may
put a screen right behind itself. `confirming` is the second Enter that a model outside of the catalog asks
for.

### Host

Commands probe the socket, spawn a daemon when nobody answers and poll; a spawned daemon needs the lock
to get to `Binds`. The supervisor is the promise chain of `WebSupervisor.ensure`: `ens` holds every
call with its phase, `web` and `current` the supervisor's two fields. A console is a process of its own,
which says its handshake on stdout and ends with stdin. Daemons, consoles and commands may end at any step.

### Watch

The session is reduced to what a follower can tell apart: the row's status, the last verdict of the
log, the lock and the slot. `mail` is what the subscription has delivered and the follower not read;
`unsaid` says that the row ended and nobody was told. Any status may be refused (`Writes`): the swallowed ones
leave the row as it is (`Failure`, `Commits`, `StopFails`), those of a loop make it throw (`Throws`, `TailThrows`), and
what is thrown reaches nobody but create (`Thrown`). `refused` is history of that. A follower changes nothing of
the session, so one of them is enough.

### Board and KillTree

`Board` opens `session.create` at its two waits for git (`CreateBegins`, `GitAnswers`, `TreeAnswers`)
with the reserved ids; `Moves` is any end or resumption of a session. A use of the board first
releases the claims of ended sessions (`Tidy`), as `withOperation` does. `held` is history: the claims whose
session has neither ended nor released them.

One step of `KillTree` is one system call. `stranger` is who has the pid after the harness; the
kernel does not give it away while the group has a member, and it comes round only while `killTree`
sleeps.

## What is checked

| Run | Shows |
| --- | --- |
| `pipeline` | Safety of the pipeline and its refinement of `EventLog`, with a crash or shutdown at any step and one start, attach, write or flush that fails. |
| `pipeline_live` | Liveness with the same failure: a dead harness is reported unless the store refused it, stops end, output is settled unless its loop or the last flush failed; a shutdown ends unless a commit was given up. |
| `lifecycle` | Safety of the lifecycle with two messages, three processes, an end of the daemon and all faults. |
| `lifecycle_live` | The refinement of `SendQueue`, the watching of active sessions and the liveness of the queue, with a store that accepts writes. |
| `open_usage` | The accounting: two heads on two rows that share a conversation, replaced transcripts, failing reads and stores. |
| `open_links` | The bookkeeping: one row with two conversations through release, stop, shutdown or crash, and boot. |
| `terminal` | The wizard saves what was answered; the rename is typed on an empty line and is not forgotten; `open` leaves the terminal, releases last and names its own conversation. |
| `setup` | The page applies what was reviewed and confirmed and keeps what others wrote. |
| `host` | The daemon that serves is behind the socket; `web.ensure` is answered rightly; consoles end with their daemon. |
| `watch` | No follower outlasts its session; `run`'s exit code is the outcome, unless the store kept it from the row. |
| `duties` | Creates that overlap, the board's answers, and `killTree` against recycled pids. |
| `sidecar_window` | A statement of the repository that the code does not keep (`findings`). |

Every property of a passing run has a mutant in its module (`Mutant...`, the code with a plausible
bug) under which TLC refutes it.

The bounds: two lines of stdout and one of stderr are the fewest that let a quiet line be read ahead
of buffered events, a line of two events be cut by a crash, and two files drift apart. Two turns are
needed to meet the previous turn's leftovers; one crash is enough for the pipeline since a crash leaves
only the database and the files, on which the next one starts afresh; one failure is enough to part the row
from the log, the loop from its row or the cursor from the file's end, which is what the properties speak of. The lifecycle has three
processes, so that a queued turn and a resumed one follow the first, and two messages, so that one
can take the slot from the other; with any write free to fail one end of the daemon is what TLC can cover, and
the theorems on the same four properties speak of any number. Two rows and one conversation are what it takes for two rows to
observe the same source; two conversations of one row are what a superseded link needs. The two
instances of `OpenUsage` split these, since their product is beyond TLC. Two messages let a sweep and
a reconciliation see different prefixes of a transcript; the first has no key and the second one has, so a replaced file
makes one of them be counted again, and two replacements do it twice.

`terminal`: two keys or reports waiting at once, as a report must be cut and followed by a key;
three changes of the harness's store, so that this head, another one and again this head can have the last; a
session file left behind has one id, since its last line decides, and is met without a pty, whose state does not
touch it; the conversations of the directory are symmetric. `setup`: two
edits, one write by somebody else and one new catalog, which can fall between any two requests of the
page; one role, since roles do not influence each other. `host`: one daemon with a successor, as a
daemon that drains meets at most the one that follows it, and two consoles, the old one and its
replacement. `watch`: three turns, so that a queued turn and a resumed one follow the first, and two
boots. `duties`: two creates with two ids, so that an id can be drawn again, and three claims; two
children of the harness, so that one survives the other.

Deadlock is checked in `duties` alone; elsewhere the system stops when the bounds on lines, turns,
keys or restarts are used up, or because the command that the module is about has ended.

### Fairness

`pipeline_live` and `lifecycle_live` assume weak fairness of what the daemon does by itself: tailer
polls, promise continuations, the timers of a shutdown, and that the next CLI command starts a daemon
that is down (`IpcClient.ensureDaemonStarted`). A stop's or a shutdown's `killTree` ends in SIGKILL, so
a harness that is being stopped exits. `host` assumes it of each daemon's own steps, of the promise
chain and timers of each `ensure` and of each console's steps: all have timeouts. `watch` assumes that the
followers read their sockets and that their timers fire, and that a stop answers. Nothing is
assumed of a harness that nobody kills, of a person, of a crash, or of a store that refuses. The
other modules state safety only.

## Disagreements

What the code does against a comment or a specification of the repository, met while modelling. The
first is a run; each of the others is an exception in a property, or left to this list, since the number
of runs is kept to one for each question.

* `sidecar_window` (`findings`): the sidecar closes the window between spawn and update for the first
  turn only.
* A shutdown can wait for ever: a commit that fails for good, or is given up while draining, leaves the
  runtime undrained, and `runShutdown` awaits it (`daemon.ts:1865` and `1881` against
  `session-runtime.ts:362-370`; `.specs/features/daemon-power/spec.md:154`). `GivenUp` is this exception in
  `ShutdownEnds`.
* A failure is not always told. When the store refuses the report of a failed commit or of a stream that
  ended without an outcome, the rejection is swallowed and the row stays working with no loop until the next
  boot (`daemon.ts:1763`, `1900-1901`, `1930`; `refused` in `DeadHarnessReported`). Only create hears of its own loop
  (`1690`) and tries the row once more, without an event; a loop that a boot attached (`628`) ends the daemon by an
  unhandled rejection. A create, a send or an attach that throws fails the row and leaves no event (`917`, `1234`,
  `609`, `637`; `split` in `StatusMatchesLog`).
* A failure can be told and not written: the status follows the event, or precedes it in a `try` that
  swallows (`917-918`, `1818-1819`, `1900-1901`, `1976-2043`). `run` then hears of the failure, reads a row that works and exits
  with 0 (`run.ts:284-287`, `errors.ts:142`), against "the daemon persists status+failure BEFORE broadcasting"
  (`run.ts:281`; `refused` in `RunTellsOutcome`).
* A runtime can finish with output unread: `drainToEof` gives up after a second or at a read error
  (`tailer.ts:83-97`), and the terminal event is then made up from what was read (`OutputSettled`).
* "The operation owns the final event" (`daemon.ts:1875`): a terminal frame taken before a stop and
  committed after it, or buffered before the loop is attached, follows the stop's own
  `session.completed` in the log.
* A restart is not invisible (`daemon.ts:486`): a frame discarded under a lock moves the runtime's cursor
  but not the row's, so the next daemon reads it again and it ends the turn that runs.
* A queued message can be started twice (`daemon.ts:1800`): when the row's update fails after the
  spawn (`1752-1761`), the message goes back into the slot though a harness has it. This is why
  `NothingStartsTwice` and the refinement assume `~Faults`.
* Two event loops can read one turn (`daemon.ts:1661-1690`): a stop within the two seconds for which create polls, of a
  harness that had written only lines of which no event is made (Claude's hook lines carry the session id,
  `claude/parser.ts:172`), leaves a runtime that is read to its end. A send then starts the next turn while the
  poll is on, and the poll attaches a second loop to that turn's runtime. `LoopsDontOverlap` names this way and no
  other; what the two loops do is not modelled.
* A stop or release cancels the queued message only if the store takes the write (`daemon.ts:1694-1696`); the
  message is then started by a later dispatch (`StopCancels` excepts it).
* A link stays marked reconciled when its conversation is resumed (`native-links.ts:93`): after
  release, resume, use, death of the head and a restart nobody reads its transcript again, against
  ORCH-07 of the orchestrator-usage specification. `BootReads` speaks of links not marked.
* A message without both ids is counted again when its transcript is replaced (`claude-transcript.ts:79-85`,
  `daemon.ts:203-229`; the test at `tests/claude-transcript.test.ts:143` has such records). The repository leaves this
  open (`.specs/features/orchestrator-live-tokens/spec.md:45`): only "keyed" records are promised to be counted once
  (line 129). `NeverOvercounted` adds what was `recounted` to what the transcript holds.
* A death learned by polling is judged by the last frame in the buffer (`terminal.ts:23`), which is
  empty after a restart.
* `wait` has no poll: after a send whose start failed (`daemon.ts:1234`), a verdict told under a
  stop that failed or while the store refused the status (`1913-1916`), or a stop that fails and cannot put the status
  back (`1315`), it waits for a session that is over (`unsaid` in `WatchEnds`).
* `run` in the foreground exits 0 when its turn failed but a queued message started the next one at
  once, or after a crash and a restart (`run.ts:246-247`, `281-283`): `RunTellsOutcome` speaks of one turn and one
  daemon. `wait` and `run` end with 0 on "stopped" while the stop is in progress. `logs --follow`
  misses what falls between its snapshot and its subscription, and its poll does not know
  `interrupted` and `orphaned`.
* The entry's comment that a loser of the lock finds a daemon that serves (`daemon.ts:2176-2178`) fails
  when the holder drains and its socket is gone; the command then polls until its own timeout. An error
  handshake can lose against the exit event; a replacement stops the old console before the new one
  listens; an ensure in flight during `close()` spawns a console that only the end of stdin ends.
* The comments that a recycled pid is never signalled (`process.ts:142`, `158`, `200`; `daemon.ts:2081`)
  hold for a stranger that leads no group; `RecycledPidSpared` says so. Without a start time nothing is
  promised.
* The session file of `open` can name a codex conversation by its name, which `takeSessionId` does not
  take for an id (`open.ts:827-829`, `runtime.ts:243-250`). The failure path releases without awaiting the
  patch and leaves the session file, as a killed command does; its name is the command's pid in a directory that
  outlives a boot and nothing removes it at the start (`open.ts:631`), so a recycled pid links the old conversation, and
  when its own head names none, releases the row with it, even before `--resume` (`stale` in `NamesOwn`). A tick during
  the last flush sends a refused link again and nobody waits for the answer (`link-watcher.ts:31-44`,
  `open.ts:659-677`; `again` in `ReleaseIsLast`). A difference of opencode's sessions can be another launch's
  (`NamesOwn` excludes it for opencode whenever others use it). A rename can be typed into a mouse
  report that two reads cut (`pty.ts:590-594`).
* Edits of the setup page while a save is in flight are dropped by `resetDraft`; the wizard overwrites
  concurrent changes and a malformed file with defaults and answers, and ignores the legacy file; a
  save that throws after its rename reports an error though the file was replaced.
* `--fast` is stored for opencode, grok and antigravity though `run.ts:36` and `150-152` say codex and omp
  only. A line `null` makes every parser throw but Antigravity's, and is stored as an error event.
* Claims survive an end and a resume of their session if nobody used the board in between. A create that is
  refused after its worktree was made leaves the worktree behind.

## What is proved

TLAPS proves for all values of the constants, from the constant assumptions alone:

* `EventPipeline_proofs`: `TypeCorrect`; `NothingLost` (`CursorCovered`); `StoredOnce`
  (`ExactlyOnce`); `OneOutcome` (`StatusMatchesLog`); `LogImplemented` (`ImplementsEventLog`).
  `CursorCovered` is not inductive: it speaks of the committed cursor, which is set
  from `safe`, which moves when an event is yielded or a quiet line is passed. The strengthening
  (`Covering`) says of each cursor that every event up to it is settled, or in the buffer before the
  point at which the cursor may move there, and that the buffer holds the lines between in order.
  `OneOutcome` speaks of states in which no outcome was written to one of the two alone (`split`). A stop
  that reports the end of the turn itself leaves the status as it is, so `StopInv` says what it finds when it
  comes back: the row still stopped, or failed by a store error, alone or with a terminal event newer than the stop.
  For the refinement, what `Covering` says of loss `OrderInv` says of order: the buffer holds the events of a file in their
  order (`BufferOrder`); before each of them every earlier one of its file is stored, in the buffer ahead of it, or
  discarded with its line about to be passed (`AllBehind`); and an event that was overtaken in the log
  is on a line which the committed cursor has left behind (`LogOrder`), so no restart reads it again.
* `SessionLifecycle_proofs`: `TypeCorrect`, `NoSecondHarness` (`OneHarness`), `StopLeavesTerminal`,
  `StopEmptiesQueue`, `OneLoop` with all faults, and `NobodyForgotten` for a store
  that accepts writes. The inductive invariant is `IInv`: types; nothing of a daemon
  survives it, and a session that does not exist has nothing (`Absent`); the live harness that the
  daemon can know of is the one the row names or, while a start is between its steps, the handle's
  (`HarnessKnown`); a stop in progress belongs to an ended session whose slot holds nothing that came after it
  (`StopHolds`); while `session.create` still polls, what its runtime has read is in the inbox and makes the session
  busy, and so does the exit that the runtime makes up unless it was told of a stop, so no loop runs while a turn is
  being launched and a poll only in the case above (`LoopTurns`). `OneHarness` needs
  all of them: a send is admitted on what the row and the handle say, so both must know of every
  process. Then `QueueImplemented` (every step of `SessionLifecycle` is a step of `SendQueue` or a
  stutter), `FailedStartKeeps` and `NothingStartsTwice`.
* `OpenUsage_proofs`: `NotOvercounted`, `SharesAddUp` (`SumIsMark`), `MarksNeverShrink`, `EndedReconciled`
  and `BootReconciles`, with all faults. The inductive invariant (`Counted`) bounds everything that may
  still become an observation by the transcript it came from: the cost-state line, the size a sweep
  has seen, the messages a cursor knows (it has counted at most those and what it read again), what a reconciliation has
  read. For `SharesAddUp` the sum over the rows is opened without an induction: a smallest set for which an
  equation about the fold fails cannot exist (`Smallest`), so raising one row's share raises the sum by as
  much. `EndedReconciled` follows by showing that a reconciliation gives up a link only for its mark
  or an excuse (`CoveredStays`), and that a row ends with its links in one (`CoveredFirst`).
  `BootReconciles` adds to `Counted` that what a boot owes is counted or in the hands of one of its
  reconciliations, and that reading a transcript again never yields less (`ReadingGrows`).
* `Terminal_proofs`, the launch: `TerminalIsLeft` (`LeavesTerminal`) from `Terminated`, which says for every place
  of the command whether there is a child and what is taken of the terminal; `NothingAfterTheRelease`
  (`ReleaseIsLast`) from `Linking`: until the last flush whatever is in flight is in the session file, which only grows and
  which the flush reads; from then on it is awaited or was sent again; `OwnConversation`
  (`NamesOwn`) from `Truthful`: every change of the store since the snapshot is this head's or another's,
  and as long as the others keep away, the last id of the session file and that of the release are this head's, the
  one to resume, or, while this head has named none, the stale file's.
* `Terminal_proofs`, the keyboard: `RenameIsTried` (`NoLostWakeup`) from `RenameInv`, and `CleanInjection`
  (`InjectsOnCleanLine`) from `GateInv`: wherever a read has cut the stream, the gate is in step with the
  harness. Between two keys that means `Agrees`: whatever makes the line other than empty has made
  the gate dirty, an open menu has set the guard that spoils the next Enter, a
  backslash is the byte before. Within a key the gate holds back exactly its bytes and remembers what it
  thought before them, or has given it up as unknown and is dirty (`WithinKey`). `ByteStep` shows this for every
  byte of the thirteen keys and reports, `ChunkStep` for a read of any length, `IgnoredBytes` that what `forward` does
  not show to the gate are whole reports, and `WireGrows` and `WireShrinks` that what is on the wire goes on being keys.
* `Terminal_proofs`, the wizard: `WizardSavesAnswers` (`SavedAsAnswered`) from `AnswersInv`: no role's
  screen comes twice, the screen of an effort comes right behind its role's pick and its answer right behind that
  one, and a model outside of the catalog has had its second Enter.
* `Setup_proofs`: `SetupTypeCorrect`, `WritesReviewed` (`ReviewedIsApplied`), `OffCatalogIsTicked` (`ConfirmedOnly`)
  and `SaveKeepsOthers` (`OthersKept`). The invariant behind them is `PageInv` (`PageAgrees`): the tick boxes on the screen
  are those of the draft and each tick is the user's, what the draft changes was chosen, a drawer that offers
  to apply has reviewed this draft, a dry run in flight is of this draft, and an apply in flight has the selection and the
  ticks that were under the user's eyes - the last three unless an edit was made behind the drawer (`behind`).
* `Host_proofs`: `SocketIsServed` (`ServesBehindSocket`) from `LockHeld`: whatever binds, serves or may
  still unlink the socket holds the lock.
* `Watch_proofs`: `ExitIsOutcome` (`RunTellsOutcome`) from `HeardIsOver`: in the first turn, under the daemon that
  started it and with no stop, whatever `run` has heard or has in the mail comes from a session that is over, or whose
  row the store refused to write (`Over`).
* `Duties_proofs`: `IdsAreOwn` (`IdIsOwn`), `NoRowBehindTheDrain` (`DrainedIsMarked`) and `BoardIsTrue`
  (`BoardTells`). A waiting create has a reserved id of its own (`CallsOK`) and reads the daemon's state again
  after each wait; a claim of a session that has not ended is active (`ClaimsOK`), and `Tidy` marks no other.
  Then `MembersAreSpared` (`RecycledPidSpared`) and `GroupIsGone` (`NothingSurvives`), from
  `PidHeld` (the kernel keeps the pid while the group has a member), `PidTested` (between test and signal
  nothing sleeps) and `Reached` (the group has been signalled or is empty wherever `killTree` goes on to wait).

`QueueImplemented`, `FailedStartKeeps`, `NothingStartsTwice` and `NobodyForgotten` assume `~Faults`: when
the store may refuse the write after the spawn, a message can be started twice (see above).

Assumptions on constants that a proof brought to light, each evaluated by TLC:

* `VerdictAssumption` (`EventPipeline`): a line that ends the session goes on with one event at most. Every
  parser keeps to it (`OneVerdict` in `Harnesses` says so, codex's end of a turn being the one event), and the
  refinement needs it: of a line `failed, plain, plain` whose verdict was discarded under a stop and whose second event was
  stored before a crash, the boot after a further one reads the line again and stores the verdict behind the event.
* `RowsAssumption` (`UsageLedger`): the rows are finite, so that there is a sum. `ConfigAssumption` (`SetupConfig`),
  `WizardAssumption` (`SetupWizard`), `NoneAssumption` (`Watch`) and `KindsAssumption` (`InputGate`) say that names
  which the code keeps apart by their place are different values.

The type proof of `Setup` also found the set of selections too wide: it let the page bind a role to the "on"
and "off" of the autocompact switch.

TLC checked each property on the instances above before it was proved. What stays with TLC is liveness, with the
fairness it needs: `DeadHarnessReported`, `ShutdownEnds`, `StopEnds`, `OutputSettled` (`pipeline_live`), `QueuedMessageLeaves`
(`lifecycle_live`), `EnsureAnswered` and `ConsolesEnd` (`host`), `WatchEnds` (`watch`); and the rules of `Harnesses` and
`RunRules`, which are assumptions over finite types that TLC evaluates. Every other property of a passing run is a theorem.

## What is not modelled

`components` in `PROJECT.json` says it part by part.

* `usage of headless sessions and reports`: source keys, process ordinals and the seeding of old rows
  (`usage-ledger.ts:140`) would be the next module; prices are arithmetic on decimals and reports one SQL
  query for each view.
* `store database`: a transaction is one atomic step of the modules that use it.
* Of the lifecycle: the spacing of the auto-resume between sessions, and the order of healing and
  recovery at boot (`daemon.ts:676`), whose two loops run over different rows; a message that waits in the slot of
  a session which a boot finds ended (`630`); a late terminal event of a release (`1086`); output after a
  committed terminal frame (`490`).
* Of the followers: Ctrl+C, which only hangs up, and the text of their lines. `run --json` may print an
  event twice; `wait` does not start a daemon that is down.
* Of the board: the comparison of one glob with another, a heuristic on text; a glob is the set of the
  paths it matches. The marking of rows in a shutdown is one step.
* Of the console: the pages that only read, HTML, tokens and header checks. Of `killTree`: processes that leave
  the group. Command lines, rendering, git wrappers, service files, schema migrations, other
  hooks and installers keep no state whose order matters.
