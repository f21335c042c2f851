------------------------------ MODULE OpenLaunch ------------------------------
(***************************************************************************)
(* One run of `codedeck open` from its first request to its exit           *)
(* (src/cli/commands/open.ts, src/open/runtime.ts, src/open/link-watcher.ts *)
(* and startPtySession of src/open/pty.ts): adopt a row, prepare, spawn the *)
(* harness, tell the daemon its pid and its conversations, absorb Ctrl+C,   *)
(* and release the row. Every request may fail; requests are answered in    *)
(* any order, each on its own connection. What the daemon does with them is *)
(* in OpenUsage.  A session file that an earlier launch left behind is told *)
(* by its last line.                                                        *)
(***************************************************************************)
EXTENDS OpenRules

CONSTANTS Ids,       \* conversation ids
          Elsewhere, \* those of other directories
          Names,     \* names that codex resumes by, which are no ids
          Limit      \* changes of the harness's store

ASSUME LaunchAssumption == Limit \in Nat /\ Ids \cap Names = {} /\ Elsewhere \subseteq Ids

VARIABLES
    launcher, resume, pty,    \* what is launched: harness, --resume, under a pty
    pc,                       \* where the command stands
    store, before,            \* the harness's conversations; the snapshot of them
    own, others, moves,       \* history: those of this head, and of others; a bound
    head,                     \* "none", "alive", "dead", "gone" once `close` was seen
    file,                     \* the session file: ids, one per line; NoFile
    stale,                    \* history: what the session file held at the start
    watching, sent, inFlight, \* startLinkWatcher
    awaited, again,           \* whom the last flush waits for; history: sent again meanwhile
    patch, release,           \* the two requests: none, flying, answered
    raw, listening,                \* the terminal's raw mode and the pty's listeners
    signals, kill, guard      \* installSigintGuard: count, "none"/"timer"/"done", installed

setup == <<launcher, resume, pty, stale>>
talk == <<store, own, others, moves>>
links == <<watching, sent, inFlight, awaited, again>>
terminal == <<raw, listening>>
keys == <<signals, kill, guard>>
vars == <<setup, pc, talk, before, head, file, links, patch, release, terminal, keys>>

NoFile == <<None>>
Request(status, native) == [state |-> "flying", status |-> status, native |-> native]
NoRequest == [state |-> "none", status |-> None, native |-> None]
Lines(f) == IF f = NoFile THEN <<>> ELSE f
\* SESSION_ID_PATTERN
IdsOf(f) == {i \in Ids : \E k \in DOMAIN Lines(f) : Lines(f)[k] = i}

---------------------------------------------------------------------------
\* Options, role, worktree question, model and effort; then session.adopt. An
\* error before the row exists ends the command and leaves nothing.
Adopts ==
    /\ pc = "start"
    /\ pc' \in {"adopted", "exited"}
    /\ UNCHANGED <<setup, talk, before, head, file, links, patch, release, terminal, keys>>

\* Worktree, catalog, binary and support checks; any of them may throw.
Prepares ==
    /\ pc = "adopted"
    /\ \/ pc' = "failing" /\ UNCHANGED <<before, watching>>
       \/ /\ pc' = "spawning"
          /\ watching' = (launcher = "claude")
          /\ before' \in IF launcher = "claude" THEN {None} ELSE {store, None}
    /\ UNCHANGED <<setup, talk, head, file, sent, inFlight, awaited, again, patch, release, terminal, keys>>

\* spawnHarness: guard first, then the child, raw mode and onSpawn. A spawn
\* that throws restores at once; one that cannot find its binary has no pid.
Spawns ==
    /\ pc = "spawning"
    /\ guard' = TRUE
    /\ \/ /\ pc' = "running" /\ head' = "alive" /\ patch' = "flying"
          /\ raw' = pty /\ listening' = pty
       \/ /\ pc' = "running" /\ head' = "error" /\ UNCHANGED patch
          /\ raw' = pty /\ listening' = pty
    /\ UNCHANGED <<setup, talk, before, file, links, release, signals, kill>>

\* `fail`: the spawn threw or the child has no process.
MutantRestores == raw' = FALSE /\ listening' = FALSE /\ kill' = kill
Restores == raw' = FALSE /\ listening' = FALSE /\ kill' = "none"
SpawnFails ==
    /\ \/ pc = "spawning" /\ head = "none"
       \/ pc = "running" /\ head = "error"
    /\ pc' = "failing"
    /\ head' = "gone"
    /\ Restores /\ guard' = FALSE
    /\ UNCHANGED <<setup, talk, before, file, links, patch, release, signals>>

---------------------------------------------------------------------------
(* The harness. Claude's SessionStart hook appends each conversation to the *)
(* session file; the others write to their store, as other launches do.     *)
Used(s, id) == [i \in DOMAIN s \cup {id} |-> IF i = id THEN moves + 1 ELSE s[i]]
HeadTalks(id) ==
    /\ head = "alive" /\ moves < Limit /\ id \notin Elsewhere \cup others
    /\ moves' = moves + 1
    /\ own' = own \cup {id}
    /\ UNCHANGED others
    /\ IF launcher = "claude"
       THEN file' = Append(Lines(file), id) /\ UNCHANGED store
       ELSE store' = Used(store, id) /\ UNCHANGED file
    /\ UNCHANGED <<setup, pc, before, head, links, patch, release, terminal, keys>>

OtherTalks(id) ==
    /\ launcher # "claude" /\ moves < Limit /\ id \notin own /\ before # None
    /\ moves' = moves + 1
    /\ others' = others \cup {id}
    /\ store' = Used(store, id)
    /\ UNCHANGED <<setup, pc, own, before, head, file, links, patch, release, terminal, keys>>

HeadEnds ==
    /\ head = "alive"
    /\ head' = "dead"
    /\ UNCHANGED <<setup, pc, talk, before, file, links, patch, release, terminal, keys>>

---------------------------------------------------------------------------
(* Ctrl+C: a signal, or under a pty a byte of the keyboard. The third one   *)
(* sends SIGTERM, and a second later SIGKILL unless the child has closed.   *)
Interrupt ==
    /\ guard /\ head # "gone" /\ kill = "none"
    /\ signals' = signals + 1
    /\ kill' = IF signals' = 3 THEN "timer" ELSE "none"
    /\ UNCHANGED <<setup, pc, talk, before, head, file, links, patch, release, terminal, guard>>

KillTimer ==
    /\ kill = "timer"
    /\ kill' = "done"
    /\ head' = IF head = "alive" THEN "dead" ELSE head
    /\ UNCHANGED <<setup, pc, talk, before, file, links, patch, release, terminal, signals, guard>>

---------------------------------------------------------------------------
(* The link watcher: every second, and once more before the release. *)
Unsent(f) == IdsOf(f) \ sent
MutantFlushed == TRUE
\* flushLinkWatcher waits for the requests of its own pass.
Flushed == awaited = {}
Flushing == pc \in {"taking", "failed"} /\ ~Flushed

\* A tick sends what is not on its way. The last flush stops the ticks as
\* soon as its requests are answered; until then, a tick sends again what was
\* refused, and nobody waits for that.
Ticks ==
    /\ watching /\ (pc \in {"taking", "failed"} => Flushing)
    /\ inFlight' = inFlight \cup Unsent(file) /\ inFlight' # inFlight
    /\ again' = IF Flushing THEN again \cup (inFlight' \ inFlight) ELSE again
    /\ UNCHANGED <<setup, pc, talk, before, head, file, watching, sent, awaited, patch, release, terminal, keys>>

LinkAnswered(id, ok) ==
    /\ id \in inFlight
    /\ inFlight' = inFlight \ {id}
    /\ awaited' = awaited \ {id}
    /\ sent' = IF ok THEN sent \cup {id} ELSE sent
    /\ UNCHANGED <<setup, pc, talk, before, head, file, watching, again, patch, release, terminal, keys>>

PatchAnswered ==
    /\ patch = "flying"
    /\ patch' = "answered"
    /\ UNCHANGED <<setup, pc, talk, before, head, file, links, release, terminal, keys>>

---------------------------------------------------------------------------
(* The end. `close`: the terminal first, then the error that the output may *)
(* have named (an account without the model), else onClose.                 *)
Closes ==
    /\ pc = "running" /\ head = "dead"
    /\ head' = "gone"
    /\ Restores
    /\ \/ pc' = "closing" /\ UNCHANGED guard
       \/ pc' = "failing" /\ launcher = "claude" /\ guard' = FALSE
    /\ UNCHANGED <<setup, talk, before, file, links, patch, release, signals>>

MutantCaptured == LET fresh == IF before = None THEN {} ELSE Fresh(before, store)
                  IN IF fresh = {} THEN resume ELSE CHOOSE i \in fresh : TRUE
\* closeOpencode, closeCodex, closeClaude: which conversation it was.
Captured ==
    LET found == CASE before = None -> None
                   [] before # None /\ launcher = "opencode" -> DiffOpencode(before, store)
                   [] OTHER -> DiffCodex(before, store, Ids \ Elsewhere)
        fallback == IF launcher = "codex" \/ resume \in Ids THEN resume ELSE None
    IN IF found # None THEN found ELSE fallback
NamesConversation ==
    /\ pc = "closing"
    /\ pc' = "taking"
    /\ file' = CASE launcher = "claude" /\ file = NoFile /\ resume \in Ids -> <<resume>>
                 [] launcher # "claude" /\ Captured # None -> <<Captured>>
                 [] OTHER -> file
    /\ awaited' = IF watching THEN Unsent(file') ELSE {}
    /\ inFlight' = inFlight \cup awaited'
    /\ UNCHANGED <<setup, talk, before, head, watching, sent, again, patch, release, terminal, keys>>

\* takeSessionId takes the last id and removes the file; the patch is awaited.
LastId(f) ==
    LET last == {k \in DOMAIN Lines(f) :
                    /\ Lines(f)[k] \in Ids
                    /\ \A j \in DOMAIN Lines(f) : j > k => Lines(f)[j] \notin Ids}
    IN IF last = {} THEN None ELSE Lines(f)[CHOOSE k \in last : TRUE]
TakesId ==
    /\ pc = "taking" /\ Flushed
    /\ pc' = "releasing"
    /\ watching' = FALSE
    /\ release' = [NoRequest EXCEPT !.native = LastId(file)]
    /\ file' = NoFile
    /\ UNCHANGED <<setup, talk, before, head, sent, inFlight, awaited, again, patch, terminal, keys>>

Settled == patch # "flying"
Releases ==
    /\ pc = "releasing" /\ release.state = "none"
    /\ Settled
    /\ release' = Request("completed", release.native)
    /\ UNCHANGED <<setup, pc, talk, before, head, file, links, patch, terminal, keys>>

\* The catch of the action: the row ends as failed. It does not wait for the
\* patch, and the session file stays.
FailFlushes ==
    /\ pc = "failing"
    /\ pc' = "failed"
    /\ awaited' = IF watching THEN Unsent(file) ELSE {}
    /\ inFlight' = inFlight \cup awaited'
    /\ UNCHANGED <<setup, talk, before, head, file, watching, sent, again, patch, release, terminal, keys>>
FailReleases ==
    /\ pc = "failed" /\ release.state = "none"
    /\ Flushed
    /\ watching' = FALSE
    /\ release' = Request("failed", None)
    /\ UNCHANGED <<setup, pc, talk, before, head, file, sent, inFlight, awaited, again, patch, terminal, keys>>

\* Answered or not, the command ends; the guard is the last to go.
Exits ==
    /\ release.state = "flying"
    /\ release' = [release EXCEPT !.state = "answered"]
    /\ guard' = FALSE
    /\ pc' = "exited"
    /\ UNCHANGED <<setup, talk, before, head, file, links, patch, terminal, signals, kill>>

---------------------------------------------------------------------------
Init ==
    /\ launcher \in {"claude", "opencode", "codex"} /\ resume \in Ids \cup Names \cup {None}
    /\ pty \in (IF launcher = "claude" THEN BOOLEAN ELSE {FALSE})
    /\ pc = "start"
    /\ store \in {[i \in {} |-> 0]} \cup {[i \in {j} |-> 0] : j \in Ids} /\ before = None /\ own = {} /\ others = {} /\ moves = 0
    /\ head = "none" /\ file \in {NoFile} \cup {<<i>> : i \in Ids} /\ stale = file
    /\ watching = FALSE /\ sent = {} /\ inFlight = {} /\ awaited = {} /\ again = {}
    /\ patch = "none" /\ release = NoRequest
    /\ raw = FALSE /\ listening = FALSE /\ signals = 0 /\ kill = "none" /\ guard = FALSE

Next ==
    \/ Adopts \/ Prepares \/ Spawns \/ SpawnFails
    \/ \E id \in Ids : HeadTalks(id) \/ OtherTalks(id)
    \/ HeadEnds \/ Interrupt \/ KillTimer
    \/ Ticks \/ (\E id \in Ids, ok \in BOOLEAN : LinkAnswered(id, ok)) \/ PatchAnswered
    \/ Closes \/ NamesConversation \/ TakesId \/ Releases
    \/ FailFlushes \/ FailReleases \/ Exits
Spec == Init /\ [][Next]_vars

---------------------------------------------------------------------------
Sends == release.state = "none" /\ release'.state = "flying"

\* The release ends the row's story: no link is still on its way, which the
\* daemon would book on a row that it has reconciled, and, unless the launch
\* failed, neither is the pid. The exception is a link that was refused while
\* the last flush waited for others, and that a tick sent again.
ReleaseIsLast ==
    [][Sends => inFlight \subseteq again /\ (release'.status = "completed" => Settled)]_vars

\* The row is released with a conversation that this head used, or the one it
\* was asked to resume, never another's: other launches may use the harness at
\* the same time, for codex in other directories, for opencode not at all. The
\* exception is a session file left by an earlier launch with the same pid,
\* whose id stands if this head has named none.
NamesOwn ==
    [][Sends /\ others \subseteq (IF launcher = "codex" THEN Elsewhere ELSE {})
         => \/ release'.native \in own \cup {resume, None}
            \/ release'.native \in IdsOf(stale) /\ (launcher = "claude" => own = {})]_vars

\* However the session ends, the terminal is out of raw mode, nothing listens
\* to the keyboard any more and no kill is pending on a pid that is gone.
LeavesTerminal ==
    /\ head = "gone" => ~raw /\ ~listening /\ kill # "timer"
    /\ pc = "exited" => ~raw /\ ~listening /\ ~guard
============================================================================
