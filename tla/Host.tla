-------------------------------- MODULE Host --------------------------------
(***************************************************************************)
(* What keeps one daemon per directory and one web console per daemon:     *)
(* commands that probe the socket and spawn a daemon when nobody answers   *)
(* (src/daemon/ipc.ts), the lock that all but one of the spawned lose      *)
(* (src/daemon/instance-lock.ts, the entry of src/daemon/daemon.ts), the   *)
(* supervisor that starts, shares, replaces and closes the console's       *)
(* process (src/daemon/web-supervisor.ts), that process                    *)
(* (src/web/child.ts) and the commands that ask for it                     *)
(* (src/cli/web-launch.ts). Daemons and consoles may die at any step, and  *)
(* timeouts may beat the answers they wait for.                            *)
(***************************************************************************)
EXTENDS Naturals, FiniteSetsExt

CONSTANTS None,
          Commands,    \* processes that each want the console once
          Daemons,     \* daemon processes, numbered in the order of their start
          MaxConsoles, \* console processes at a time; spawning one more fails
          Hosts,       \* addresses to listen on
          Builds,      \* installations: an entry point with its build id
          Requests,    \* what each command may ask for
          Autostart    \* what a daemon asks of itself: the configuration

For == {"explicit", "preferred"}
\* What web-launch.ts sends, and autostartWeb, which names no build.
Params == [host : Hosts, hostFor : For, portFor : For, build : Builds \cup {None}]
ASSUME HostAssumption ==
    /\ MaxConsoles \in Nat /\ Daemons \subseteq Nat /\ None \notin Daemons
    /\ Requests \in [Commands -> SUBSET Params] /\ Autostart \in Params

VARIABLES
    daemon,  \* each daemon: "unborn", "starting", "booting", "serving", "draining", "gone"
    lock,    \* the holder of daemon.lock
    sock,    \* the daemon that bound the socket file; None when there is no file
    pc,      \* each command: "probing", "polling", "ready", "done"
    web,     \* WebSupervisor.state of the daemon that serves
    current, \* WebSupervisor.current
    ens,     \* each call of ensure: by a command, or by a daemon for itself
    console  \* the console processes

supervisor == <<web, current>>
vars == <<daemon, lock, sock, pc, supervisor, ens, console>>

Callers == Commands \cup Daemons
Consoles == 1 .. MaxConsoles

Stopped == [kind |-> "none", of |-> None]
Starting(r) == [kind |-> "starting", of |-> r]
Running(k) == [kind |-> "running", of |-> k]
NoCall == [phase |-> "none", params |-> None, spec |-> None, after |-> None, console |-> None]
NoConsole == [state |-> "none", owner |-> None, said |-> "nothing", signalled |-> FALSE, spec |-> None]

Alive(d) == daemon[d] \in {"starting", "booting", "serving", "draining"}
Server == {d \in Daemons : daemon[d] \in {"serving", "draining"}}
Lives(c) == c.state \in {"booting", "listening"}
Up(k) == Lives(console[k])
Working(r) == ens[r].phase \in {"stopping", "starting"}
InFlight(r) == ens[r].phase = "looking" \/ Working(r)
Signal(ks) == [k \in Consoles |-> IF k \in ks /\ Up(k) THEN [console[k] EXCEPT !.signalled = TRUE] ELSE console[k]]

\* A process that ended is forgotten when neither the supervisor nor a call
\* can ask about it any more; its number is then free.
Known(k) == web = Running(k) \/ \E r \in Callers : ens[r].phase # "none" /\ ens[r].console = k
Settle(cs) == console' = [k \in Consoles |-> IF Lives(cs[k]) \/ Known(k)' THEN cs[k] ELSE NoConsole]

---------------------------------------------------------------------------
(* Commands. *)
\* isDaemonRunning: a busy daemon may not accept within a second.
Answers == sock \in Server
Unborn == {d \in Daemons : daemon[d] = "unborn"}
Probes(c) ==
    /\ pc[c] = "probing"
    /\ \/ /\ Answers
          /\ pc' = [pc EXCEPT ![c] = "ready"] /\ UNCHANGED daemon
       \/ /\ pc' = [pc EXCEPT ![c] = "polling"]
          /\ IF Unborn = {} THEN UNCHANGED daemon
             ELSE daemon' = [daemon EXCEPT ![Min(Unborn)] = "starting"]
    /\ UNCHANGED <<lock, sock, supervisor, ens, console>>

\* Every 25 ms, until the six seconds are over: the command then serves the
\* pages itself.
Polls(c) ==
    /\ pc[c] = "polling"
    /\ \/ Answers /\ pc' = [pc EXCEPT ![c] = "ready"]
       \/ pc' = [pc EXCEPT ![c] = "done"]
    /\ UNCHANGED <<daemon, lock, sock, supervisor, ens, console>>

\* web.ensure. A daemon that drains refuses, one that is gone cannot answer;
\* whether the command waits for the answer or gives up after 15 seconds, the
\* daemon does not know.
Asks(c, params) ==
    /\ pc[c] = "ready"
    /\ pc' = [pc EXCEPT ![c] = "done"]
    /\ IF Answers /\ daemon[sock] = "serving"
       THEN ens' = [ens EXCEPT ![c] = [NoCall EXCEPT !.phase = "looking", !.params = params]]
       ELSE UNCHANGED ens
    /\ UNCHANGED <<daemon, lock, sock, supervisor, console>>

\* The answer leaves the daemon.
Hears(r) ==
    /\ ens[r].phase = "answered"
    /\ ens' = [ens EXCEPT ![r] = NoCall]
    /\ UNCHANGED <<daemon, lock, sock, pc, supervisor>>
    /\ Settle(console)

---------------------------------------------------------------------------
(* The daemon's entry, start and shutdown. *)
Acquires(d) ==
    /\ daemon[d] = "starting"
    /\ IF lock = None
       THEN lock' = d /\ daemon' = [daemon EXCEPT ![d] = "booting"]
       ELSE daemon' = [daemon EXCEPT ![d] = "gone"] /\ UNCHANGED lock
    /\ UNCHANGED <<sock, pc, supervisor, ens, console>>

\* start: recover, then unlink the socket file and listen; autostartWeb.
Binds(d) ==
    /\ daemon[d] = "booting"
    /\ daemon' = [daemon EXCEPT ![d] = "serving"]
    /\ sock' = d
    /\ web' = Stopped /\ current' = None
    /\ ens' = [ens EXCEPT ![d] = [NoCall EXCEPT !.phase = "looking", !.params = Autostart]]
    /\ UNCHANGED <<lock, pc>>
    /\ Settle(console)

MutantFree(d) == daemon[d] \in {"draining", "gone"}
\* The kernel drops the lock of a process that ends.
Free(d) == daemon[d] = "gone"
Unlocked(d) == lock' = IF lock = d /\ Free(d)' THEN None ELSE lock

\* A signal or daemon.stop: web.close() is the first thing runShutdown does.
Drains(d) ==
    /\ daemon[d] = "serving"
    /\ daemon' = [daemon EXCEPT ![d] = "draining"]
    /\ web' = Stopped
    /\ UNCHANGED <<sock, pc, current, ens>>
    /\ Unlocked(d) /\ Settle(Signal({current}))

\* The process ends; whoever waited for an answer has none.
Vanishes(d) ==
    /\ daemon' = [daemon EXCEPT ![d] = "gone"]
    /\ IF d \in Server
       THEN web' = Stopped /\ current' = None /\ ens' = [r \in Callers |-> NoCall]
       ELSE UNCHANGED <<supervisor, ens>>
    /\ UNCHANGED pc
    /\ Unlocked(d) /\ Settle(console)

\* The end of runShutdown: the files that start made, then process.exit.
Exits(d) == daemon[d] = "draining" /\ sock' = None /\ Vanishes(d)

\* Killed, or a start that throws: the socket file stays.
Dies(d) == Alive(d) /\ UNCHANGED sock /\ Vanishes(d)

---------------------------------------------------------------------------
(* WebSupervisor.ensure. The supervisor lives in the daemon that serves. *)
MutantForget(r) == web' = web
\* The rejected promise takes its own "starting" back.
Forget(r) == web' = IF web = Starting(r) THEN Stopped ELSE web
Fails(r) == ens' = [ens EXCEPT ![r] = NoCall] /\ Forget(r)

\* requestedHost: an explicit host stays until another one is asked for.
Wanted(p) ==
    LET stays == p.hostFor = "preferred" /\ web.kind = "running" /\ console[web.of].spec.hostFor = "explicit"
    IN [p EXCEPT !.host = IF stays THEN console[web.of].spec.host ELSE @,
                 !.hostFor = IF stays THEN "explicit" ELSE @,
                 !.build = IF @ = None THEN CHOOSE b \in Builds : TRUE ELSE @]
Matches(p) ==
    /\ web.kind = "running"
    /\ LET spec == console[web.of].spec
       IN /\ spec.host = Wanted(p).host
          /\ p.build \in {None, spec.build}
          /\ p.portFor = "preferred" => spec.portFor = "preferred"

\* start: spawn, unless that throws.
Unused == {k \in Consoles : console[k] = NoConsole}
Spawns(r, spec) ==
    /\ IF Unused = {}
       THEN Fails(r) /\ UNCHANGED current
       ELSE /\ current' = Min(Unused)
            /\ ens' = [ens EXCEPT ![r].phase = "starting", ![r].spec = spec, ![r].console = current']
            /\ web' = IF Working(r) THEN web ELSE Starting(r)
    /\ Settle(IF Unused = {} THEN console
              ELSE [console EXCEPT ![Min(Unused)] = [NoConsole EXCEPT !.state = "booting", !.owner = sock, !.spec = spec]])

\* Look at the state; wait for a start in flight, take what runs if it is what
\* was asked for, or start, stopping first what runs.
Looks(r) ==
    /\ ens[r].phase = "looking"
    /\ ens[r].after # None => ~Working(ens[r].after)
    /\ UNCHANGED <<daemon, lock, sock, pc>>
    /\ LET params == ens[r].params
       IN CASE web.kind = "starting" ->
                 ens' = [ens EXCEPT ![r].after = web.of] /\ UNCHANGED <<supervisor, console>>
            [] Matches(params) ->
                 ens' = [ens EXCEPT ![r].phase = "answered", ![r].console = web.of] /\ UNCHANGED <<supervisor, console>>
            [] web.kind = "running" /\ ~Matches(params) ->
                 /\ web' = Starting(r) /\ UNCHANGED current
                 /\ ens' = [ens EXCEPT ![r].phase = "stopping", ![r].console = web.of, ![r].spec = Wanted(params)]
                 /\ Settle(Signal({web.of}))
            [] OTHER -> Spawns(r, Wanted(params))

\* stop: until it has exited, but no longer than three seconds after SIGTERM
\* and three after SIGKILL.
Replaces(r) ==
    /\ ens[r].phase = "stopping"
    /\ UNCHANGED <<daemon, lock, sock, pc>>
    /\ Spawns(r, ens[r].spec)

\* The first line of the console. A start that close() overtook is not undone.
Handshakes(r) ==
    /\ ens[r].phase = "starting"
    /\ UNCHANGED <<daemon, lock, sock, pc, current>>
    /\ LET k == ens[r].console
       IN /\ console[k].said # "nothing"
          /\ IF console[k].said = "listening"
             THEN web' = Running(k) /\ ens' = [ens EXCEPT ![r].phase = "answered"]
             ELSE Fails(r)
    /\ Settle(console)

MutantAbandoned(k) == {}
\* Which console a start that is given up kills: no handshake in five seconds.
Abandoned(k) == {k}
StartFails(r) ==
    /\ ens[r].phase = "starting"
    /\ UNCHANGED <<daemon, lock, sock, pc, current>>
    /\ Fails(r)
    /\ Settle(Signal(Abandoned(ens[r].console)))

ExitSeen(k) ==
    /\ web = Running(k) /\ ~Up(k)
    /\ web' = Stopped
    /\ UNCHANGED <<daemon, lock, sock, pc, current, ens>>
    /\ Settle(console)

---------------------------------------------------------------------------
(* The console: runWebChild. *)
Becomes(k, state, said) ==
    /\ current' = IF state = "dead" /\ current = k THEN None ELSE current
    /\ UNCHANGED <<daemon, lock, sock, pc, web, ens>>
    /\ Settle([console EXCEPT ![k].state = state, ![k].said = said, ![k].signalled = @ /\ state # "dead"])
Listens(k) ==
    /\ console[k].state = "booting"
    /\ \/ Becomes(k, "listening", "listening")
       \/ Becomes(k, "dead", "error")
\* SIGTERM, or the end of stdin, which it reads once it listens.
Ends(k) ==
    /\ Up(k)
    /\ console[k].signalled \/ (console[k].state = "listening" /\ ~Alive(console[k].owner))
    /\ Becomes(k, "dead", console[k].said)
Breaks(k) == Up(k) /\ Becomes(k, "dead", console[k].said)

---------------------------------------------------------------------------
Init ==
    /\ daemon = [d \in Daemons |-> "unborn"] /\ lock = None /\ sock = None
    /\ pc = [c \in Commands |-> "probing"]
    /\ web = Stopped /\ current = None
    /\ ens = [r \in Callers |-> NoCall]
    /\ console = [k \in Consoles |-> NoConsole]

DaemonStep(d) == Acquires(d) \/ Binds(d) \/ Exits(d)
EnsureStep(r) == Looks(r) \/ Replaces(r) \/ Handshakes(r) \/ StartFails(r) \/ Hears(r)
ConsoleStep(k) == ExitSeen(k) \/ Listens(k) \/ Ends(k)

Next ==
    \/ \E c \in Commands : Probes(c) \/ Polls(c) \/ \E params \in Requests[c] : Asks(c, params)
    \/ \E d \in Daemons : DaemonStep(d) \/ Drains(d) \/ Dies(d)
    \/ \E r \in Callers : EnsureStep(r)
    \/ \E k \in Consoles : ConsoleStep(k) \/ Breaks(k)

\* Event loops run and timers fire; nobody has to crash, to ask or to stop.
Fairness ==
    /\ \A d \in Daemons : WF_vars(DaemonStep(d))
    /\ \A r \in Callers : WF_vars(EnsureStep(r))
    /\ \A k \in Consoles : WF_vars(ConsoleStep(k))
Spec == Init /\ [][Next]_vars /\ Fairness

---------------------------------------------------------------------------
\* A daemon that serves is the one behind the socket file: no other daemon,
\* be it draining, late or lost, unlinks or replaces it
\* (.specs/features/daemon-single-instance).
ServesBehindSocket == \A d \in Daemons : daemon[d] = "serving" => sock = d

\* Every web.ensure that a daemon takes fails or is answered while that daemon
\* lives, and the answer is a console of the asking command's installation,
\* on the host that the command named, whatever started in between.
Misled(r) ==
    LET spec == console[ens[r].console].spec
        params == ens[r].params
    IN params.build \notin {None, spec.build} \/ (params.hostFor = "explicit" /\ spec.host # params.host)
EnsureAnswered ==
    /\ [](\A r \in Callers : ens[r].phase = "answered" => ~Misled(r))
    /\ \A r \in Callers : []<>~InFlight(r)

\* A console ends unless it is the one its living daemon knows: replaced,
\* given up, closed in the middle of its start or orphaned by a crash.
ConsolesEnd ==
    \A k \in Consoles : []<>(Up(k) => web = Running(k) /\ Alive(console[k].owner))
============================================================================
