------------------------------ MODULE KillTree ------------------------------
(***************************************************************************)
(* killTree of src/utils/process.ts, which session.stop and the daemon's   *)
(* shutdown run for a harness that leads a process group of its own, with  *)
(* the process table of Linux as its environment. One step is one system   *)
(* call: processes die between any two of them.                            *)
(*                                                                         *)
(* Only the pid of the harness matters. The kernel does not give it away   *)
(* while its group has a member. Once it is free, another process may get  *)
(* it, but only while killTree sleeps or has not begun: a pid comes round  *)
(* after tens of thousands of others. That process is a member of another  *)
(* group until it makes one of its own.                                    *)
(***************************************************************************)

CONSTANT Children  \* processes that the harness starts in its group

VARIABLES
  known,     \* whether the caller has the start time of the harness
  ours,      \* the living processes of the harness's group
  stranger,  \* who has the pid after the harness: "none", "member" or "leader"
  pc,        \* the next call of killTree
  sig,       \* the signal that the calls of `signal` send
  signaled,  \* groupSignaled
  hit        \* history: signals that reached a stranger, by what it was

table == <<known, ours, stranger>>
killing == <<table, pc, sig, signaled, hit>>

Leader == "harness"
ProcessAlive == Leader \in ours \/ stranger # "none"
ProcessGroupAlive == ours # {} \/ stranger = "leader"

MutantMatches == known => ProcessAlive
\* matchesExpectedLeader: /proc/<pid>/stat names the start time.
Matches == known => Leader \in ours
CanSignalGroup == Matches \/ (~ProcessAlive /\ ProcessGroupAlive)

-----------------------------------------------------------------------------
(* The process table. *)
Exits(p) ==
  /\ p \in ours
  /\ ours' = ours \ {p}
  /\ UNCHANGED <<known, stranger, pc, sig, signaled, hit>>

\* A member of the group starts another one.
Forks(p) ==
  /\ ours # {} /\ p \in Children \ ours
  /\ ours' = ours \cup {p}
  /\ UNCHANGED <<known, stranger, pc, sig, signaled, hit>>

Asleep == pc \in {"start", "sleep", "settle", "done"}
StrangerMoves ==
  /\ \/ stranger = "none" /\ ours = {} /\ Asleep /\ stranger' = "member"
     \/ stranger = "member" /\ stranger' = "leader"
     \/ stranger # "none" /\ stranger' = "none"
  /\ UNCHANGED <<known, ours, pc, sig, signaled, hit>>

-----------------------------------------------------------------------------
(* killTree. *)
Goes(to) == pc' = to /\ UNCHANGED <<table, signaled, hit>>

Begins == pc = "start" /\ sig' = "TERM" /\ Goes("test")

\* Where a signal that could not be sent leads.
Unsent == IF sig = "TERM" THEN "done" ELSE "settle"
Sent == IF sig = "TERM" THEN "poll" ELSE "settle"

SignalTests ==
  /\ pc = "test"
  /\ Goes(IF CanSignalGroup THEN "group" ELSE Unsent) /\ UNCHANGED sig

\* A signal ends who it reaches at once (KILL) or perhaps (TERM: Exits).
Ends(targets) == ours' = IF sig = "KILL" THEN ours \ targets ELSE ours
Hits(reached) == hit' = IF reached THEN hit \cup {stranger} ELSE hit

\* process.kill(-pid); what is left when nobody is in the group depends on
\* the call: the last one (`escalate`) gives up, the others try the pid.
SignalGroup ==
  /\ pc \in {"group", "escalate"}
  /\ IF ProcessGroupAlive
     THEN /\ pc' = Sent
          /\ Ends(ours) /\ Hits(stranger = "leader")
          /\ signaled' = (signaled \/ sig = "TERM")
     ELSE /\ pc' = IF pc = "escalate" THEN Unsent ELSE "identify"
          /\ UNCHANGED <<ours, signaled, hit>>
  /\ UNCHANGED <<known, stranger, sig>>

SignalIdentifies ==
  /\ pc = "identify"
  /\ Goes(IF Matches THEN "pid" ELSE Unsent) /\ UNCHANGED sig

SignalPid ==
  /\ pc = "pid"
  /\ pc' = IF ProcessAlive THEN Sent ELSE Unsent
  /\ Ends({Leader}) /\ Hits(stranger # "none")
  /\ UNCHANGED <<known, stranger, sig, signaled>>

\* The loop, whose deadline may pass in any state of the table.
Polls == pc = "poll" /\ pc' \in {"sleep", "last"} /\ UNCHANGED <<table, sig, signaled, hit>>
Gone == (~ProcessAlive /\ ~ProcessGroupAlive) \/ (ProcessAlive /\ ~Matches)
Wakes ==
  /\ pc = "sleep"
  /\ Goes(IF Gone THEN "last" ELSE "poll") /\ UNCHANGED sig

MutantMayEscalate == ProcessAlive /\ Matches
MayEscalate == ProcessGroupAlive /\ (signaled \/ ~known)
Escalates ==
  /\ pc = "last"
  /\ sig' = "KILL"
  /\ Goes(IF MayEscalate THEN "escalate"
          ELSE IF ProcessAlive /\ Matches THEN "test" ELSE "settle")

Settles == pc = "settle" /\ Goes("done") /\ UNCHANGED sig

-----------------------------------------------------------------------------
KillInit ==
  /\ known \in BOOLEAN
  /\ ours = {Leader} \cup Children /\ stranger = "none"
  /\ pc = "start" /\ sig = "none" /\ signaled = FALSE /\ hit = {}

KillTreeStep ==
  \/ Begins \/ SignalTests \/ SignalGroup \/ SignalIdentifies \/ SignalPid
  \/ Polls \/ Wakes \/ Escalates \/ Settles

KillNext ==
  \/ \E p \in ours : Exits(p)
  \/ \E p \in Children : Forks(p)
  \/ StrangerMoves \/ KillTreeStep
KillSpec == KillInit /\ [][KillNext]_killing

-----------------------------------------------------------------------------
\* With a start time, a process that has got the pid and leads no group is
\* never signalled, however the deaths fall between the tests and the signals
\* (process.ts 142-144 and 158-160). A stranger that leads a group may be.
RecycledPidSpared == known => "member" \notin hit

\* Nothing of the harness's group outlives the call, its children included,
\* which ignore SIGTERM or start others meanwhile: whoever waits for it may
\* start the next turn in the same directory.
NothingSurvives == pc = "done" => ours = {}
=============================================================================
