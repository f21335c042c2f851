------------------------------ MODULE RunRules ------------------------------
(***************************************************************************)
(* What `codedeck run` makes of its options and the settings file          *)
(* (src/cli/commands/run.ts, src/config/config.ts), and what               *)
(* session.create makes of that with the settings of its own process       *)
(* (src/daemon/daemon.ts): the row that the new session starts from.       *)
(* Names stand for the kinds of values that the code tells apart.          *)
(***************************************************************************)
EXTENDS Naturals

Agents == {"claude", "codex", "opencode", "omp"}
Unset == "unset"

\* The command line, as far as a part of the row depends on it.
Options ==
    [agent : Agents \cup {"alias", "unknown", Unset}, model : {"asked", Unset},
     role : {"role", "unknown", Unset}, effort : {"high", "invalid", Unset}, fast : BOOLEAN]
\* The sandbox options; a policy that is none is one more usage error.
Policies == [sandbox : {"read-only", "danger-full-access", Unset}, bypass : BOOLEAN]
\* The settings: the entry of the role, which a person may have edited.
Entries == [harness : Agents \cup {"unknown"}, model : {"bound", ""}, effort : {"low", "invalid", Unset}]
NoEntry == [harness |-> Unset, model |-> "", effort |-> Unset]
Settings == [entry : Entries \cup {NoEntry}, default : {"codex", Unset}, model : {"usual", Unset}]

---------------------------------------------------------------------------
Or(value, fallback) == IF value # Unset THEN value ELSE fallback
Normalized(agent) == IF agent = "alias" THEN "omp" ELSE agent

\* resolveRoleBinding: an unusable pairing is none, an unusable effort unset.
Bound(opts, cfg) == opts.role = "role" /\ cfg.entry.harness \in Agents /\ cfg.entry.model # ""
BoundEffort(cfg) == IF cfg.entry.effort = "invalid" THEN Unset ELSE cfg.entry.effort

Agent(opts, cfg) ==
    IF Bound(opts, cfg) THEN cfg.entry.harness
    ELSE Or(Normalized(opts.agent), Or(cfg.default, "claude"))
Model(opts, cfg) == IF Bound(opts, cfg) THEN cfg.entry.model ELSE Or(opts.model, cfg.model)
AskedEffort(opts, cfg) ==
    Or(opts.effort, IF Bound(opts, cfg) THEN BoundEffort(cfg) ELSE Unset)

\* The usage errors, which end the command before it asks for a session.
UsageError(opts, cfg) ==
    \/ opts.role = "unknown"
    \/ AskedEffort(opts, cfg) = "invalid"
    \/ AskedEffort(opts, cfg) = Unset /\ Agent(opts, cfg) # "opencode"

\* The parameters of session.create, and the row it makes of them: an agent
\* that no driver is registered for is refused there.
Row(opts, cfg) ==
    LET agent == Agent(opts, cfg)
    IN [agent |-> agent, model |-> Model(opts, cfg),
        effort |-> IF agent = "opencode" THEN Unset ELSE AskedEffort(opts, cfg),
        fast |-> agent # "claude" /\ opts.fast]
Created(opts, cfg) == ~UsageError(opts, cfg) /\ Agent(opts, cfg) \in Agents

---------------------------------------------------------------------------
\* resolveDefaultSandbox and resolveRequestSandbox: what is invalid is absent.
Valid(sandbox) == IF sandbox = "invalid" THEN Unset ELSE sandbox

\* The bypass asks for full access and overrules every other policy.
Policy(p, configured) ==
    IF p.bypass THEN "danger-full-access" ELSE Or(p.sandbox, Valid(configured))
SandboxParameter(agent, p, configured) ==
    IF agent = "codex" THEN Policy(p, configured) ELSE Unset
\* The daemon has read the settings again, perhaps after a change.
SandboxOfRow(agent, parameter, configured) ==
    IF agent = "codex" THEN Or(Valid(parameter), Valid(configured)) ELSE Unset

\* --worktree, --no-worktree or neither, against the setting of each process.
WorktreeParameter(asked, configured) ==
    IF asked # Unset THEN asked ELSE IF configured = "yes" THEN "yes" ELSE Unset
WantsWorktree(parameter, configured) == Or(parameter, configured) = "yes"

---------------------------------------------------------------------------
\* A role that is bound decides the harness and the model whatever the other
\* options say, and nothing else but an option chooses the effort over it
\* (README 232; run.ts 60-64).
ASSUME BindingDecides ==
    \A opts \in Options, cfg \in Settings :
        Created(opts, cfg) /\ Bound(opts, cfg) =>
            /\ Row(opts, cfg).agent = cfg.entry.harness /\ Row(opts, cfg).model = "bound"
            /\ Row(opts, cfg).effort \in {opts.effort, cfg.entry.effort, Unset}

\* No row claims what its harness was never told: an effort on opencode or a
\* service tier on claude; and every other harness is told an effort
\* (run.ts 104-109 and 150-153).
ASSUME RowClaimsApplied ==
    \A opts \in Options, cfg \in Settings :
        Created(opts, cfg) =>
            LET row == Row(opts, cfg)
            IN /\ row.effort = Unset <=> row.agent = "opencode"
               /\ row.effort # "invalid"
               /\ row.agent = "claude" => ~row.fast

\* The daemon's own settings change nothing that was asked for: a policy or a
\* worktree that was named holds, and a bypass never meets a narrower policy.
ASSUME AskedHolds ==
    LET Sandboxes == {"read-only", "workspace-write", "danger-full-access", "invalid", Unset}
        Answers == {"yes", "no", Unset}
    IN /\ \A agent \in Agents, p \in Policies, c, d \in Sandboxes :
            LET row == SandboxOfRow(agent, SandboxParameter(agent, p, c), d)
            IN /\ agent # "codex" => row = Unset
               /\ agent = "codex" /\ p.sandbox # Unset /\ ~p.bypass => row = p.sandbox
               /\ agent = "codex" /\ p.bypass => row = "danger-full-access"
               /\ row # "invalid"
       /\ \A asked \in Answers \ {Unset}, c, d \in Answers :
            WantsWorktree(WorktreeParameter(asked, c), d) <=> asked = "yes"
============================================================================
