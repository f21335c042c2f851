------------------------------ MODULE Harnesses ------------------------------
(***************************************************************************)
(* What the drivers say to each harness and what they make of the lines it *)
(* prints: the parsers of src/drivers, the hooks that call them            *)
(* (session-driver.ts), Antigravity's parser with its memory and its       *)
(* replay after a restart, the options of a command line and the reading   *)
(* of a failure (core/errors.ts).  A line is a kind with the fields it     *)
(* has; its events are event types.  EventPipeline takes its frames from   *)
(* here.                                                                   *)
(***************************************************************************)
EXTENDS Naturals, SequencesExt

Harness == {"claude", "grok", "codex", "opencode", "omp", "antigravity"}
Verdicts == {"completed", "failed"}

Line(kind, fields) == {[kind |-> kind, has |-> s] : s \in SUBSET fields}
Has(l, field) == field \in l.has
When(c, event) == IF c THEN <<event>> ELSE <<>>

-----------------------------------------------------------------------------
(* Parsers. *)

ClaudeLines ==
  Line("init", {"model"}) \cup Line("assistant", {"tool", "text"}) \cup Line("user", {"tool_result"})
  \cup Line("result", {"is_error", "subtype error", "subtype error_*", "usage", "cost", "text"})
  \cup Line("error", {}) \cup Line("stream_event", {"text"}) \cup Line("hook", {})
ClaudeResult(l) ==
  IF Has(l, "is_error") \/ Has(l, "subtype error") THEN <<"failed">>
  ELSE When(Has(l, "usage") \/ Has(l, "cost"), "usage") \o When(Has(l, "text"), "message") \o <<"completed">>
Claude(l) ==
  CASE l.kind = "init" -> <<"started">> \o When(Has(l, "model"), "usage")
    [] l.kind = "assistant" ->
         When(Has(l, "tool"), "toolStarted") \o When(Has(l, "text"), "message") \o When(Has(l, "text"), "delta")
    [] l.kind = "user" -> When(Has(l, "tool_result"), "toolCompleted")
    [] l.kind = "result" -> ClaudeResult(l)
    [] l.kind = "error" -> <<"error">>
    [] l.kind = "stream_event" -> When(Has(l, "text"), "delta")
    [] OTHER -> <<>>

\* Grok prints Claude's stream; every subtype that starts with "error" fails.
Grok(l) ==
  Claude(IF l.kind = "result" /\ (Has(l, "subtype error") \/ Has(l, "subtype error_*"))
         THEN [l EXCEPT !.has = @ \cup {"is_error"}] ELSE l)

CodexLines ==
  Line("thread.started", {}) \cup Line("turn.started", {}) \cup Line("item.started", {"tool"})
  \cup Line("item.completed", {"agent_message", "tool", "file_change", "text"})
  \cup Line("turn.completed", {"usage", "error", "failed"})
  \cup Line("error", {}) \cup Line("turn.failed", {"error"}) \cup Line("thread.completed", {})
CodexItem(l) ==
  CASE Has(l, "agent_message") /\ Has(l, "text") -> <<"message", "delta">>
    [] Has(l, "tool") -> <<"toolCompleted">>
    [] Has(l, "file_change") -> <<"fileChanged">>
    [] OTHER -> When(Has(l, "text"), "message")
Codex(l) ==
  CASE l.kind = "thread.started" -> <<"started">>
    [] l.kind = "turn.started" -> <<"turnStarted">>
    [] l.kind = "item.started" -> When(Has(l, "tool"), "toolStarted")
    [] l.kind = "item.completed" -> CodexItem(l)
    [] l.kind = "turn.completed" ->
         When(Has(l, "usage"), "usage") \o When(Has(l, "error") \/ Has(l, "failed"), "failed") \o <<"turnCompleted">>
    [] l.kind = "error" -> <<"error">>
    [] l.kind = "turn.failed" -> <<"failed">>
    [] l.kind = "thread.completed" -> <<"completed">>
    [] OTHER -> <<>>

OpencodeLines ==
  Line("error", {"error"}) \cup Line("text", {"text"}) \cup Line("reasoning", {"text"}) \cup Line("tool_use", {})
  \cup Line("step_finish", {"usage", "cost"}) \cup Line("step_start", {})
Opencode(l) ==
  CASE l.kind = "error" -> <<"failed">>
    [] l.kind = "text" -> When(Has(l, "text"), "message") \o When(Has(l, "text"), "delta")
    [] l.kind = "reasoning" -> When(Has(l, "text"), "message")
    [] l.kind = "tool_use" -> <<"toolStarted", "toolCompleted">>
    [] l.kind = "step_finish" -> When(Has(l, "usage") \/ Has(l, "cost"), "usage")
    [] OTHER -> <<>>

OmpLines ==
  UNION {Line(k, {"error", "text"}) : k \in {"session", "message_update", "message_end", "agent_end",
                                             "message", "text_delta", "other", "method"}}
  \cup UNION {Line(k, {"error"}) : k \in {"tool_execution_start", "tool_execution_end", "tool_use",
                                             "tool_result", "usage"}}
  \cup Line("done", {"error", "is_error", "text"})
\* `omp --mode json`, and after it the spellings of its other modes.
OmpJson(l) ==
  CASE Has(l, "error") -> <<"failed">>
    [] l.kind = "session" -> <<"started">>
    [] l.kind = "message_update" -> When(Has(l, "text"), "delta")
    [] l.kind = "message_end" -> When(Has(l, "text"), "message")
    [] l.kind = "tool_execution_start" -> <<"toolStarted">>
    [] l.kind = "tool_execution_end" -> <<"toolCompleted">>
    [] l.kind = "agent_end" -> <<"completed">>
    [] OTHER -> <<>>
Omp(l) ==
  CASE Has(l, "error") -> OmpJson(l)
    [] l.kind = "message" -> When(Has(l, "text"), "message")
    [] l.kind = "text_delta" -> <<"delta">>
    [] l.kind = "tool_use" -> <<"toolStarted">>
    [] l.kind = "tool_result" -> <<"toolCompleted">>
    [] l.kind = "usage" -> <<"usage">>
    [] l.kind = "done" ->
         IF Has(l, "is_error") THEN <<"failed">> ELSE When(Has(l, "text"), "message") \o <<"completed">>
    [] l.kind = "other" -> When(Has(l, "text"), "message")
    [] l.kind = "method" -> When(Has(l, "text"), "delta")
    [] OTHER -> OmpJson(l)

\* Antigravity streams its answer and may leave it out of the result: the
\* parser remembers the streamed text, here only the turns it comes from.
AntigravityLines ==
  Line("not JSON", {}) \cup Line("init", {}) \cup Line("result", {"error", "usage", "text"}) \cup Line("error", {})
  \cup UNION {Line("step_update", {step, "usage"}) : step \in {"text", "blank text", "tool active", "tool done"}}
Forgotten == {}
Appended(memory, turn) == memory \cup {turn}
\* <<its events, the memory after it, the turns whose text it answers with>>
AntigravityResult(l, memory, turn) ==
  LET answer == IF Has(l, "text") THEN {turn} ELSE memory
  IN IF Has(l, "error") THEN <<<<"failed">>, Forgotten, {}>>
     ELSE << When(Has(l, "usage"), "usage") \o (IF answer = {} THEN <<"failed">> ELSE <<"message", "completed">>),
             Forgotten, answer >>
Antigravity(l, memory, turn) ==
  CASE l.kind = "not JSON" -> <<<<"delta">>, Appended(memory, turn), {}>>
    [] l.kind = "error" -> <<<<"failed">>, Forgotten, {}>>
    [] l.kind = "init" -> <<<<"started">>, Forgotten, {}>>
    [] l.kind = "step_update" ->
         << When(Has(l, "text") \/ Has(l, "blank text"), "delta") \o When(Has(l, "tool active"), "toolStarted")
              \o When(Has(l, "tool done"), "toolCompleted") \o When(Has(l, "usage"), "usage"),
            IF Has(l, "text") THEN Appended(memory, turn) ELSE memory, {} >>
    [] l.kind = "result" -> AntigravityResult(l, memory, turn)
    [] OTHER -> <<<<>>, memory, {}>>

\* The hooks: what a line of stdout or stderr becomes.
PlainTextFallback == {"omp", "antigravity"}
Parsed(h, l) ==
  CASE l.kind = "not JSON" /\ h # "antigravity" -> <<>>
    [] h = "claude" -> Claude(l)
    [] h = "grok" -> Grok(l)
    [] h = "codex" -> Codex(l)
    [] h = "opencode" -> Opencode(l)
    [] h = "omp" -> Omp(l)
    [] OTHER -> Antigravity(l, Forgotten, 1)[1]
\* The parsers read fields of the object without a test that it is one: a
\* line `null` throws, and the runtime stores the error in its place.
Frame(h, l) ==
  CASE l.kind = "null" -> When(h # "antigravity", "error")
    [] Parsed(h, l) = <<>> /\ h \in PlainTextFallback /\ l.kind = "not JSON" -> <<"delta">>
    [] OTHER -> Parsed(h, l)
StderrFrame(h, isError) == When(h = "codex" /\ isError, "error")

LinesOf(h) ==
  Line("not JSON", {}) \cup Line("null", {}) \cup
  (CASE h \in {"claude", "grok"} -> ClaudeLines [] h = "codex" -> CodexLines [] h = "opencode" -> OpencodeLines
     [] h = "omp" -> OmpLines [] OTHER -> AntigravityLines)
AllFrames == UNION {{Frame(h, l) : l \in LinesOf(h)} : h \in Harness}
AllErrFrames == {StderrFrame(h, isError) : h \in Harness, isError \in BOOLEAN}

\* One line ends a session at most once, and then only codex's end of the turn,
\* one event, follows in it; stderr never ends one.
ASSUME OneVerdict ==
  /\ \A f \in AllFrames : \A i \in DOMAIN f : f[i] \in Verdicts =>
       Len(f) <= i + 1 /\ \A j \in i + 1 .. Len(f) : f[j] = "turnCompleted"
  /\ \A f \in AllErrFrames : ToSet(f) \cap Verdicts = {}
\* A line in which its harness reports an error never completes the session.
Reports(l) == l.has \cap {"is_error", "error", "subtype error", "failed"} # {}
ASSUME ErrorNeverCompletes ==
  \A h \in Harness : \A l \in LinesOf(h) : Reports(l) => "completed" \notin ToSet(Frame(h, l))

-----------------------------------------------------------------------------
(* Antigravity's memory over a session: a turn is the lines of one process, *)
(* init first but for text that is not JSON. A restart replays the log to   *)
(* the committed line.                                                      *)

Texts == {l \in AntigravityLines : l.kind = "not JSON" \/ l.has \in {{"text"}, {"blank text"}}}
Ends == {l \in AntigravityLines : l.kind \in {"result", "error"} /\ "usage" \notin l.has}
Opening == [kind |-> "init", has |-> {}]
Turns == {before \o <<Opening>> \o after :
             before \in {<<>>, <<[kind |-> "not JSON", has |-> {}]>>},
             after \in {<<>>} \cup {<<l>> : l \in Texts} \cup {<<l, e>> : l \in Texts, e \in Ends}}

\* The events and answers of the lines, from a memory on.
Reads(lines, memory, turn) ==
  FoldLeft(LAMBDA acc, l : LET r == Antigravity(l, acc.memory, turn)
                           IN [memory |-> r[2], out |-> Append(acc.out, <<r[1], r[3]>>)],
           [memory |-> memory, out |-> <<>>], lines)
\* start() forgets; the log keeps the lines of every turn.
Live(t1, t2) == Reads(t1, Forgotten, 1).out \o Reads(t2, Forgotten, 2).out
\* alignAntigravityLogOffset, replayAntigravityOutput: the memory at a cut.
Replayed(t1, t2, cut) ==
  Reads(SubSeq(t2, 1, cut), Reads(t1, Forgotten, 1).memory, 2).memory
\* A runtime that reattaches anywhere in the second turn reads the rest of it
\* as the one before would have, and no turn answers with another one's text.
ASSUME ReplayIsLive ==
  \A t1 \in Turns, t2 \in Turns :
    /\ \A cut \in 0 .. Len(t2) :
         Reads(SubSeq(t2, cut + 1, Len(t2)), Replayed(t1, t2, cut), 2).out
           = SubSeq(Live(t1, t2), Len(t1) + cut + 1, Len(t1) + Len(t2))
    /\ \A i \in 1 .. Len(t1) + Len(t2) : Live(t1, t2)[i][2] \subseteq {IF i <= Len(t1) THEN 1 ELSE 2}

-----------------------------------------------------------------------------
(* Command lines. *)

Efforts == <<"low", "medium", "high", "xhigh", "max">>
AntigravityEffort(effort) == IF effort \in {"xhigh", "max"} THEN "high" ELSE effort
GrokEffort(effort) == IF effort = "max" THEN "xhigh" ELSE effort
Effort(h, effort) ==
  CASE h = "antigravity" -> AntigravityEffort(effort) [] h = "grok" -> GrokEffort(effort) [] OTHER -> effort
\* Which options of a start, or of the turn that send() resumes, are told.
Options == {"model", "effort", "fast", "sandbox", "bypass", "resume"}
ClaudeTold(options) == options \cap {"model", "effort", "resume"}
OmpTold(options) == options \cap {"model", "effort", "fast", "resume"}
OpencodeTold(options) == options \cap {"model", "resume"}
\* A resumed thread keeps its sandbox; a new one is given one in any case.
CodexTold(options) == IF "resume" \in options THEN options \ {"sandbox"} ELSE options \cup {"sandbox"}
Told(h, options) ==
  CASE h = "codex" -> CodexTold(options)
    [] h = "omp" -> OmpTold(options)
    [] h = "opencode" -> OpencodeTold(options)
    [] OTHER -> ClaudeTold(options)
\* The levels each harness takes, as the comments of the drivers give them.
Accepts(h) == CASE h = "antigravity" -> 1 .. 3 [] h = "grok" -> 1 .. 4 [] OTHER -> 1 .. 5
\* A harness is told the highest level that it takes and that was asked for,
\* and every harness is told which conversation and model it goes on with.
ASSUME EffortIsNearest ==
  \A h \in Harness : \A i \in 1 .. 5 :
    Effort(h, Efforts[i]) = Efforts[CHOOSE j \in Accepts(h) : j <= i /\ \A k \in Accepts(h) : k <= i => k <= j]
ASSUME ResumeIsTold ==
  \A h \in Harness : \A o \in SUBSET Options :
    o \cap {"resume", "model"} \subseteq Told(h, o) /\ Told(h, o) \subseteq o \cup {"sandbox"}

-----------------------------------------------------------------------------
(* Failures. *)

Signatures == {"store busy", "crash"}
ClassifyFailure(signs, exit, fatalSignal) ==
  CASE "store busy" \in signs -> [code |-> "STORE_BUSY", blame |-> "infra", retryable |-> TRUE]
    [] "crash" \in signs \/ fatalSignal \/ exit = "by signal" ->
         [code |-> "HARNESS_CRASH", blame |-> "harness", retryable |-> TRUE]
    [] exit = "error" -> [code |-> "TASK_ERROR", blame |-> "task", retryable |-> FALSE]
    [] OTHER -> [code |-> "UNKNOWN", blame |-> "harness", retryable |-> TRUE]
\* 0 completed or stopped, 1 the task failed, 2 the harness, 3 the environment.
ExitCodeForOutcome(status, blame) ==
  CASE status = "interrupted" -> IF blame = "infra" THEN 3 ELSE 0
    [] status \in {"failed", "orphaned"} -> CASE blame = "harness" -> 2 [] blame = "infra" -> 3 [] OTHER -> 1
    [] OTHER -> 0
\* Exit code 1, which tells a caller not to try again, means that the harness
\* ended in good order with an error: no crash, no signal, no busy store.
ASSUME NoRetryIsTask ==
  \A signs \in SUBSET Signatures, exit \in {"unknown", "ok", "error", "by signal"}, fatal \in BOOLEAN :
    LET f == ClassifyFailure(signs, exit, fatal)
    IN /\ f.retryable <=> ExitCodeForOutcome("failed", f.blame) # 1
       /\ ~f.retryable <=> signs = {} /\ exit = "error" /\ ~fatal
=============================================================================
