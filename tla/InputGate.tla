------------------------------ MODULE InputGate ------------------------------
(***************************************************************************)
(* The keyboard of a session opened under a pty (src/open/pty.ts,          *)
(* src/open/injection.ts). codedeck forwards what the user types, byte by  *)
(* byte as the chunks come, and types `/rename <name>` itself, once: when  *)
(* the name file appears, the user has been quiet for 300 ms and the input *)
(* gate believes that the line of the harness is empty.                    *)
(*                                                                         *)
(* The terminal sends whole keys and reports; the reads cut them anywhere. *)
(* The harness's line is external: an arrow may recall a prompt or open a  *)
(* menu, or do nothing, and codedeck does not see which.                   *)
(***************************************************************************)
EXTENDS Naturals, Sequences, SequencesExt

CONSTANTS Kinds,     \* the keys and reports that the terminal sends
          MaxTyped   \* how many of them may wait to be read

ASSUME KindsAssumption ==
    Kinds \subseteq {"text", "backslash", "enter", "control", "escape", "alt-enter", "arrow", "focus",
                     "reply", "kitty-esc", "paste-on", "paste-off", "mouse"}

VARIABLES
    gate,                          \* createInputGate: what it thinks of the line
    pending, used, timer, disposed, \* createInputGate: the rename
    fresh,                         \* less than QUIET_MS since the last activity
    wire,                          \* bytes that the terminal sent, not yet read
    line, half,                    \* the harness: its line; the key it has half of
    sidecar, delivered             \* the name file; watchNameSidecar

keyboard == <<gate, pending, used, timer, disposed, fresh, wire, line, half, sidecar, delivered>>

---------------------------------------------------------------------------
(* What a terminal sends. Bytes that a cut between them leaves in the same *)
(* state of the gate as a cut before them are one.                         *)
ESC == "esc"
CR == "cr"
Csi(bytes) == <<ESC, "[">> \o bytes
Bytes(kind) ==
    CASE kind = "text"      -> <<"a">>
      [] kind = "backslash" -> <<"\\">>
      [] kind = "enter"     -> <<CR>>
      [] kind = "control"   -> <<"ctrl">>
      [] kind = "escape"    -> <<ESC>>
      [] kind = "alt-enter" -> <<ESC, CR>>
      [] kind = "arrow"     -> Csi(<<"A">>)
      [] kind = "focus"     -> Csi(<<"I">>)
      [] kind = "reply"     -> Csi(<<"?", "c">>)
      [] kind = "kitty-esc" -> Csi(<<"2", "7u">>)
      [] kind = "paste-on"  -> Csi(<<"2", "00~">>)
      [] kind = "paste-off" -> Csi(<<"2", "01~">>)
      [] kind = "mouse"     -> Csi(<<"<", "0M">>)
Silent == {"focus", "reply", "mouse"}  \* reports, which edit nothing

\* A byte on the wire, told by the key or report that it belongs to.
Byte(w) == Bytes(w.kind)[w.at]
Ends(w) == w.at = Len(Bytes(w.kind))
Sent(kind) == [i \in DOMAIN Bytes(kind) |-> [kind |-> kind, at |-> i]]

---------------------------------------------------------------------------
(* The harness's line, which codedeck cannot see. *)
EmptyLine == [text |-> FALSE, menu |-> FALSE, slash |-> FALSE, paste |-> FALSE, esc |-> FALSE]
Clean(l) == ~l.text /\ ~l.menu /\ ~l.paste

\* Escape closes a menu or clears the line, or not; twice in a row it may
\* open a menu. Enter takes the menu's choice, inserts a newline or submits.
Texts(l, kind) ==
    CASE kind \in {"text", "backslash", "alt-enter"} -> {TRUE}
      [] kind \in {"arrow", "control"} -> BOOLEAN
      [] kind \in {"escape", "kitty-esc"} -> {FALSE, l.text}
      [] kind = "enter" -> IF l.paste THEN {TRUE} ELSE IF l.menu THEN BOOLEAN ELSE {l.slash}
      [] kind \in {"paste-on", "paste-off"} -> {l.text}
Menus(l, kind) ==
    CASE kind \in {"arrow", "control"} -> BOOLEAN
      [] kind \in {"escape", "kitty-esc"} -> {FALSE, l.menu \/ l.esc}
      [] kind = "enter" -> {l.menu /\ l.paste}
      [] kind \in {"text", "backslash", "alt-enter", "paste-on", "paste-off"} -> {l.menu}
Pressed(l, kind) ==
    IF kind \in Silent THEN {l}
    ELSE [text : Texts(l, kind), menu : Menus(l, kind),
          paste : {kind = "paste-on" \/ (l.paste /\ kind # "paste-off")},
          slash : {kind = "backslash"}, esc : {kind \in {"escape", "kitty-esc"}}]

\* What the line may be once the keys that end in a chunk have been pressed.
LinesAfter(l, chunk) ==
    LET lines[i \in 0 .. Len(chunk)] ==
            IF i = 0 THEN {l}
            ELSE IF Ends(chunk[i]) THEN UNION {Pressed(m, chunk[i].kind) : m \in lines[i - 1]}
            ELSE lines[i - 1]
    IN lines[Len(chunk)]

---------------------------------------------------------------------------
(* The gate, byte by byte. `here`: the escape began in this chunk; `active`: *)
(* a byte of this chunk counted as typing.                                   *)
Started(chunk) == [chunk EXCEPT !.here = FALSE, !.active = FALSE]
Prev(byte) == IF byte \in {"\\", ESC} THEN byte ELSE "other"

\* isSubmit, observeEnter, markDirty.
Submits(g, byte) == byte = CR /\ ~g.paste /\ g.prev = "other"
Dirty(g) == [g EXCEPT !.dirty = TRUE]
MutantEntered(g) == [g EXCEPT !.dirty = FALSE, !.guard = FALSE]
Entered(g) == [g EXCEPT !.dirty = g.guard, !.guard = FALSE]
FlushedByte(g, byte) == [(IF Submits(g, byte) THEN Entered(g) ELSE Dirty(g)) EXCEPT !.prev = Prev(byte)]
Active(g) == [g EXCEPT !.active = TRUE]

BeginEscape(g) ==
    [g EXCEPT !.esc = <<ESC>>, !.mouse = FALSE, !.before = g.dirty, !.prevBefore = g.prev, !.here = TRUE]

FlushedBytes(g, held) ==
    LET done[i \in 0 .. Len(held)] == IF i = 0 THEN g ELSE FlushedByte(done[i - 1], held[i])
    IN done[Len(held)]

\* flushUnknownEscape: the bytes held back count as typed, and the next Enter
\* may go to a menu that they opened.
FlushUnknown(g, byte) ==
    LET guarded == [g EXCEPT !.guard = @ \/ g.esc # <<ESC, CR>>, !.kitty = FALSE]
        flushed == FlushedBytes(guarded, IF byte = ESC THEN Front(g.esc) ELSE g.esc)
    IN Active([(IF byte = ESC THEN BeginEscape(flushed) ELSE [flushed EXCEPT !.esc = <<>>, !.mouse = FALSE])
               EXCEPT !.prev = Prev(byte)])

\* A focus or mouse report leaves everything as it was before its escape.
Restored(g) == [g EXCEPT !.esc = <<>>, !.mouse = FALSE, !.dirty = g.before, !.prev = g.prevBefore]

WithinEscape(g, byte) ==
    LET esc == Append(g.esc, byte)
        held == [g EXCEPT !.esc = esc]
        Is(kind) == esc = Bytes(kind)
        May(kind) == IsStrictPrefix(esc, Bytes(kind))
        Ended == Active(Dirty([g EXCEPT !.esc = <<>>]))
        Held == [held EXCEPT !.prev = Prev(byte)]
    IN CASE Is("focus") -> IF g.here THEN Restored(g) ELSE FlushUnknown(held, byte)
         [] Is("paste-on") -> [Ended EXCEPT !.paste = TRUE, !.kitty = FALSE]
         [] Is("paste-off") -> [Ended EXCEPT !.paste = FALSE, !.kitty = FALSE]
         [] Is("kitty-esc") -> [Ended EXCEPT !.guard = @ \/ g.kitty, !.kitty = ~g.kitty]
         [] esc = Csi(<<"<">>) /\ ~g.paste -> [Held EXCEPT !.mouse = TRUE]
         [] g.mouse -> IF Is("mouse") THEN Restored(g)
                       ELSE IF May("mouse") THEN Held ELSE FlushUnknown(held, byte)
         [] May("paste-on") \/ May("paste-off") \/ May("kitty-esc") -> Held
         [] OTHER -> FlushUnknown(held, byte)

ObserveByte(g, byte) ==
    IF g.esc # <<>> THEN WithinEscape(g, byte)
    ELSE IF byte = ESC THEN [Dirty(BeginEscape(g)) EXCEPT !.prev = ESC]
    ELSE LET plain == Active([g EXCEPT !.kitty = FALSE, !.prev = Prev(byte)])
         IN IF Submits(g, byte) THEN Entered(plain)
            ELSE [Dirty(plain) EXCEPT !.guard = @ \/ byte = "ctrl"]

\* observe: the bytes of a chunk one after the other.
Observed(g, bytes) ==
    LET gates[i \in 0 .. Len(bytes)] == IF i = 0 THEN g ELSE ObserveByte(gates[i - 1], bytes[i])
    IN gates[Len(bytes)]

\* A chunk that is a focus report, or terminal replies and nothing else.
Ignored(bytes) == bytes \in {Bytes("focus"), Bytes("reply"), Bytes("reply") \o Bytes("reply")}

---------------------------------------------------------------------------
(* The rename. *)
\* tryInject, with the gate's view of the line.
TryInject(wants, dirty) ==
    /\ timer' = FALSE
    /\ IF ~used /\ wants /\ ~dirty
       THEN used' = TRUE /\ pending' = FALSE
       ELSE used' = used /\ pending' = wants

MutantScheduleQuiet(wants, dirty, recent) ==
    IF recent THEN timer' = timer /\ pending' = wants /\ used' = used
    ELSE TryInject(wants, dirty)
\* scheduleQuiet: at once if the user has been quiet long enough.
ScheduleQuiet(wants, dirty, recent) ==
    IF recent THEN timer' = TRUE /\ pending' = wants /\ used' = used
    ELSE TryInject(wants, dirty)

---------------------------------------------------------------------------
(* The terminal and startPtySession's `forward`. *)
\* Whether the harness will be within a paste after i bytes of the wire.
Marks(w, kind) == w.kind = kind /\ Ends(w)
PastingAfter(i) ==
    \/ line.paste /\ \A j \in 1 .. i : ~Marks(wire[j], "paste-off")
    \/ \E j \in 1 .. i : Marks(wire[j], "paste-on") /\ \A k \in j .. i : ~Marks(wire[k], "paste-off")

\* Within a paste a terminal sends its text and reports, and no keys.
Types(kind) ==
    /\ ~disposed
    /\ Len(SelectSeq(wire, Ends)) < MaxTyped
    /\ kind \in Silent \cup
          (IF PastingAfter(Len(wire)) THEN {"text", "backslash", "enter", "paste-off"} ELSE Kinds \ {"paste-off"})
    /\ wire' = wire \o Sent(kind)
    /\ UNCHANGED <<gate, pending, used, timer, disposed, fresh, line, half, sidecar, delivered>>

Forward(n) ==
    /\ ~disposed
    /\ n \in 1 .. Len(wire)
    /\ LET chunk == SubSeq(wire, 1, n)
           bytes == [i \in 1 .. n |-> Byte(chunk[i])]
           seen == Observed(gate, bytes)
       IN /\ IF Ignored(bytes)
             THEN UNCHANGED <<gate, fresh, timer, pending, used>>
             ELSE /\ gate' = Started(seen)
                  /\ fresh' = (fresh \/ seen.active)
                  /\ ScheduleQuiet(pending, gate'.dirty, fresh')
          /\ line' \in LinesAfter(line, chunk)
          /\ half' = IF Ends(chunk[n]) THEN "none" ELSE chunk[n].kind
    /\ wire' = SubSeq(wire, n + 1, Len(wire))
    /\ UNCHANGED <<disposed, sidecar, delivered>>

QuietPasses ==
    /\ ~disposed /\ fresh
    /\ fresh' = FALSE
    /\ UNCHANGED <<gate, pending, used, timer, disposed, wire, line, half, sidecar, delivered>>

TimerFires ==
    /\ timer /\ ~fresh
    /\ TryInject(pending, gate.dirty)
    /\ UNCHANGED <<gate, disposed, fresh, wire, line, half, sidecar, delivered>>

---------------------------------------------------------------------------
(* The name: the hook creates the file, fills it, and each time the watcher *)
(* reads it; an empty one is passed over, a name with nothing that may be   *)
(* typed is taken and dropped.                                              *)
HookWrites(content) ==
    /\ ~disposed
    /\ sidecar = "none" \/ (sidecar = "empty" /\ content # "empty")
    /\ sidecar' = content
    /\ UNCHANGED <<gate, pending, used, timer, disposed, fresh, wire, line, half, delivered>>

WatcherReads ==
    /\ ~disposed /\ ~delivered /\ sidecar \in {"name", "unprintable"}
    /\ delivered' = TRUE
    /\ IF sidecar = "name" /\ ~used /\ ~pending
       THEN ScheduleQuiet(TRUE, gate.dirty, fresh)
       ELSE UNCHANGED <<timer, pending, used>>
    /\ UNCHANGED <<gate, disposed, fresh, wire, line, half, sidecar>>

\* The session is over: nobody reads what is on the wire.
Dispose ==
    /\ ~disposed
    /\ disposed' = TRUE
    /\ pending' = FALSE /\ timer' = FALSE /\ wire' = <<>>
    /\ UNCHANGED <<gate, used, fresh, line, half, sidecar, delivered>>

---------------------------------------------------------------------------
GateInit ==
    /\ gate = [dirty |-> FALSE, guard |-> FALSE, paste |-> FALSE, kitty |-> FALSE, esc |-> <<>>,
               mouse |-> FALSE, before |-> FALSE, prev |-> "other", prevBefore |-> "other",
               here |-> FALSE, active |-> FALSE]
    /\ pending = FALSE /\ used = FALSE /\ timer = FALSE /\ disposed = FALSE /\ fresh = TRUE
    /\ wire = <<>> /\ line = EmptyLine /\ half = "none"
    /\ sidecar = "none" /\ delivered = FALSE

GateNext ==
    \/ \E kind \in Kinds : Types(kind)
    \/ \E n \in 1 .. Len(wire) : Forward(n)
    \/ QuietPasses \/ TimerFires
    \/ \E content \in {"empty", "name", "unprintable"} : HookWrites(content)
    \/ WatcherReads \/ Dispose
GateSpec == GateInit /\ [][GateNext]_keyboard

---------------------------------------------------------------------------
\* codedeck types its command only into an empty line: no text of the user,
\* no menu, no paste and no half of a key, however the reads have cut the
\* keys and reports (pty.ts, the comment of createInputGate). Half a report
\* of the mouse is excepted: forward observes a chunk before it writes it,
\* and a report that two reads cut restores the clean line in between.
InjectsOnCleanLine == [][used' # used => Clean(line) /\ half \in {"none", "mouse"}]_keyboard

\* A rename that could be typed has a timer that will try it: no order of
\* reads, reports, pauses and the name file leaves it waiting for a key.
NoLostWakeup == pending /\ ~gate.dirty => timer
============================================================================
