---------------------------- MODULE SetupWizard ----------------------------
(***************************************************************************)
(* `codedeck setup --tui` (src/cli/commands/setup.ts): one screen after    *)
(* another, each a list with a filter (src/cli/picker-state.ts,            *)
(* src/cli/picker.ts), and the document that is made of the answers.       *)
(*                                                                         *)
(* Filter, cursor and scroll offset come down to `row`: the row that Enter *)
(* would take, or NoRow where the typed text names no harness. What a      *)
(* screen lists beside its rows is left out.                               *)
(***************************************************************************)
EXTENDS Naturals, Sequences

CONSTANTS RoleOrder,   \* the roles, in the order of their screens
          Listed, Off, \* model ids inside and outside of the catalog
          Efforts,     \* effort levels
          NoEffort,    \* models of the harness without effort levels
          NoRow, Unset,
          MaxKeys      \* presses between two answers

Roles == {RoleOrder[i] : i \in DOMAIN RoleOrder}
ModelIds == Listed \cup Off
Binding(m, e) == [model |-> m, effort |-> e]
Unbound == Binding(Unset, Unset)
Bindings == {Unbound} \cup {Binding(m, e) : m \in ModelIds, e \in Efforts \cup {Unset}}

\* Every role has one screen; a model is in the catalog or not, and is no
\* missing row; the screen of the effort lists one at least.
ASSUME WizardAssumption ==
    /\ RoleOrder \in Seq(Roles)
    /\ \A i, j \in DOMAIN RoleOrder : RoleOrder[i] = RoleOrder[j] => i = j
    /\ Listed \cap Off = {} /\ NoRow \notin ModelIds
    /\ Efforts # {}

VARIABLES
    bindings, mode, \* what loadConfig found: the roles, the orchestrator mode
    screens,        \* `pending` of runScreens from the current screen on
    row, confirming, pasting, \* PickerState of the current screen
    results,        \* the answers so far that the bindings and the mode depend on
    phase,          \* "run", then "saved" or "kept"
    presses,           \* presses pressed since the last answer
    twice,          \* history: rows taken by two Enters in a row
    asked           \* history: the row the last key asked to confirm

wizardVars == <<bindings, mode, screens, row, confirming, pasting, results, phase, presses, twice, asked>>

---------------------------------------------------------------------------
Screen(kind, about) == [kind |-> kind, about |-> about]
RoleScreens == [i \in DOMAIN RoleOrder |-> Screen("role", RoleOrder[i])]
Parameter(n) == Screen("parameter", n)  \* investigate, selfWork, tools, parallelism
ScreensAtFirst ==
    RoleScreens \o <<Screen("mode", Unset), Screen("sandbox", Unset), Screen("autocompact", Unset)>>

\* The rows in the list, and those that typed text may add.
InList(s) ==
    CASE s.kind = "role" -> Listed
      [] s.kind = "effort" -> Efforts
      [] s.kind = "mode" -> {"preset", "custom"}
      [] OTHER -> {"value"}
Typed(s) ==
    CASE s.kind = "role" -> Off
      [] s.kind \in {"mode", "parameter"} -> {"typed"}
      [] OTHER -> {}
Rows(s) == InList(s) \cup Typed(s) \cup {NoRow}
\* The cursor is on the first row, which may be a saved model that is gone.
FirstRows(s) == IF s.kind = "role" THEN ModelIds ELSE {CHOOSE r \in InList(s) : TRUE}

\* The screens that an answer puts right behind its own: the effort of a bound
\* role, the parameters of a custom mode, parallelism again if it is no number.
Followups(s, answer) ==
    CASE s.kind = "role" /\ answer \in ModelIds \ NoEffort -> <<Screen("effort", s.about)>>
      [] s.kind = "mode" /\ answer = "custom" -> <<Parameter(1)>>
      [] s.kind = "parameter" /\ s.about = 4 /\ answer = "typed" -> <<Parameter(4)>>
      [] s.kind = "parameter" /\ s.about < 4 -> <<Parameter(s.about + 1)>>
      [] OTHER -> <<>>

Running == phase = "run" /\ screens # <<>>
Here == Head(screens)

---------------------------------------------------------------------------
Moves(r, c) == row' = r /\ confirming' = c /\ asked' = NoRow

\* A printable key, backspace, an arrow, or a character of a paste: the row
\* changes or not, and a pending confirmation is dropped.
Presses ==
    /\ Running /\ presses < MaxKeys
    /\ presses' = presses + 1
    /\ \E r \in Rows(Here) : Moves(r, NoRow)
    /\ UNCHANGED <<bindings, mode, screens, pasting, results, phase, twice>>

Pastes ==
    /\ Running /\ presses < MaxKeys
    /\ presses' = presses + 1
    /\ pasting' = ~pasting
    /\ UNCHANGED <<bindings, mode, screens, row, confirming, results, phase, twice, asked>>

\* runScreens: the next screen, with a fresh PickerState.
Answer(kind, item) ==
    /\ results' = IF Here.kind \in {"role", "effort", "mode"} \/ kind = "aborted"
                  THEN Append(results, [screen |-> Here, kind |-> kind, item |-> item])
                  ELSE results
    /\ screens' = IF kind = "aborted" THEN <<>>
                  ELSE Followups(Here, IF kind = "picked" THEN item ELSE NoRow) \o Tail(screens)
    /\ row' \in IF screens' = <<>> THEN {NoRow} ELSE FirstRows(Head(screens'))
    /\ confirming' = NoRow /\ pasting' = FALSE /\ presses' = 0 /\ asked' = NoRow
    /\ UNCHANGED <<bindings, mode, phase>>

\* Enter. Within a paste it is a character that is not taken.
Accepted(s, r, pending) == r \in InList(s) \/ pending = r
Picks ==
    /\ Running /\ ~pasting /\ row # NoRow
    /\ Accepted(Here, row, confirming)
    /\ twice' = IF asked = row THEN twice \cup {<<Here, row>>} ELSE twice
    /\ Answer("picked", row)

AsksAgain ==
    /\ Running /\ ~pasting /\ row # NoRow /\ presses < MaxKeys
    /\ ~Accepted(Here, row, confirming)
    /\ presses' = presses + 1
    /\ confirming' = row /\ asked' = row
    /\ UNCHANGED <<bindings, mode, screens, row, pasting, results, phase, twice>>

Skips == Running /\ ~pasting /\ Answer("skipped", NoRow) /\ UNCHANGED twice
Aborts == Running /\ ~pasting /\ Answer("aborted", NoRow) /\ UNCHANGED twice

---------------------------------------------------------------------------
Answers(kind, about) ==
    {results[i].item : i \in {j \in DOMAIN results :
        results[j].screen = Screen(kind, about) /\ results[j].kind = "picked"}}
Aborted == \E i \in DOMAIN results : results[i].kind = "aborted"

MutantCollected(r) ==
    IF Answers("role", r) = {} THEN bindings[r]
    ELSE Binding(CHOOSE m \in Answers("role", r) : TRUE, bindings[r].effort)
\* collectSelections, then the efforts: a pick replaces the whole binding.
Collected(r) ==
    IF Answers("role", r) = {} THEN bindings[r]
    ELSE Binding(CHOOSE m \in Answers("role", r) : TRUE, Unset)
WithEffort(r, b) ==
    IF Answers("effort", r) = {} \/ b = Unbound THEN b
    ELSE Binding(b.model, CHOOSE e \in Answers("effort", r) : TRUE)

\* collectOrchestratorSelection: typed text is no mode; a parameter skipped,
\* or typed where only its values count, keeps the value it had.
ModeAnswer == Answers("mode", Unset)
InvalidMode == "typed" \in ModeAnswer

Finishes ==
    /\ phase = "run" /\ screens = <<>>
    /\ phase' = IF Aborted \/ InvalidMode THEN "kept" ELSE "saved"
    /\ IF phase' = "saved"
       THEN /\ bindings' = [r \in Roles |-> WithEffort(r, Collected(r))]
            /\ mode' = IF ModeAnswer = {} THEN mode ELSE CHOOSE a \in ModeAnswer : TRUE
       ELSE UNCHANGED <<bindings, mode>>
    /\ UNCHANGED <<screens, row, confirming, pasting, results, presses, twice, asked>>

---------------------------------------------------------------------------
WizardInit ==
    /\ bindings \in [Roles -> {Unbound} \cup {Binding(m, e) : m \in ModelIds, e \in Efforts}]
    /\ mode = "preset"
    /\ screens = ScreensAtFirst
    /\ row \in FirstRows(Head(ScreensAtFirst))
    /\ confirming = NoRow /\ pasting = FALSE
    /\ results = <<>> /\ phase = "run" /\ presses = 0 /\ twice = {} /\ asked = NoRow

WizardNext == Presses \/ Pastes \/ Picks \/ AsksAgain \/ Skips \/ Aborts \/ Finishes
WizardSpec == WizardInit /\ [][WizardNext]_wizardVars

---------------------------------------------------------------------------
\* What the wizard saves is what was answered: a role that nobody answered
\* keeps its binding, an effort answer belongs to the model picked just before
\* it, and a model outside of the catalog took two Enters in a row on its row.
SavedAsAnswered ==
    [][phase' # phase =>
         \A r \in Roles :
            \/ bindings'[r] = bindings[r]
            \/ \E i \in DOMAIN results :
                  /\ results[i].screen = Screen("role", r) /\ results[i].kind = "picked"
                  /\ results[i].item = bindings'[r].model
                  /\ bindings'[r].effort # Unset =>
                        /\ i + 1 \in DOMAIN results
                        /\ results[i + 1].screen = Screen("effort", r)
                        /\ results[i + 1].item = bindings'[r].effort
                  /\ bindings'[r].model \in Off => <<results[i].screen, bindings'[r].model>> \in twice]_wizardVars
============================================================================
