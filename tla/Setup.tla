------------------------------- MODULE Setup -------------------------------
(***************************************************************************)
(* The settings file and the three programs that write it: the setup page *)
(* of the web console with its routes (src/web/setup-page.ts,              *)
(* src/web/setup-routes.ts), `codedeck setup --bind ...` and the terminal  *)
(* wizard (src/cli/commands/setup.ts). They run in different processes and *)
(* each reads the file, waits, and writes it; a person may edit it too.    *)
(*                                                                         *)
(* The page is modelled up to its controller: draft, drawer, in-flight     *)
(* requests, and what update() last rendered, since a click goes to what   *)
(* is on the screen and not to the state. The page behind the open drawer  *)
(* can be reached with the keyboard.                                       *)
(***************************************************************************)
EXTENDS SetupConfig

CONSTANTS FirstFiles,  \* the settings file and the legacy one, at first
          SomeFiles,   \* what a person makes of the settings file
          SomeEntries, \* what the catalog cache holds at first, or is found
          MaxEdits,    \* edits of the draft
          MaxWrites,   \* writes by hand, batch runs and wizards
          MaxCatalogs  \* changes of the catalog cache

ASSUME SetupAssumption ==
    /\ FirstFiles \subseteq Files \X Files /\ SomeFiles \subseteq Files
    /\ SomeEntries \subseteq Entries
    /\ {MaxEdits, MaxWrites, MaxCatalogs} \subseteq Nat

VARIABLES
    canonical, legacy,  \* the two settings files
    cache,              \* the catalog cache on disk
    \* the page: what it loaded, its draft and its controller's flags
    load, target, draft, catalog, confirmOff, drawer, reviewOk, refreshing,
    \* the page: what update() rendered last
    shown, boxes, canApply,
    flight,             \* the request of postAction, at the page or the server
    batch, wizard,      \* the two command-line programs
    edits, writes, catalogs,          \* bounds
    reviewed, chosen, asked, ticked, behind  \* history: see the properties

settings == <<canonical, legacy>>
client == <<load, target, draft, catalog, confirmOff, drawer, reviewOk, refreshing>>
screen == <<shown, boxes, canApply>>
bounds == <<edits, writes, catalogs>>
history == <<reviewed, chosen, asked, ticked, behind>>
vars == <<settings, cache, client, screen, flight, batch, wizard, bounds, history>>

Nothing == [fields |-> {}, ticks |-> {}, behind |-> FALSE]
Idle == [kind |-> "none"]
ActionInFlight == flight.kind # "none"
Ready == load \notin {"state", "catalog", "failed"}

---------------------------------------------------------------------------
\* modelChanged, sandboxChanged, autocompactChanged: changeNames().
Changed(d, saved) == {f \in Fields : d[f] # Unset /\ d[f] # saved[f]}

\* offCatalogRoles, with the model that its checkbox names.
Boxes(d, saved, cat) ==
    [r \in {q \in Roles \cap Changed(d, saved) : OffCatalog(d[q], cat)} |-> d[r]]

MutantSelection(d, saved) == [f \in {g \in Fields : d[g] # Unset} |-> d[f]]
\* readForm and buildSetupSelection: the changed fields and no others.
Selection(d, saved) == [f \in Changed(d, saved) |-> d[f]]

MutantApplyEnabled(inFlight, ok, ticks, asks) == ~inFlight /\ asks \subseteq ticks
\* Whether Apply is enabled: nothing under way, a review that passed, and
\* every box that is asked for ticked.
ApplyEnabled(inFlight, ok, ticks, asks) == ~inFlight /\ ok /\ asks \subseteq ticks

\* update(): the drawer, its checkboxes, which lose their ticks when any of
\* them changes, and whether Apply is enabled.
Update(ticks) ==
    /\ shown' = drawer'
    /\ boxes' = Boxes(draft', target', catalog')
    /\ confirmOff' = IF boxes' = boxes THEN ticks ELSE {}
    /\ canApply' = ApplyEnabled(flight'.kind # "none", reviewOk', confirmOff', DOMAIN boxes')

\* What may be clicked on the page itself, behind an open drawer by keyboard.
NotesEdit(F) ==
    /\ chosen' = chosen \cup F
    /\ behind' = (behind \/ shown)
    /\ UNCHANGED <<reviewed, asked, ticked>>

---------------------------------------------------------------------------
(* The page loads: state, then catalog; after a save, state again. *)
StateArrives ==
    /\ load \in {"state", "reload"}
    /\ UNCHANGED <<settings, cache, catalog, drawer, reviewOk, refreshing, flight, batch, wizard, bounds>>
    /\ UNCHANGED <<reviewed, asked, ticked, behind>>
    /\ LET read == ReadForSetup(canonical, legacy)
       IN IF Problem(read)
          THEN /\ load' = IF load = "state" THEN "failed" ELSE "idle"
               /\ UNCHANGED <<target, draft, chosen>>
               /\ Update(confirmOff)
          ELSE /\ load' = IF load = "state" THEN "catalog" ELSE "idle"
               /\ target' = read.config
               /\ draft' = read.config
               /\ chosen' = {}
               /\ Update({})

CatalogArrives ==
    /\ load = "catalog"
    /\ load' = "idle"
    /\ catalog' \in {cache, catalog}
    /\ UNCHANGED <<target, draft, drawer, reviewOk, refreshing>>
    /\ UNCHANGED <<settings, cache, flight, batch, wizard, bounds, history>>
    /\ Update(confirmOff)

\* The request for the state is lost: an old target and draft stay.
ReloadLost ==
    /\ load = "reload"
    /\ load' = "idle"
    /\ UNCHANGED <<target, draft, catalog, drawer, reviewOk, refreshing>>
    /\ UNCHANGED <<settings, cache, flight, batch, wizard, bounds, history>>
    /\ Update(confirmOff)

---------------------------------------------------------------------------
(* Editing the draft. *)
EditDraft(f, v, ticks) ==
    /\ Ready
    /\ edits < MaxEdits
    /\ edits' = edits + 1
    /\ draft' = [draft EXCEPT ![f] = v]
    /\ UNCHANGED <<load, target, catalog, drawer, reviewOk, refreshing, flight>>
    /\ NotesEdit({f})
    /\ UNCHANGED <<settings, cache, batch, wizard, writes, catalogs>>
    /\ Update(ticks)

\* openPicker, a row of pickerEntries or typed text, selectBinding. A picker
\* lists the models of an available harness and offers any other when typed.
SelectBinding(r, m) == draft[r] # m /\ EditDraft(r, m, confirmOff \ {r})
SetAutocompact == EditDraft(Autocompact, IF draft[Autocompact] = "on" THEN "off" ELSE "on", confirmOff)
RevertRole(r) ==
    /\ target[r] # draft[r]
    /\ EditDraft(r, target[r], confirmOff \ {r})

Discard ==
    /\ Ready
    /\ Changed(draft, target) # {} /\ ~ActionInFlight /\ ~refreshing
    /\ draft' = target
    /\ UNCHANGED <<load, target, catalog, drawer, reviewOk, refreshing, flight>>
    /\ chosen' = {}
    /\ behind' = (behind \/ shown)
    /\ UNCHANGED <<settings, cache, batch, wizard, bounds, reviewed, asked, ticked>>
    /\ Update({})

---------------------------------------------------------------------------
(* The catalog: refreshed from the page or by another program. *)
RefreshCatalog ==
    /\ ~refreshing
    /\ catalogs < MaxCatalogs
    /\ catalogs' = catalogs + 1
    /\ refreshing' = TRUE
    /\ UNCHANGED <<load, target, draft, catalog, drawer, reviewOk, flight>>
    /\ UNCHANGED <<settings, cache, batch, wizard, edits, writes, history>>
    /\ Update(confirmOff)

\* getBatchModels with refresh: a failure falls back to a stale entry, and
\* with a fresh one it answers "unavailable", on which the page keeps its own.
RefreshArrives(found) ==
    /\ refreshing
    /\ refreshing' = FALSE
    /\ cache' = Discovered(cache, found)
    /\ catalog' = CASE found.kind # "none" -> found
                    [] found.kind = "none" /\ cache.kind # "none" /\ ~cache.fresh -> cache
                    [] OTHER -> catalog
    /\ UNCHANGED <<load, target, draft, drawer, reviewOk, flight>>
    /\ UNCHANGED <<settings, batch, wizard, bounds, history>>
    /\ Update(confirmOff)

RefreshElsewhere(found) ==
    /\ catalogs < MaxCatalogs
    /\ catalogs' = catalogs + 1
    /\ cache' = found
    /\ UNCHANGED <<settings, client, screen, flight, batch, wizard, edits, writes, history>>

---------------------------------------------------------------------------
(* Reviewing and saving. *)
Request(kind, sel, confirmed) ==
    [kind |-> kind, at |-> "sent", sel |-> sel, confirmed |-> confirmed]

\* openReview and the dry run that it posts.
OpenReview ==
    /\ Ready
    /\ Changed(draft, target) # {} /\ ~ActionInFlight /\ ~refreshing
    /\ drawer' = TRUE
    /\ reviewOk' = FALSE
    /\ flight' = Request("dry-run", Selection(draft, target), NoConfirmation)
    /\ UNCHANGED <<load, target, draft, catalog, refreshing>>
    /\ reviewed' = {}
    /\ behind' = FALSE
    /\ UNCHANGED <<settings, cache, batch, wizard, bounds, chosen, asked, ticked>>
    /\ Update(confirmOff)

\* Escape, the close button or the scrim, also while a request is in flight.
CloseReview ==
    /\ drawer
    /\ drawer' = FALSE
    /\ UNCHANGED <<load, target, draft, catalog, reviewOk, refreshing, flight>>
    /\ reviewed' = IF flight.kind = "apply" THEN reviewed ELSE {}
    /\ behind' = FALSE
    /\ UNCHANGED <<settings, cache, batch, wizard, bounds, chosen, asked, ticked>>
    /\ Update(confirmOff)

ConfirmOffCatalog(r, checked) ==
    /\ shown /\ r \in DOMAIN boxes
    /\ checked # (r \in confirmOff)
    /\ UNCHANGED <<load, target, draft, catalog, drawer, reviewOk, refreshing, flight>>
    /\ ticked' = IF checked THEN ticked \cup {<<r, boxes[r]>>}
                 ELSE {t \in ticked : t[1] # r}
    /\ UNCHANGED <<settings, cache, batch, wizard, bounds, reviewed, chosen, asked, behind>>
    /\ Update(IF checked THEN confirmOff \cup {r} ELSE confirmOff \ {r})

\* apply: the selection is built again from the draft as it is now.
Unconfirmed == DOMAIN Boxes(draft, target, catalog) \ confirmOff
Apply ==
    /\ shown /\ canApply
    /\ Unconfirmed = {}
    /\ flight' = Request("apply", Selection(draft, target), DOMAIN Boxes(draft, target, catalog))
    /\ UNCHANGED <<load, target, draft, catalog, drawer, reviewOk, refreshing>>
    /\ asked' = [fields |-> chosen, ticks |-> ticked, behind |-> behind]
    /\ UNCHANGED <<settings, cache, batch, wizard, bounds, reviewed, chosen, ticked, behind>>
    /\ Update(confirmOff)

\* mutationRoute up to its await: the body, the file, the plan.
ServerReads ==
    /\ ActionInFlight /\ flight.at = "sent"
    /\ LET read == ReadForSetup(canonical, legacy)
       IN flight' = IF Problem(read)
                    THEN [kind |-> flight.kind, at |-> "error"]
                    ELSE [kind |-> flight.kind, at |-> "validating", sel |-> flight.sel,
                          confirmed |-> IF flight.kind = "apply" THEN flight.confirmed ELSE NoConfirmation,
                          base |-> read.config, found |-> canonical]
    /\ UNCHANGED <<settings, cache, client, screen, batch, wizard, bounds, history>>

Proposal == Plan(flight.base, flight.sel)
RefusedRoles == Refused(ChangedBindings(flight.base, flight.sel), flight.sel, flight.confirmed, cache)

\* saveConfig answers false when the file holds these bytes already; it throws
\* before the rename, leaving the file, or after it, having replaced it.
Save(config, done, failed) ==
    \/ canonical = Document(config) /\ UNCHANGED canonical /\ failed = "unchanged"
    \/ canonical # Document(config) /\ canonical' = Document(config) /\ failed \in {done, "error"}
    \/ UNCHANGED canonical /\ failed = "error"

\* The rest of mutationRoute, after the validation.
ServerAnswers(result) ==
    /\ ActionInFlight /\ flight.at = "validating"
    /\ \/ /\ RefusedRoles # {}
          /\ result = "refused" /\ UNCHANGED canonical
       \/ /\ RefusedRoles = {} /\ DiffConfig(flight.base, Proposal) = {}
          /\ result = "unchanged" /\ UNCHANGED canonical
       \/ /\ RefusedRoles = {} /\ DiffConfig(flight.base, Proposal) # {}
          /\ IF flight.kind = "dry-run"
             THEN result = "dry-run" /\ UNCHANGED canonical
             ELSE Save(Proposal, "applied", result)
    /\ flight' = IF flight.kind = "apply" THEN [kind |-> "apply", at |-> result]
                 ELSE [kind |-> "dry-run", at |-> result, sel |-> flight.sel, base |-> flight.base,
                       failed |-> RefusedRoles, entry |-> cache]
    /\ UNCHANGED <<legacy, cache, client, screen, batch, wizard, bounds, history>>

\* onlyOffCatalogFailures: a refused dry run can be reviewed when every role
\* it refused is one that the drawer asks about, by the draft of this instant.
OnlyOffCatalogFailures ==
    /\ flight.failed # {}
    /\ \A r \in flight.failed : Verdict(flight.sel[r], flight.entry) \in {"unknown-model", "unverified"}
    /\ flight.failed \subseteq DOMAIN Boxes(draft, target, catalog)

Answered == flight.kind # "none" /\ flight.at \notin {"sent", "validating"}
DryRunArrives ==
    /\ Answered /\ flight.kind = "dry-run"
    /\ reviewOk' = (flight.at = "dry-run" \/ (flight.at = "refused" /\ OnlyOffCatalogFailures))
    /\ reviewed' = IF reviewOk' THEN {[base |-> flight.base, config |-> Proposal]} ELSE {}
    /\ flight' = Idle
    /\ UNCHANGED <<load, target, draft, catalog, drawer, refreshing>>
    /\ UNCHANGED <<settings, cache, batch, wizard, bounds, chosen, asked, ticked, behind>>
    /\ Update(confirmOff)

\* After "applied" the drawer is closed and the state loaded again, but
\* nothing is rendered before it has arrived: postAction rendered the last time.
ApplyArrives ==
    /\ Answered /\ flight.kind = "apply"
    /\ flight' = Idle
    /\ shown' = drawer
    /\ canApply' = ApplyEnabled(FALSE, reviewOk, confirmOff, DOMAIN boxes)
    /\ IF flight.at = "applied"
       THEN drawer' = FALSE /\ reviewOk' = FALSE /\ load' = "reload"
       ELSE UNCHANGED <<drawer, reviewOk, load>>
    /\ asked' = Nothing
    /\ UNCHANGED <<settings, cache, target, draft, catalog, confirmOff, refreshing, boxes,
                   batch, wizard, bounds, reviewed, chosen, ticked, behind>>

\* The answer is lost, or the session has expired: the page cannot tell
\* whether anything was written.
AnswerLost ==
    /\ ActionInFlight /\ flight.at # "validating"
    /\ flight' = Idle
    /\ UNCHANGED <<load, target, draft, catalog, drawer, reviewOk, refreshing>>
    /\ asked' = Nothing
    /\ UNCHANGED <<settings, cache, batch, wizard, bounds, reviewed, chosen, ticked, behind>>
    /\ Update(confirmOff)

---------------------------------------------------------------------------
(* `codedeck setup --bind role=model ... [--refresh] [--dry-run]` *)
BatchReads(sel) ==
    /\ batch = Idle
    /\ writes < MaxWrites
    /\ writes' = writes + 1
    /\ sel # NoSelection /\ DOMAIN sel \subseteq Roles
    /\ LET read == ReadForSetup(canonical, legacy)
       IN /\ ~Problem(read)
          /\ batch' = [kind |-> "validating", sel |-> sel, base |-> read.config]
    /\ UNCHANGED <<settings, cache, client, screen, flight, wizard, edits, catalogs, history>>

\* getBatchModels with the network allowed: a fresh entry, a discovery, or the
\* stale entry when that fails. Every bind is validated, changed or not.
BatchEnds(found) ==
    /\ batch # Idle
    /\ LET entry == IF cache.kind # "none" /\ cache.fresh THEN cache ELSE Discovered(cache, found)
           proposed == Plan(batch.base, batch.sel)
       IN /\ cache' = entry
          /\ IF Refused(DOMAIN batch.sel, batch.sel, NoConfirmation, entry) # {}
             THEN UNCHANGED canonical
             ELSE \E result \in {"applied", "unchanged", "error"} : Save(proposed, "applied", result)
    /\ batch' = Idle
    /\ UNCHANGED <<legacy, client, screen, flight, wizard, bounds, history>>

---------------------------------------------------------------------------
(* The wizard reads before it discovers models and shows its screens. *)
WizardLoads ==
    /\ wizard = Idle
    /\ writes < MaxWrites
    /\ writes' = writes + 1
    /\ wizard' = [kind |-> "screens", loaded |-> LoadConfig(canonical)]
    /\ UNCHANGED <<settings, cache, client, screen, flight, batch, edits, catalogs, history>>

\* An interrupted wizard, or one without models or room, saves nothing.
WizardSaves(answers) ==
    /\ wizard # Idle
    /\ \E result \in {"applied", "unchanged", "error"} :
          Save(Plan(wizard.loaded, answers), "applied", result)
    /\ wizard' = Idle
    /\ UNCHANGED <<legacy, cache, client, screen, flight, batch, bounds, history>>

WizardInterrupted ==
    /\ wizard # Idle
    /\ wizard' = Idle
    /\ UNCHANGED <<settings, cache, client, screen, flight, batch, bounds, history>>

HandEdits(file) ==
    /\ writes < MaxWrites
    /\ writes' = writes + 1
    /\ canonical' = file
    /\ UNCHANGED <<legacy, cache, client, screen, flight, batch, wizard, edits, catalogs, history>>

---------------------------------------------------------------------------
Init ==
    /\ \E files \in FirstFiles : canonical = files[1] /\ legacy = files[2]
    /\ cache \in SomeEntries
    /\ load = "state" /\ target = Defaults /\ draft = Defaults /\ catalog = NoEntry
    /\ confirmOff = {} /\ drawer = FALSE /\ reviewOk = FALSE /\ refreshing = FALSE
    /\ shown = FALSE /\ boxes = [r \in {} |-> Unset] /\ canApply = FALSE
    /\ flight = Idle /\ batch = Idle /\ wizard = Idle
    /\ edits = 0 /\ writes = 0 /\ catalogs = 0
    /\ reviewed = {} /\ chosen = {} /\ asked = Nothing /\ ticked = {} /\ behind = FALSE

\* What a discovery comes back with; NoEntry when it fails or times out.
Findings == {e \in SomeEntries : e.fresh} \cup {NoEntry}

PageStep ==
    \/ StateArrives \/ CatalogArrives \/ ReloadLost
    \/ \E r \in Roles, m \in Models : SelectBinding(r, m)
    \/ \E r \in Roles : RevertRole(r)
    \/ SetAutocompact \/ Discard
    \/ RefreshCatalog \/ (\E e \in Findings : RefreshArrives(e))
    \/ OpenReview \/ CloseReview \/ Apply
    \/ \E r \in Roles, b \in BOOLEAN : ConfirmOffCatalog(r, b)
    \/ DryRunArrives \/ ApplyArrives \/ AnswerLost

ServerStep == ServerReads \/ \E result \in {"refused", "unchanged", "dry-run", "applied", "error"} : ServerAnswers(result)

OthersStep ==
    \/ \E e \in SomeEntries : RefreshElsewhere(e)
    \/ \E sel \in Selections : BatchReads(sel)
    \/ \E e \in Findings : BatchEnds(e)
    \/ WizardLoads \/ (\E sel \in Selections : WizardSaves(sel)) \/ WizardInterrupted
    \/ \E file \in SomeFiles : HandEdits(file)

Next == PageStep \/ ServerStep \/ OthersStep
Spec == Init /\ [][Next]_vars

---------------------------------------------------------------------------
\* A write of the page's apply request.
PageWrites ==
    /\ flight.kind = "apply" /\ flight.at = "validating"
    /\ flight' # flight /\ canonical' # canonical

\* What Apply writes is what the drawer showed: the proposal of the dry run
\* that was answered last for this drawer, if the file is still what that dry
\* run read. The exceptions are edits made behind the open drawer by keyboard.
ReviewedIsApplied ==
    [][PageWrites =>
         \/ asked.behind
         \/ \E review \in reviewed :
               review.base = flight.base => canonical' = Document(review.config)]_vars

\* The page saves a model that the catalog of the daemon does not list only
\* if the user ticked the box that named this role and this model, and has not
\* unticked it, whatever catalogs, drafts and files did in between.
ConfirmedOnly ==
    [][PageWrites =>
         \A r \in Roles :
            canonical'.config[r] # flight.base[r] /\ canonical'.config[r] \notin cache.listed
              => <<r, canonical'.config[r]>> \in asked.ticks]_vars

\* A save of the page keeps every field that the user did not edit since the
\* page (re)loaded, also those that others wrote meanwhile, unless the file
\* changes between the request's read and its write. A legacy document is
\* carried over the first time.
OthersKept ==
    [][PageWrites /\ canonical = flight.found =>
         \A f \in Fields \ asked.fields :
            canonical'.config[f] = ReadForSetup(canonical, legacy).config[f]]_vars
============================================================================
