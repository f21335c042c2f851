----------------------------- MODULE Setup_proofs -----------------------------
(***************************************************************************)
(* The setup page, its server and the other writers of the settings file, *)
(* for any roles, models, catalogs and edits: a save writes what was       *)
(* reviewed, takes a model outside of the catalog only with its tick, and  *)
(* keeps what the user did not touch.                                      *)
(***************************************************************************)
EXTENDS Setup, TLAPS

-----------------------------------------------------------------------------
(* Types. *)

SettingsOK == canonical \in Files /\ legacy \in Files /\ target \in Configs /\ draft \in Configs

CommandsOK ==
  /\ batch = Idle \/ (batch.sel \in Selections /\ batch.base \in Configs)
  /\ wizard = Idle \/ wizard.loaded \in Configs

\* Before the server's answer a request has its selection, and, once the
\* server has read the files, the document it starts from. The answer of a
\* dry run that did not fail says what it was about.
FlightOK ==
  /\ flight.kind \in {"none", "apply", "dry-run"}
  /\ ActionInFlight /\ flight.at \in {"sent", "validating"} => flight.sel \in Selections
  /\ ActionInFlight /\ flight.at = "validating" =>
        flight.base \in Configs /\ flight.base = ReadForSetup(flight.found, legacy).config

SetupTypes == SettingsOK /\ CommandsOK /\ FlightOK

-----------------------------------------------------------------------------
(* The page and what is under way. *)

\* What is on the screen is what the state says, and a tick is the user's.
Rendered == boxes = Boxes(draft, target, catalog)
TicksShown == \A r \in confirmOff : r \in DOMAIN boxes /\ <<r, boxes[r]>> \in ticked
DrawerShown == drawer => shown

\* A change of the draft is an edit of the user.
ChangesChosen == Changed(draft, target) \subseteq chosen

\* The review under the user's eyes is of this selection; an empty one
\* changes nothing, whatever was reviewed.
Reviewed(sel) == \E review \in reviewed : review.config = Plan(review.base, sel)
DraftReviewed == Changed(draft, target) = {} \/ Reviewed(Selection(draft, target))
Reviewing ==
  /\ drawer /\ reviewOk /\ ~behind => DraftReviewed
  /\ shown /\ canApply /\ ~behind => DraftReviewed

\* A dry run whose drawer stays open is about the draft as it still is.
DryRunOfDraft ==
  flight.kind = "dry-run" /\ flight.at # "error" /\ drawer /\ ~behind =>
    Changed(draft, target) = {} \/ flight.sel = Selection(draft, target)

\* What the user knew when Apply was clicked.
ApplyAsked ==
  flight.kind = "apply" /\ flight.at \in {"sent", "validating"} =>
    /\ DOMAIN flight.sel \subseteq asked.fields
    /\ \A r \in flight.confirmed : <<r, flight.sel[r]>> \in asked.ticks
    /\ asked.behind \/ DOMAIN flight.sel = {} \/ Reviewed(flight.sel)

PageInv ==
  Rendered /\ TicksShown /\ DrawerShown /\ ChangesChosen /\ Reviewing /\ DryRunOfDraft /\ ApplyAsked

-----------------------------------------------------------------------------
(* Documents and selections. *)

LEMMA ChoicesAre == \A f \in Fields : Choices(f) \subseteq Models \cup {"on", "off"}
BY DEF Choices

LEMMA ConfigIs ==
  ASSUME NEW c \in [Fields -> Models \cup {"on", "off", Unset}],
         \A f \in Fields : c[f] \in Choices(f) \cup {Unset}
  PROVE  c \in Configs
BY DEF Configs

LEMMA ConfigHas ==
  ASSUME NEW c \in Configs
  PROVE  /\ c \in [Fields -> Models \cup {"on", "off", Unset}]
         /\ \A f \in Fields : c[f] \in Choices(f) \cup {Unset}
BY DEF Configs

LEMMA DefaultsConfig == Defaults \in Configs
BY DEF Defaults, Configs

LEMMA SelectionHas ==
  ASSUME NEW sel \in Selections
  PROVE  DOMAIN sel \subseteq Fields /\ \A f \in DOMAIN sel : sel[f] \in Choices(f)
BY DEF Selections

LEMMA PlanConfig ==
  ASSUME NEW c \in Configs, NEW sel \in Selections
  PROVE  Plan(c, sel) \in Configs
<1> DEFINE p == Plan(c, sel)
<1>1. p = [f \in Fields |-> p[f]]
  BY DEF Plan
<1>2. \A f \in Fields : p[f] \in Choices(f) \cup {Unset}
  BY ConfigHas, SelectionHas DEF Plan
<1>3. p \in [Fields -> Models \cup {"on", "off", Unset}]
  <2> HIDE DEF p
  <2> QED BY <1>1, <1>2, ChoicesAre
<1> HIDE DEF p
<1>4. p \in Configs
  BY <1>2, <1>3, ConfigIs
<1> QED BY <1>4 DEF p

LEMMA SelectionIs ==
  ASSUME NEW d \in Configs, NEW saved
  PROVE  Selection(d, saved) \in Selections
<1> DEFINE F == Changed(d, saved)
<1>1. F \in SUBSET Fields /\ \A f \in F : d[f] \in Choices(f)
  BY ConfigHas DEF Changed
<1>2. Selection(d, saved) \in [F -> Models \cup {"on", "off"}]
  BY <1>1, ChoicesAre DEF Selection
<1> QED BY <1>1, <1>2 DEF Selections, Selection

LEMMA FileHas == ASSUME NEW f \in Files PROVE f.config \in Configs
BY DefaultsConfig DEF Files, File, Document, Missing, Malformed, Unreadable

LEMMA DocumentIs == ASSUME NEW c \in Configs PROVE Document(c) \in Files /\ Document(c).config = c
BY DEF Files, Document, File

LEMMA ReadHas ==
  ASSUME NEW a \in Files, NEW b \in Files
  PROVE  ReadForSetup(a, b) \in Files /\ ReadForSetup(a, b).config \in Configs
BY FileHas DEF ReadForSetup

LEMMA NothingChanged == \A c : Changed(c, c) = {}
BY DEF Changed

\* What Save may do to the settings file.
LEMMA SaveIs ==
  ASSUME NEW config, NEW done, NEW result, Save(config, done, result)
  PROVE  canonical' \in {canonical, Document(config)}
BY DEF Save

-----------------------------------------------------------------------------
(* Types are kept. *)

LEMMA SetupTypesInit == Init => SetupTypes
<1> SUFFICES ASSUME Init PROVE SetupTypes
  OBVIOUS
<1>1. SettingsOK
  <2>1. PICK files \in FirstFiles : canonical = files[1] /\ legacy = files[2]
    BY DEF Init
  <2> QED BY <2>1, SetupAssumption, DefaultsConfig DEF Init, SetupAssumption, SettingsOK
<1> QED BY <1>1 DEF Init, SetupTypes, CommandsOK, FlightOK, Idle, ActionInFlight

\* The actions of the page leave the files and the commands alone.
LEMMA EditOK ==
  ASSUME SettingsOK, NEW f \in Fields, NEW v \in Choices(f) \cup {Unset}, NEW ticks, EditDraft(f, v, ticks)
  PROVE  SettingsOK'
<1>1. draft' \in Configs
  <2>1. draft' = [draft EXCEPT ![f] = v]
    BY DEF EditDraft
  <2>2. draft' \in [Fields -> Models \cup {"on", "off", Unset}]
    BY <2>1, ConfigHas, ChoicesAre DEF SettingsOK
  <2>3. \A g \in Fields : draft'[g] \in Choices(g) \cup {Unset}
    BY <2>1, ConfigHas DEF SettingsOK
  <2> QED BY <2>2, <2>3, ConfigIs
<1> QED BY <1>1 DEF SettingsOK, EditDraft, settings

LEMMA PageSettings == ASSUME SettingsOK, PageStep PROVE SettingsOK'
<1>1. CASE StateArrives
  BY <1>1, ReadHas DEF StateArrives, SettingsOK, settings
<1>2. ASSUME NEW r \in Roles, NEW m \in Models, SelectBinding(r, m) PROVE SettingsOK'
  <2>1. r \in Fields /\ m \in Choices(r)
    BY ConfigAssumption DEF Fields, Choices, ConfigAssumption
  <2> QED BY <1>2, <2>1, EditOK DEF SelectBinding
<1>3. ASSUME NEW r \in Roles, RevertRole(r) PROVE SettingsOK'
  <2>1. r \in Fields /\ target[r] \in Choices(r) \cup {Unset}
    BY ConfigHas DEF Fields, SettingsOK
  <2> QED BY <1>3, <2>1, EditOK DEF RevertRole
<1>4. CASE SetAutocompact
  <2> DEFINE v == IF draft[Autocompact] = "on" THEN "off" ELSE "on"
  <2>1. Autocompact \in Fields /\ v \in Choices(Autocompact) \cup {Unset}
    BY DEF Fields, Choices
  <2> QED BY <1>4, <2>1, EditOK DEF SetAutocompact
<1>5. CASE Discard
  BY <1>5 DEF Discard, SettingsOK, settings
<1>6. ASSUME UNCHANGED <<settings, target, draft>> PROVE SettingsOK'
  BY <1>6 DEF SettingsOK, settings
<1>7. CASE CatalogArrives \/ ReloadLost \/ RefreshCatalog \/ OpenReview \/ CloseReview \/ Apply
  BY <1>6, <1>7 DEF CatalogArrives, ReloadLost, RefreshCatalog, OpenReview, CloseReview, Apply
<1>8. CASE (\E e \in Findings : RefreshArrives(e)) \/ \E r \in Roles, b \in BOOLEAN : ConfirmOffCatalog(r, b)
  BY <1>6, <1>8 DEF RefreshArrives, ConfirmOffCatalog
<1>9. CASE DryRunArrives \/ ApplyArrives \/ AnswerLost
  BY <1>6, <1>9 DEF DryRunArrives, ApplyArrives, AnswerLost
<1> QED BY <1>1, <1>2, <1>3, <1>4, <1>5, <1>7, <1>8, <1>9 DEF PageStep

LEMMA ServerSettings == ASSUME SetupTypes, ServerStep PROVE SettingsOK'
<1>1. CASE ServerReads
  BY <1>1 DEF ServerReads, SetupTypes, SettingsOK, settings, client
<1>2. ASSUME NEW result, ServerAnswers(result) PROVE SettingsOK'
  <2>1. flight.sel \in Selections /\ flight.base \in Configs
    BY <1>2 DEF ServerAnswers, SetupTypes, FlightOK
  <2>2. Document(Proposal) \in Files
    BY <2>1, PlanConfig, DocumentIs DEF Proposal
  <2>3. canonical' \in {canonical, Document(Proposal)}
    BY <1>2, SaveIs DEF ServerAnswers
  <2> QED BY <1>2, <2>2, <2>3 DEF ServerAnswers, SetupTypes, SettingsOK, client
<1> QED BY <1>1, <1>2 DEF ServerStep

LEMMA OthersSettings == ASSUME SetupTypes, OthersStep PROVE SettingsOK'
<1>1. ASSUME NEW e, RefreshElsewhere(e) PROVE SettingsOK'
  BY <1>1 DEF RefreshElsewhere, SetupTypes, SettingsOK, settings, client
<1>2. ASSUME NEW sel, BatchReads(sel) PROVE SettingsOK'
  BY <1>2 DEF BatchReads, SetupTypes, SettingsOK, settings, client
<1>3. ASSUME NEW e, BatchEnds(e) PROVE SettingsOK'
  <2>1. batch.sel \in Selections /\ batch.base \in Configs
    BY <1>3 DEF BatchEnds, SetupTypes, CommandsOK
  <2>2. Document(Plan(batch.base, batch.sel)) \in Files
    BY <2>1, PlanConfig, DocumentIs
  <2>3. canonical' \in {canonical, Document(Plan(batch.base, batch.sel))}
    BY <1>3, SaveIs DEF BatchEnds
  <2> QED BY <1>3, <2>2, <2>3 DEF BatchEnds, SetupTypes, SettingsOK, client
<1>4. ASSUME NEW sel \in Selections, WizardSaves(sel) PROVE SettingsOK'
  <2>1. Document(Plan(wizard.loaded, sel)) \in Files
    BY <1>4, PlanConfig, DocumentIs DEF WizardSaves, SetupTypes, CommandsOK
  <2>2. canonical' \in {canonical, Document(Plan(wizard.loaded, sel))}
    BY <1>4, SaveIs DEF WizardSaves
  <2> QED BY <1>4, <2>1, <2>2 DEF WizardSaves, SetupTypes, SettingsOK, client
<1>5. CASE WizardLoads \/ WizardInterrupted
  BY <1>5 DEF WizardLoads, WizardInterrupted, SetupTypes, SettingsOK, settings, client
<1>6. ASSUME NEW file \in SomeFiles, HandEdits(file) PROVE SettingsOK'
  BY <1>6, SetupAssumption DEF HandEdits, SetupAssumption, SetupTypes, SettingsOK, settings, client
<1> QED BY <1>1, <1>2, <1>3, <1>4, <1>5, <1>6 DEF OthersStep

\* What the commands hold was read from a file.
LEMMA CommandsStep == ASSUME SetupTypes, Next PROVE CommandsOK'
<1>1. ASSUME UNCHANGED <<batch, wizard>> PROVE CommandsOK'
  BY <1>1 DEF SetupTypes, CommandsOK
<1>2. CASE PageStep
  BY <1>1, <1>2 DEF PageStep, StateArrives, CatalogArrives, ReloadLost, SelectBinding, RevertRole,
     SetAutocompact, EditDraft, Discard, RefreshCatalog, RefreshArrives, OpenReview, CloseReview,
     Apply, ConfirmOffCatalog, DryRunArrives, ApplyArrives, AnswerLost
<1>3. CASE ServerStep
  BY <1>1, <1>3 DEF ServerStep, ServerReads, ServerAnswers
<1>4. CASE OthersStep
  <2>1. ASSUME NEW e, RefreshElsewhere(e) PROVE CommandsOK'
    BY <1>1, <2>1 DEF RefreshElsewhere
  <2>2. ASSUME NEW sel \in Selections, BatchReads(sel) PROVE CommandsOK'
    <3>1. batch'.sel = sel /\ batch'.base = ReadForSetup(canonical, legacy).config /\ wizard' = wizard
      BY <2>2 DEF BatchReads
    <3> QED BY <3>1, ReadHas DEF SetupTypes, SettingsOK, CommandsOK
  <2>3. ASSUME NEW e, BatchEnds(e) PROVE CommandsOK'
    BY <2>3 DEF BatchEnds, SetupTypes, CommandsOK
  <2>4. ASSUME NEW sel, WizardSaves(sel) PROVE CommandsOK'
    BY <2>4 DEF WizardSaves, SetupTypes, CommandsOK
  <2>5. CASE WizardLoads
    <3>1. wizard'.loaded = canonical.config /\ batch' = batch
      BY <2>5 DEF WizardLoads, LoadConfig
    <3> QED BY <3>1, FileHas DEF SetupTypes, SettingsOK, CommandsOK
  <2>6. CASE WizardInterrupted
    BY <2>6 DEF WizardInterrupted, SetupTypes, CommandsOK
  <2>7. ASSUME NEW file, HandEdits(file) PROVE CommandsOK'
    BY <1>1, <2>7 DEF HandEdits
  <2> QED BY <1>4, <2>1, <2>2, <2>3, <2>4, <2>5, <2>6, <2>7 DEF OthersStep
<1> QED BY <1>2, <1>3, <1>4 DEF Next

\* The request follows the page and the server; nobody else touches it, and
\* nobody writes the legacy file.
LEMMA FlightLeft ==
  ASSUME SetupTypes, UNCHANGED <<flight, legacy>>
  PROVE  FlightOK'
BY DEF SetupTypes, FlightOK, ActionInFlight

LEMMA FlightStep == ASSUME SetupTypes, Next PROVE FlightOK' /\ legacy' = legacy
<1>1. legacy' = legacy
  BY DEF Next, PageStep, StateArrives, CatalogArrives, ReloadLost, SelectBinding, RevertRole,
     SetAutocompact, EditDraft, Discard, RefreshCatalog, RefreshArrives, OpenReview, CloseReview,
     Apply, ConfirmOffCatalog, DryRunArrives, ApplyArrives, AnswerLost, ServerStep, ServerReads,
     ServerAnswers, OthersStep, RefreshElsewhere, BatchReads, BatchEnds, WizardLoads, WizardSaves,
     WizardInterrupted, HandEdits, settings
<1>2. CASE UNCHANGED flight
  BY <1>1, <1>2, FlightLeft
<1>3. CASE OpenReview \/ Apply
  <2>1. Selection(draft, target) \in Selections
    BY SelectionIs DEF SetupTypes, SettingsOK
  <2>2. /\ flight'.kind \in {"apply", "dry-run"} /\ flight'.at = "sent"
        /\ flight'.sel = Selection(draft, target)
    BY <1>3 DEF OpenReview, Apply, Request
  <2> QED BY <1>1, <2>1, <2>2 DEF FlightOK, ActionInFlight
<1>4. CASE DryRunArrives \/ ApplyArrives \/ AnswerLost
  <2>1. flight' = Idle
    BY <1>4 DEF DryRunArrives, ApplyArrives, AnswerLost
  <2> QED BY <1>1, <2>1 DEF FlightOK, ActionInFlight, Idle
<1>5. CASE ServerReads
  <2> DEFINE read == ReadForSetup(canonical, legacy)
  <2>1. read.config \in Configs
    BY ReadHas DEF SetupTypes, SettingsOK
  <2>2. CASE Problem(read)
    <3>1. flight'.kind = flight.kind /\ flight'.at = "error"
      BY <1>5, <2>2 DEF ServerReads
    <3> QED BY <1>1, <3>1 DEF SetupTypes, FlightOK, ActionInFlight
  <2>3. CASE ~Problem(read)
    <3>1. /\ flight'.kind = flight.kind /\ flight'.at = "validating" /\ flight'.sel = flight.sel
          /\ flight'.base = read.config /\ flight'.found = canonical
      BY <1>5, <2>3 DEF ServerReads
    <3> QED BY <1>1, <1>5, <2>1, <3>1 DEF ServerReads, SetupTypes, FlightOK, ActionInFlight
  <2> QED BY <2>2, <2>3
<1>6. ASSUME NEW result \in {"refused", "unchanged", "dry-run", "applied", "error"}, ServerAnswers(result)
      PROVE  FlightOK'
  BY <1>6 DEF ServerAnswers, SetupTypes, FlightOK, ActionInFlight
<1>7. PageStep => UNCHANGED flight \/ OpenReview \/ Apply \/ DryRunArrives \/ ApplyArrives \/ AnswerLost
  BY DEF PageStep, StateArrives, CatalogArrives, ReloadLost, SelectBinding, RevertRole,
     SetAutocompact, EditDraft, Discard, RefreshCatalog, RefreshArrives, CloseReview, ConfirmOffCatalog
<1>8. OthersStep => UNCHANGED flight
  BY DEF OthersStep, RefreshElsewhere, BatchReads, BatchEnds, WizardLoads, WizardSaves,
     WizardInterrupted, HandEdits
<1> QED BY <1>1, <1>2, <1>3, <1>4, <1>5, <1>6, <1>7, <1>8 DEF Next, ServerStep

LEMMA SetupTypesStep == SetupTypes /\ [Next]_vars => SetupTypes'
<1> SUFFICES ASSUME SetupTypes, [Next]_vars PROVE SetupTypes'
  OBVIOUS
<1>1. CASE Next
  <2>1. SettingsOK'
    BY <1>1, PageSettings, ServerSettings, OthersSettings DEF Next, SetupTypes
  <2> QED BY <1>1, <2>1, CommandsStep, FlightStep DEF SetupTypes
<1>2. CASE UNCHANGED vars
  BY <1>2 DEF vars, settings, client, SetupTypes, SettingsOK, CommandsOK, FlightOK, ActionInFlight
<1> QED BY <1>1, <1>2

\* Type correctness: the files that the four writers make are documents of
\* the settings, and a request carries what its stage needs.
THEOREM SetupTypeCorrect == Spec => []SetupTypes
<1> QED BY SetupTypesInit, SetupTypesStep, PTL DEF Spec

-----------------------------------------------------------------------------
(* What a rendering shows. *)

LEMMA UpdateIs ==
  ASSUME NEW ticks, Update(ticks)
  PROVE  /\ shown' = drawer' /\ boxes' = Boxes(draft', target', catalog')
         /\ confirmOff' = IF boxes' = boxes THEN ticks ELSE {}
         /\ canApply' => flight'.kind = "none" /\ reviewOk'
BY DEF Update, ApplyEnabled

LEMMA ScreenStep ==
  ASSUME PageInv, NEW ticks, ticks \subseteq confirmOff, ticked' = ticked, Update(ticks)
  PROVE  Rendered' /\ TicksShown' /\ DrawerShown'
<1>1. Rendered' /\ DrawerShown'
  BY UpdateIs DEF Rendered, DrawerShown
<1>2. ASSUME NEW r \in confirmOff' PROVE r \in DOMAIN boxes' /\ <<r, boxes'[r]>> \in ticked'
  BY <1>2, UpdateIs DEF PageInv, TicksShown
<1> QED BY <1>1, <1>2 DEF TicksShown

\* Apply is enabled by a review that passed while the drawer is rendered.
LEMMA ReviewingStep ==
  ASSUME NEW ticks, Update(ticks), drawer' /\ reviewOk' /\ ~behind' => DraftReviewed'
  PROVE  Reviewing'
BY UpdateIs DEF Reviewing

LEMMA SameDraft ==
  ASSUME UNCHANGED <<draft, target, reviewed>>
  PROVE  DraftReviewed' <=> DraftReviewed
BY DEF DraftReviewed, Reviewed

LEMMA ApplyKept ==
  ASSUME PageInv, UNCHANGED <<flight, asked, reviewed>>
  PROVE  ApplyAsked'
BY DEF PageInv, ApplyAsked, Reviewed

-----------------------------------------------------------------------------
(* The steps of the page. *)

\* Steps that render and leave the draft, the review and the request alone.
LEMMA PageRenders ==
  ASSUME PageInv, Update(confirmOff),
         UNCHANGED <<target, draft, drawer, reviewOk, flight, history>>
  PROVE  PageInv'
<1> USE DEF history
<1>1. Rendered' /\ TicksShown' /\ DrawerShown'
  BY ScreenStep
<1>2. ChangesChosen'
  BY DEF PageInv, ChangesChosen
<1>3. Reviewing'
  BY SameDraft, ReviewingStep DEF PageInv, Reviewing
<1>4. DryRunOfDraft'
  BY DEF PageInv, DryRunOfDraft
<1> QED BY <1>1, <1>2, <1>3, <1>4, ApplyKept DEF PageInv

LEMMA PageState == ASSUME PageInv, StateArrives PROVE PageInv'
<1> DEFINE read == ReadForSetup(canonical, legacy)
<1>0. UNCHANGED <<drawer, reviewOk, flight, reviewed, asked, ticked, behind>>
  BY DEF StateArrives
<1>1. CASE Problem(read)
  <2>1. UNCHANGED <<target, draft, chosen>> /\ Update(confirmOff)
    BY <1>1 DEF StateArrives
  <2> QED BY <1>0, <2>1, PageRenders DEF history
<1>2. CASE ~Problem(read)
  <2>1. target' = read.config /\ draft' = read.config /\ chosen' = {} /\ Update({})
    BY <1>2 DEF StateArrives
  <2>2. Changed(draft, target)' = {}
    BY <2>1, NothingChanged
  <2>3. Rendered' /\ TicksShown' /\ DrawerShown'
    BY <1>0, <2>1, ScreenStep
  <2>4. Reviewing'
    BY <2>1, <2>2, ReviewingStep DEF DraftReviewed
  <2> QED BY <1>0, <2>1, <2>2, <2>3, <2>4, ApplyKept DEF PageInv, ChangesChosen, DryRunOfDraft
<1> QED BY <1>1, <1>2

\* An edit with the drawer open is made behind it, and noted.
LEMMA PageEdits ==
  ASSUME SettingsOK, PageInv, NEW f, NEW v, NEW ticks, ticks \subseteq confirmOff,
         EditDraft(f, v, ticks)
  PROVE  PageInv'
<1>0. /\ UNCHANGED <<target, drawer, reviewOk, flight, reviewed, asked, ticked>>
      /\ draft' = [draft EXCEPT ![f] = v] /\ chosen' = chosen \cup {f} /\ behind' = (behind \/ shown)
      /\ Update(ticks)
  BY DEF EditDraft, NotesEdit
<1>1. Rendered' /\ TicksShown' /\ DrawerShown'
  BY <1>0, ScreenStep
<1>2. ChangesChosen'
  <2>1. ASSUME NEW g \in Fields, g # f PROVE draft'[g] = draft[g]
    BY <1>0, <2>1, ConfigHas DEF SettingsOK
  <2> QED BY <1>0, <2>1 DEF PageInv, ChangesChosen, Changed
<1>3. drawer' => behind'
  BY <1>0 DEF PageInv, DrawerShown
<1>4. Reviewing'
  BY <1>0, <1>3, ReviewingStep
<1>5. DryRunOfDraft'
  BY <1>3 DEF DryRunOfDraft
<1> QED BY <1>0, <1>1, <1>2, <1>4, <1>5, ApplyKept DEF PageInv

LEMMA PageDiscards == ASSUME PageInv, Discard PROVE PageInv'
<1>0. /\ UNCHANGED <<target, drawer, reviewOk, flight, reviewed, asked, ticked>>
      /\ draft' = target /\ chosen' = {} /\ Update({})
  BY DEF Discard
<1>1. Rendered' /\ TicksShown' /\ DrawerShown'
  BY <1>0, ScreenStep
<1>2. Changed(draft, target)' = {}
  BY <1>0, NothingChanged
<1>3. Reviewing'
  BY <1>0, <1>2, ReviewingStep DEF DraftReviewed
<1> QED BY <1>0, <1>1, <1>2, <1>3, ApplyKept DEF PageInv, ChangesChosen, DryRunOfDraft

\* The dry run is about the draft, and nothing has been reviewed.
LEMMA PageOpens == ASSUME PageInv, OpenReview PROVE PageInv'
<1>0. /\ UNCHANGED <<target, draft, chosen, ticked>> /\ ~reviewOk' /\ Update(confirmOff)
      /\ flight' = Request("dry-run", Selection(draft, target), NoConfirmation)
  BY DEF OpenReview
<1>1. Rendered' /\ TicksShown' /\ DrawerShown'
  BY <1>0, ScreenStep
<1>2. Reviewing'
  BY <1>0, ReviewingStep
<1>3. flight'.kind = "dry-run" /\ flight'.sel = Selection(draft, target)
  BY <1>0 DEF Request
<1>4. DryRunOfDraft' /\ ApplyAsked'
  BY <1>0, <1>3 DEF DryRunOfDraft, ApplyAsked
<1> QED BY <1>0, <1>1, <1>2, <1>4 DEF PageInv, ChangesChosen

LEMMA PageCloses == ASSUME PageInv, CloseReview PROVE PageInv'
<1>0. /\ UNCHANGED <<target, draft, flight, asked, chosen, ticked>> /\ ~drawer' /\ Update(confirmOff)
      /\ flight.kind = "apply" => reviewed' = reviewed
  BY DEF CloseReview
<1>1. Rendered' /\ TicksShown' /\ DrawerShown'
  BY <1>0, ScreenStep
<1>2. Reviewing'
  BY <1>0, ReviewingStep
<1>3. ApplyAsked'
  BY <1>0, ApplyKept DEF ApplyAsked
<1> QED BY <1>0, <1>1, <1>2, <1>3 DEF PageInv, ChangesChosen, DryRunOfDraft

\* A tick names the model that its box shows.
LEMMA PageTicks ==
  ASSUME PageInv, NEW r, NEW checked \in BOOLEAN, ConfirmOffCatalog(r, checked)
  PROVE  PageInv'
<1> DEFINE ticks == IF checked THEN confirmOff \cup {r} ELSE confirmOff \ {r}
<1>0. /\ UNCHANGED <<target, draft, catalog, drawer, reviewOk, flight, reviewed, chosen, asked, behind>>
      /\ Update(ticks) /\ r \in DOMAIN boxes
      /\ ticked' = IF checked THEN ticked \cup {<<r, boxes[r]>>} ELSE {t \in ticked : t[1] # r}
  BY DEF ConfirmOffCatalog
<1>1. Rendered' /\ DrawerShown' /\ boxes' = boxes /\ confirmOff' \subseteq ticks
  BY <1>0, UpdateIs DEF PageInv, Rendered, DrawerShown
<1>2. ASSUME NEW q \in confirmOff' PROVE q \in DOMAIN boxes' /\ <<q, boxes'[q]>> \in ticked'
  <2>1. CASE checked
    BY <1>0, <1>1, <1>2, <2>1 DEF PageInv, TicksShown
  <2>2. CASE ~checked
    <3>1. q \in confirmOff /\ q # r
      BY <1>1, <1>2, <2>2
    <3> QED BY <1>0, <1>1, <2>2, <3>1 DEF PageInv, TicksShown
  <2> QED BY <2>1, <2>2
<1>3. Reviewing'
  BY <1>0, SameDraft, ReviewingStep DEF PageInv, Reviewing
<1>4. ChangesChosen' /\ DryRunOfDraft'
  BY <1>0 DEF PageInv, ChangesChosen, DryRunOfDraft
<1> QED BY <1>0, <1>1, <1>2, <1>3, <1>4, ApplyKept DEF PageInv, TicksShown

\* What is sent is what the user chose, ticked and reviewed.
LEMMA PageApplies == ASSUME PageInv, Apply PROVE PageInv'
<1>0. /\ UNCHANGED <<target, draft, catalog, drawer, reviewOk, reviewed, chosen, ticked, behind>>
      /\ Update(confirmOff)
      /\ asked' = [fields |-> chosen, ticks |-> ticked, behind |-> behind]
      /\ flight' = Request("apply", Selection(draft, target), DOMAIN Boxes(draft, target, catalog))
  BY DEF Apply
<1>1. Rendered' /\ TicksShown' /\ DrawerShown'
  BY <1>0, ScreenStep
<1>2. Reviewing'
  BY <1>0, SameDraft, ReviewingStep DEF PageInv, Reviewing
<1>3. /\ flight'.kind = "apply" /\ flight'.sel = Selection(draft, target)
      /\ flight'.confirmed = DOMAIN Boxes(draft, target, catalog)
      /\ asked'.fields = chosen /\ asked'.ticks = ticked /\ asked'.behind = behind
  BY <1>0 DEF Request
<1>4. DOMAIN flight'.sel = Changed(draft, target)
  BY <1>3 DEF Selection
<1>5. ASSUME NEW r \in flight'.confirmed PROVE <<r, flight'.sel[r]>> \in asked'.ticks
  <2>1. r \in DOMAIN boxes /\ r \in confirmOff
    BY <1>3, <1>5 DEF Apply, Unconfirmed, PageInv, Rendered
  <2>2. boxes[r] = draft[r] /\ r \in Changed(draft, target)
    BY <2>1 DEF PageInv, Rendered, Boxes
  <2>3. flight'.sel[r] = draft[r]
    BY <1>3, <2>2 DEF Selection
  <2> QED BY <1>3, <2>1, <2>2, <2>3 DEF PageInv, TicksShown
<1>6. behind \/ DraftReviewed
  BY DEF Apply, PageInv, Reviewing
<1>7. asked'.behind \/ DOMAIN flight'.sel = {} \/ Reviewed(flight.sel)'
  <2>1. Reviewed(Selection(draft, target)) => Reviewed(flight.sel)'
    BY <1>0, <1>3 DEF Reviewed
  <2> QED BY <1>3, <1>4, <1>6, <2>1 DEF DraftReviewed
<1>8. ApplyAsked'
  BY <1>3, <1>4, <1>5, <1>7 DEF ApplyAsked, PageInv, ChangesChosen
<1>9. DryRunOfDraft' /\ ChangesChosen'
  BY <1>0, <1>3 DEF DryRunOfDraft, PageInv, ChangesChosen
<1> QED BY <1>1, <1>2, <1>8, <1>9 DEF PageInv

LEMMA PageReviews == ASSUME PageInv, DryRunArrives PROVE PageInv'
<1>0. /\ UNCHANGED <<target, draft, catalog, drawer, chosen, asked, ticked, behind>>
      /\ Update(confirmOff) /\ flight' = Idle /\ flight.kind = "dry-run"
      /\ reviewOk' => flight.at # "error" /\ reviewed' = {[base |-> flight.base, config |-> Proposal]}
  BY DEF DryRunArrives
<1>1. Rendered' /\ TicksShown' /\ DrawerShown'
  BY <1>0, ScreenStep
<1>2. ASSUME drawer', reviewOk', ~behind' PROVE DraftReviewed'
  <2>1. Changed(draft, target) = {} \/ flight.sel = Selection(draft, target)
    BY <1>0, <1>2 DEF PageInv, DryRunOfDraft
  <2> DEFINE review == [base |-> flight.base, config |-> Plan(flight.base, flight.sel)]
  <2>2. review \in reviewed' /\ review.config = Plan(review.base, flight.sel)
    BY <1>0, <1>2 DEF Proposal
  <2>3. CASE Changed(draft, target) = {}
    BY <1>0, <2>3 DEF DraftReviewed
  <2>4. CASE flight.sel = Selection(draft, target)
    <3>1. Reviewed(Selection(draft, target))'
      BY <1>0, <2>2, <2>4 DEF Reviewed
    <3> QED BY <3>1 DEF DraftReviewed
  <2> QED BY <2>1, <2>3, <2>4
<1>3. Reviewing'
  BY <1>0, <1>2, ReviewingStep
<1>4. flight'.kind = "none"
  BY <1>0 DEF Idle
<1> QED BY <1>0, <1>1, <1>3, <1>4 DEF PageInv, ChangesChosen, DryRunOfDraft, ApplyAsked

\* After a save the screen still shows the drawer of that review, until the
\* state has arrived.
LEMMA PageSaved == ASSUME PageInv, ApplyArrives PROVE PageInv'
<1>1. /\ UNCHANGED <<target, draft, catalog, confirmOff, boxes, reviewed, chosen, ticked, behind>>
      /\ flight' = Idle /\ shown' = drawer
      /\ drawer' => drawer
      /\ reviewOk' => reviewOk
      /\ canApply' => reviewOk
  BY DEF ApplyArrives, ApplyEnabled
<1>2. Rendered' /\ TicksShown' /\ DrawerShown' /\ ChangesChosen'
  BY <1>1 DEF PageInv, Rendered, TicksShown, DrawerShown, ChangesChosen
<1>3. Reviewing'
  BY <1>1, SameDraft DEF PageInv, Reviewing
<1>4. flight'.kind = "none"
  BY <1>1 DEF Idle
<1> QED BY <1>2, <1>3, <1>4 DEF PageInv, DryRunOfDraft, ApplyAsked

LEMMA PageLoses == ASSUME PageInv, AnswerLost PROVE PageInv'
<1>0. /\ UNCHANGED <<target, draft, catalog, drawer, reviewOk, reviewed, chosen, ticked, behind>>
      /\ Update(confirmOff) /\ flight' = Idle
  BY DEF AnswerLost
<1>1. Rendered' /\ TicksShown' /\ DrawerShown'
  BY <1>0, ScreenStep
<1>2. Reviewing'
  BY <1>0, SameDraft, ReviewingStep DEF PageInv, Reviewing
<1>3. flight'.kind = "none"
  BY <1>0 DEF Idle
<1> QED BY <1>0, <1>1, <1>2, <1>3 DEF PageInv, ChangesChosen, DryRunOfDraft, ApplyAsked

LEMMA PageStays == ASSUME SettingsOK, PageInv, PageStep PROVE PageInv'
<1>1. CASE CatalogArrives \/ ReloadLost \/ RefreshCatalog
  BY <1>1, PageRenders DEF CatalogArrives, ReloadLost, RefreshCatalog, history
<1>2. ASSUME NEW e, RefreshArrives(e) PROVE PageInv'
  BY <1>2, PageRenders DEF RefreshArrives, history
<1>3. ASSUME NEW r, NEW v, SelectBinding(r, v) PROVE PageInv'
  BY <1>3, PageEdits, confirmOff \ {r} \subseteq confirmOff DEF SelectBinding
<1>4. ASSUME NEW r, RevertRole(r) PROVE PageInv'
  BY <1>4, PageEdits, confirmOff \ {r} \subseteq confirmOff DEF RevertRole
<1>5. CASE SetAutocompact
  BY <1>5, PageEdits DEF SetAutocompact
<1> QED BY <1>1, <1>2, <1>3, <1>4, <1>5, PageState, PageDiscards, PageOpens, PageCloses, PageApplies,
           PageTicks, PageReviews, PageSaved, PageLoses DEF PageStep

-----------------------------------------------------------------------------
(* The steps of the server and of the others. *)

LEMMA SameScreen ==
  ASSUME PageInv, UNCHANGED <<client, screen, history>>
  PROVE  Rendered' /\ TicksShown' /\ DrawerShown' /\ ChangesChosen' /\ Reviewing'
<1> USE DEF client, screen, history
<1>1. Rendered' /\ TicksShown' /\ DrawerShown' /\ ChangesChosen'
  BY DEF PageInv, Rendered, TicksShown, DrawerShown, ChangesChosen
<1> QED BY <1>1, SameDraft DEF PageInv, Reviewing

LEMMA PageUntouched ==
  ASSUME PageInv, UNCHANGED <<client, screen, history, flight>>
  PROVE  PageInv'
<1>1. DryRunOfDraft'
  BY DEF client, history, PageInv, DryRunOfDraft
<1> QED BY <1>1, SameScreen, ApplyKept DEF history, PageInv

\* The server hands on what the page sent.
LEMMA PageServed == ASSUME FlightOK, PageInv, ServerStep PROVE PageInv'
<1>1. UNCHANGED <<client, screen, history>>
  BY DEF ServerStep, ServerReads, ServerAnswers
<1>2. CASE ServerReads
  <2>1. CASE Problem(ReadForSetup(canonical, legacy))
    <3>1. flight'.at = "error"
      BY <1>2, <2>1 DEF ServerReads
    <3> QED BY <1>1, <3>1, SameScreen DEF PageInv, DryRunOfDraft, ApplyAsked
  <2>2. CASE ~Problem(ReadForSetup(canonical, legacy))
    <3>1. /\ flight'.kind = flight.kind /\ flight'.sel = flight.sel /\ flight.at = "sent"
          /\ flight.kind = "apply" => flight'.confirmed = flight.confirmed
      BY <1>2, <2>2 DEF ServerReads
    <3>2. DryRunOfDraft'
      BY <1>1, <3>1 DEF client, history, PageInv, DryRunOfDraft
    <3>3. ApplyAsked'
      BY <1>1, <3>1 DEF history, PageInv, ApplyAsked, Reviewed
    <3> QED BY <1>1, <3>2, <3>3, SameScreen DEF PageInv
  <2> QED BY <2>1, <2>2
<1>3. ASSUME NEW result \in {"refused", "unchanged", "dry-run", "applied", "error"}, ServerAnswers(result)
      PROVE  PageInv'
  <2>1. CASE flight.kind = "apply"
    <3>1. flight'.kind = "apply" /\ flight'.at = result
      BY <1>3, <2>1 DEF ServerAnswers
    <3> QED BY <1>1, <1>3, <3>1, SameScreen DEF PageInv, DryRunOfDraft, ApplyAsked
  <2>2. CASE flight.kind # "apply"
    <3>1. flight'.kind = "dry-run" /\ flight'.sel = flight.sel /\ flight.at = "validating"
      BY <1>3, <2>2 DEF ServerAnswers
    <3>2. flight.kind = "dry-run"
      BY <1>3, <2>2 DEF ServerAnswers, ActionInFlight, FlightOK
    <3>3. DryRunOfDraft'
      BY <3>2, <1>1, <3>1 DEF client, history, PageInv, DryRunOfDraft
    <3> QED BY <1>1, <3>1, <3>3, SameScreen DEF PageInv, ApplyAsked
  <2> QED BY <2>1, <2>2
<1> QED BY <1>2, <1>3 DEF ServerStep

LEMMA PageInvStep == SetupTypes /\ PageInv /\ [Next]_vars => PageInv'
<1> SUFFICES ASSUME SetupTypes, PageInv, [Next]_vars PROVE PageInv'
  OBVIOUS
<1>1. CASE PageStep
  BY <1>1, PageStays DEF SetupTypes
<1>2. CASE ServerStep
  BY <1>2, PageServed DEF SetupTypes
<1>3. CASE OthersStep
  <2>1. UNCHANGED <<client, screen, history, flight>>
    BY <1>3 DEF OthersStep, RefreshElsewhere, BatchReads, BatchEnds, WizardLoads, WizardSaves,
       WizardInterrupted, HandEdits
  <2> QED BY <2>1, PageUntouched
<1>4. CASE UNCHANGED vars
  BY <1>4, PageUntouched DEF vars
<1> QED BY <1>1, <1>2, <1>3, <1>4 DEF Next

LEMMA PageInvInit == Init => PageInv
<1> SUFFICES ASSUME Init PROVE PageInv
  OBVIOUS
<1>1. Changed(draft, target) = {}
  BY NothingChanged DEF Init
<1>2. Rendered
  BY <1>1 DEF Init, Rendered, Boxes
<1> QED BY <1>1, <1>2 DEF Init, PageInv, TicksShown, DrawerShown, ChangesChosen, Reviewing,
           DryRunOfDraft, ApplyAsked, Idle

\* The invariant of the page: what is rendered, ticked, chosen, reviewed and
\* sent agree, whatever is clicked, lost or refreshed in between.
THEOREM PageAgrees == Spec => []PageInv
<1> QED BY SetupTypesInit, SetupTypesStep, PageInvInit, PageInvStep, PTL DEF Spec

-----------------------------------------------------------------------------
(* What the apply request writes. *)

\* Only the server's answer writes under the page's request, and it writes
\* the selection over what the request read.
LEMMA WritesProposal ==
  ASSUME SetupTypes, [Next]_vars, PageWrites
  PROVE  /\ flight.base \in Configs /\ flight.sel \in Selections
         /\ flight.base = ReadForSetup(flight.found, legacy).config
         /\ canonical' = Document(Proposal) /\ RefusedRoles = {}
         /\ DiffConfig(flight.base, Proposal) # {}
<1>1. \E result \in {"refused", "unchanged", "dry-run", "applied", "error"} : ServerAnswers(result)
  <2>1. flight' # flight /\ canonical' # canonical
    BY DEF PageWrites
  <2>2. CASE PageStep
    BY <2>1, <2>2 DEF PageStep, StateArrives, CatalogArrives, ReloadLost, SelectBinding, RevertRole,
       SetAutocompact, EditDraft, Discard, RefreshCatalog, RefreshArrives, OpenReview, CloseReview,
       Apply, ConfirmOffCatalog, DryRunArrives, ApplyArrives, AnswerLost, settings
  <2>3. CASE OthersStep
    BY <2>1, <2>3 DEF OthersStep, RefreshElsewhere, BatchReads, BatchEnds, WizardLoads, WizardSaves,
       WizardInterrupted, HandEdits
  <2>4. CASE ServerReads
    BY <2>1, <2>4 DEF ServerReads, settings
  <2>5. CASE UNCHANGED vars
    BY <2>1, <2>5 DEF vars, settings
  <2> QED BY <2>2, <2>3, <2>4, <2>5 DEF Next, ServerStep
<1>2. PICK result \in {"refused", "unchanged", "dry-run", "applied", "error"} : ServerAnswers(result)
  BY <1>1
<1>3. flight.base \in Configs /\ flight.sel \in Selections
      /\ flight.base = ReadForSetup(flight.found, legacy).config
  BY <1>2 DEF ServerAnswers, SetupTypes, FlightOK
<1>4. canonical' # canonical /\ flight.kind = "apply"
  BY DEF PageWrites
<1>5. /\ RefusedRoles = {} /\ DiffConfig(flight.base, Proposal) # {}
      /\ Save(Proposal, "applied", result)
  BY <1>2, <1>4 DEF ServerAnswers
<1>6. canonical' = Document(Proposal)
  BY <1>4, <1>5, SaveIs
<1> QED BY <1>3, <1>5, <1>6

\* An empty selection changes nothing.
LEMMA EmptyPlan ==
  ASSUME NEW base, NEW sel, DOMAIN sel = {}
  PROVE  DiffConfig(base, Plan(base, sel)) = {}
BY DEF DiffConfig, Plan

\* What Apply writes is the proposal that the drawer showed.
LEMMA ReviewedStep ==
  ASSUME SetupTypes, PageInv, [Next]_vars, PageWrites
  PROVE  \/ asked.behind
         \/ \E review \in reviewed :
              review.base = flight.base => canonical' = Document(review.config)
<1>1. flight.kind = "apply" /\ flight.at = "validating"
  BY DEF PageWrites
<1>2. DOMAIN flight.sel # {}
  BY WritesProposal, EmptyPlan DEF Proposal
<1>3. asked.behind \/ Reviewed(flight.sel)
  BY <1>1, <1>2 DEF PageInv, ApplyAsked
<1> QED BY <1>3, WritesProposal DEF Reviewed, Proposal

\* Apply writes what was reviewed (apply and openReview of setup-page.ts, the
\* two passes of mutationRoute): for any edits, refreshes, lost answers and
\* late states, the document is the proposal of the dry run that the drawer
\* showed, if the file is what that dry run read and nobody edited behind it.
THEOREM WritesReviewed == Spec => ReviewedIsApplied
<1>1. SetupTypes /\ PageInv /\ [Next]_vars =>
        [PageWrites =>
           \/ asked.behind
           \/ \E review \in reviewed :
                review.base = flight.base => canonical' = Document(review.config)]_vars
  BY ReviewedStep
<1> QED BY <1>1, SetupTypesInit, SetupTypesStep, PageInvInit, PageInvStep, PTL DEF Spec, ReviewedIsApplied

\* A changed role was in the request, and was not refused.
LEMMA ConfirmedStep ==
  ASSUME SetupTypes, PageInv, [Next]_vars, PageWrites, NEW r \in Roles,
         canonical'.config[r] # flight.base[r], canonical'.config[r] \notin cache.listed
  PROVE  <<r, canonical'.config[r]>> \in asked.ticks
<1>1. flight.kind = "apply" /\ flight.at = "validating"
  BY DEF PageWrites
<1>2. canonical'.config[r] = Proposal[r] /\ r \in Fields
  BY WritesProposal DEF Document, File, Fields
<1>3. r \in DOMAIN flight.sel /\ Proposal[r] = flight.sel[r]
  BY <1>2 DEF Proposal, Plan
<1>4. r \in ChangedBindings(flight.base, flight.sel)
  BY <1>2, <1>3 DEF ChangedBindings
<1>5. Verdict(flight.sel[r], cache) # "accepted"
  BY <1>2, <1>3 DEF Verdict
<1>6. r \in flight.confirmed
  BY <1>4, <1>5, WritesProposal DEF RefusedRoles, Refused, ConfirmedOffCatalog
<1> QED BY <1>1, <1>2, <1>3, <1>6 DEF PageInv, ApplyAsked

\* No model outside of the catalog is saved without its tick
\* (confirmOffCatalog, apply, validateChanged): a box that was ticked for
\* another model, or before the catalog changed, does not count.
THEOREM OffCatalogIsTicked == Spec => ConfirmedOnly
<1>1. SetupTypes /\ PageInv /\ [Next]_vars =>
        [PageWrites =>
           \A r \in Roles :
              canonical'.config[r] # flight.base[r] /\ canonical'.config[r] \notin cache.listed
                => <<r, canonical'.config[r]>> \in asked.ticks]_vars
  BY ConfirmedStep
<1> QED BY <1>1, SetupTypesInit, SetupTypesStep, PageInvInit, PageInvStep, PTL DEF Spec, ConfirmedOnly

LEMMA KeptStep ==
  ASSUME SetupTypes, PageInv, [Next]_vars, PageWrites, canonical = flight.found,
         NEW f \in Fields \ asked.fields
  PROVE  canonical'.config[f] = ReadForSetup(canonical, legacy).config[f]
<1>1. f \notin DOMAIN flight.sel
  BY DEF PageWrites, PageInv, ApplyAsked
<1>2. Proposal[f] = flight.base[f]
  BY <1>1 DEF Proposal, Plan
<1> QED BY <1>2, WritesProposal DEF Document, File

\* A save keeps the fields that the user did not edit, as the file has them
\* when the request reads it (buildSetupSelection, mutationRoute).
THEOREM SaveKeepsOthers == Spec => OthersKept
<1>1. SetupTypes /\ PageInv /\ [Next]_vars =>
        [PageWrites /\ canonical = flight.found =>
           \A f \in Fields \ asked.fields :
              canonical'.config[f] = ReadForSetup(canonical, legacy).config[f]]_vars
  BY KeptStep
<1> QED BY <1>1, SetupTypesInit, SetupTypesStep, PageInvInit, PageInvStep, PTL DEF Spec, OthersKept
=============================================================================
