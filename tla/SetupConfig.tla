---------------------------- MODULE SetupConfig ----------------------------
(***************************************************************************)
(* The settings document and the model catalog as values, and what the    *)
(* code computes from them: src/config/config.ts, src/config/setup.ts and *)
(* the cached half of src/core/models.ts.                                  *)
(*                                                                         *)
(* A config gives every role a model (harness and model id are one value,  *)
(* all models belong to one harness) and has one setting that needs no     *)
(* catalog, autocompact, which stands for the sandbox and the effort       *)
(* levels too.                                                             *)
(***************************************************************************)
EXTENDS Naturals, FiniteSets

CONSTANTS Roles,     \* the agents a model is chosen for
          Models,    \* the models the harness may list
          Unset      \* a field the document does not have

Autocompact == "autocompact"
ASSUME ConfigAssumption == Autocompact \notin Roles
Fields == Roles \cup {Autocompact}
Choices(f) == IF f = Autocompact THEN {"on", "off"} ELSE Models

\* DEFAULT_CONFIG has none of the fields that setup asks for.
Defaults == [f \in Fields |-> Unset]
Configs == {c \in [Fields -> Models \cup {"on", "off", Unset}] :
              \A f \in Fields : c[f] \in Choices(f) \cup {Unset}}

\* A selection names only the fields to change, each with a value it can have.
NoSelection == [f \in {} |-> Unset]
Selections == {s \in UNION {[F -> Models \cup {"on", "off"}] : F \in SUBSET Fields} :
                 \A f \in DOMAIN s : s[f] \in Choices(f)}

---------------------------------------------------------------------------
\* A settings file: absent, a document, text that is no JSON object, or a
\* path that cannot be read (a symbolic link, a directory, no permission).
File(kind, c) == [kind |-> kind, config |-> c]
Document(c) == File("ok", c)
Missing == File("missing", Defaults)
Malformed == File("invalid", Defaults)
Unreadable == File("error", Defaults)
Files == {Missing, Malformed, Unreadable} \cup {Document(c) : c \in Configs}

\* readConfigForSetup: the legacy file speaks only when the canonical one is
\* missing; a file that is there and cannot be understood is a problem.
ReadForSetup(canonical, legacy) == IF canonical.kind # "missing" THEN canonical ELSE legacy
Problem(read) == read.kind \in {"invalid", "error"}

\* loadConfig, which the wizard uses: the canonical file or the defaults.
LoadConfig(canonical) == canonical.config

---------------------------------------------------------------------------
\* buildSetupPlan: the selection over the current document; autocompact is
\* not written as off where it was never set.
Plan(current, sel) ==
    [f \in Fields |->
        IF f \in DOMAIN sel /\ ~(sel[f] = "off" /\ current[f] = Unset)
        THEN sel[f] ELSE current[f]]

\* The fields in which two documents differ.
DiffConfig(before, after) == {f \in Fields : before[f] # after[f]}

\* The bindings whose model must be validated against the catalog.
ChangedBindings(current, sel) == {r \in Roles \cap DOMAIN sel : sel[r] # current[r]}

---------------------------------------------------------------------------
\* The catalog cache's entry for the harness: none, not installed, or the
\* models it listed, with its age against the four hours of CACHE_TTL_MS.
Entry(kind, listed, fresh) == [kind |-> kind, listed |-> listed, fresh |-> fresh]
NoEntry == Entry("none", {}, FALSE)
NotInstalled == Entry("unavailable", {}, TRUE)
Listing(S, fresh) == Entry("listed", S, fresh)
Entries == {NoEntry, NotInstalled} \cup {Listing(S, b) : S \in SUBSET Models, b \in BOOLEAN}

\* validateBindings with the catalog that getBatchModels reads without network.
Verdict(m, e) ==
    CASE e.kind = "unavailable" -> "harness-unavailable"
      [] e.kind = "none" -> "unverified"
      [] e.kind = "listed" /\ m \in e.listed -> "accepted"
      [] OTHER -> IF e.fresh THEN "unknown-model" ELSE "unverified"

OffCatalog(m, e) == e.kind = "listed" /\ m \notin e.listed

MutantConfirmedOffCatalog(r, m, confirmed, e) == OffCatalog(m, e)
\* Only a model missing from a catalog that is there can be confirmed.
ConfirmedOffCatalog(r, m, confirmed, e) ==
    /\ r \in confirmed
    /\ Verdict(m, e) \in {"unknown-model", "unverified"}
    /\ OffCatalog(m, e)

\* The roles whose new model is refused; NoConfirmation for a dry run.
NoConfirmation == {}
Refused(roles, sel, confirmed, e) ==
    {r \in roles : /\ Verdict(sel[r], e) # "accepted"
                   /\ ~ConfirmedOffCatalog(r, sel[r], confirmed, e)}

\* A complete discovery replaces the entry; a failed or partial one leaves it.
Discovered(e, found) == IF found.kind = "none" THEN e ELSE found
============================================================================
