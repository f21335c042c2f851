-------------------------------- MODULE Board --------------------------------
(***************************************************************************)
(* The rows of several sessions: how session.create makes one across its   *)
(* awaits (src/daemon/daemon.ts), and the claims board, which releases the *)
(* claims of ended sessions when somebody next uses it                     *)
(* (src/store/claims.ts).  What a turn does to a row is SessionLifecycle's *)
(* matter; here rows start, end and are resumed as the environment likes.  *)
(***************************************************************************)
EXTENDS Naturals, Sequences

CONSTANTS
  Ids,        \* what generateSessionId may draw
  Calls,      \* session.create requests that may be under way at once
  Prefix,     \* a prefix of all ids, as users type them
  None,
  Paths,      \* paths of the repository
  Globs,      \* path globs, each the set of the paths it matches
  MaxClaims   \* bound: rows of the claims table

ASSUME BoardAssumption ==
  /\ None \notin Ids /\ Prefix \notin Ids
  /\ Globs \subseteq SUBSET Paths

VARIABLES
  daemon,     \* "up", "draining" or "down"
  rows,       \* status of each session
  reserved,   \* reservedSessionIds
  call,       \* the creates under way: where they wait, and their id
  claims,     \* the claims table; a claim's id is its place
  held        \* history: claims whose session has not ended nor released them

creation == <<reserved, call>>
board == <<claims, held>>
vars == <<daemon, rows, creation, board>>

Active == {"starting", "working"}
Ended == {"completed", "interrupted"}
Terminal(status) == status \in Ended
Existing == {s \in Ids : rows[s] # "none"}
Waiting(c) == call[c].at # "idle"
Idle == [at |-> "idle", id |-> None]

\* session.get: the id itself, or the only id with that prefix.
Named(name) == IF name \in Existing THEN {name} ELSE IF name = Prefix THEN Existing ELSE {}
Find(name) == {s \in Named(name) : Named(name) = {s}}

-----------------------------------------------------------------------------
(* session.create *)

MutantUnused == Ids \ Existing
Unused == Ids \ (Existing \cup reserved)

\* Two creates may run at once, so the id is reserved over the awaits.
CreateBegins(c) ==
  /\ daemon = "up" /\ ~Waiting(c)
  /\ \E id \in Unused :
       /\ reserved' = reserved \cup {id}
       /\ call' = [call EXCEPT ![c] = [at |-> "git", id |-> id]]
  /\ UNCHANGED <<daemon, rows, board>>

\* Every end of a create gives the reservation back.
Returns(c) ==
  /\ reserved' = reserved \ {call[c].id}
  /\ call' = [call EXCEPT ![c] = Idle]

\* Its row, or an error of the store.
Inserts(c) ==
  /\ Returns(c)
  /\ rows' \in {rows, [rows EXCEPT ![call[c].id] = "starting"]}

\* git has been asked about the directory; a worktree is wanted or not.
GitAnswers(c) ==
  /\ call[c].at = "git"
  /\ IF daemon # "up" THEN Returns(c) /\ UNCHANGED rows
     ELSE \/ call' = [call EXCEPT ![c].at = "tree"] /\ UNCHANGED <<rows, reserved>>
          \/ Inserts(c)
  /\ UNCHANGED <<daemon, board>>

MutantRefused == FALSE
\* The daemon may have begun to drain while git made the worktree.
Refused == daemon # "up"

\* git may fail too. A worktree made for a create that is refused stays behind.
TreeAnswers(c) ==
  /\ call[c].at = "tree"
  /\ \/ ~Refused /\ Inserts(c)
     \/ Returns(c) /\ UNCHANGED rows
  /\ UNCHANGED <<daemon, board>>

-----------------------------------------------------------------------------
(* The sessions and the daemon. *)

Owned(s) == {n \in 1..Len(claims) : claims[n].owner = s}

Moves(s, status) ==
  /\ daemon = "up" /\ rows[s] \notin {"none", status}
  /\ rows' = [rows EXCEPT ![s] = status]
  /\ held' = IF Terminal(status) THEN held \ Owned(s) ELSE held
  /\ UNCHANGED <<daemon, creation, claims>>

\* runShutdown marks every active session; requests are refused from here on.
Shutdown ==
  /\ daemon = "up"
  /\ daemon' = "draining"
  /\ rows' = [s \in Ids |-> IF rows[s] \in Active THEN "interrupted" ELSE rows[s]]
  /\ held' = {}
  /\ UNCHANGED <<creation, claims>>

\* The end of the drain, or a crash: the database stays.
Dies ==
  /\ daemon # "down"
  /\ daemon' = "down" /\ reserved' = {} /\ call' = [c \in Calls |-> Idle]
  /\ UNCHANGED <<rows, board>>

Boots == daemon = "down" /\ daemon' = "up" /\ UNCHANGED <<rows, creation, board>>

-----------------------------------------------------------------------------
(* The board.  A request that fails is rolled back, the lazy release too. *)

MutantStale(claim) == claim.active /\ rows[claim.owner] # "working"
\* releaseStaleClaims
Stale(claim) == claim.active /\ Terminal(rows[claim.owner])
Tidy == [n \in 1..Len(claims) |-> [claims[n] EXCEPT !.active = @ /\ ~Stale(claims[n])]]

\* The active claim of a session on a glob, which adding it again renews.
Same(s, g) == {n \in 1..Len(claims) : Tidy[n] = [owner |-> s, glob |-> g, active |-> TRUE]}

Add(name, g) ==
  /\ daemon = "up"
  /\ \E s \in Find(name) :
       /\ Len(claims) < MaxClaims \/ Same(s, g) # {}
       /\ claims' = IF Same(s, g) # {} THEN Tidy
                    ELSE Append(Tidy, [owner |-> s, glob |-> g, active |-> TRUE])
       /\ held' = IF Terminal(rows[s]) THEN held
                  ELSE held \cup (IF Same(s, g) # {} THEN Same(s, g) ELSE {Len(claims) + 1})
  /\ UNCHANGED <<daemon, rows, creation>>

Release(name, n) ==
  /\ daemon = "up" /\ n \in 1..Len(claims)
  /\ Tidy[n].active /\ claims[n].owner \in Find(name)
  /\ claims' = [Tidy EXCEPT ![n].active = FALSE]
  /\ held' = held \ {n}
  /\ UNCHANGED <<daemon, rows, creation>>

\* What query answers on a path.
Answer(p) == {n \in 1..Len(claims) : Tidy[n].active /\ p \in claims[n].glob}

Query(name) ==
  /\ daemon = "up" /\ Find(name) # {}
  /\ claims' = Tidy
  /\ UNCHANGED <<daemon, rows, creation, held>>

-----------------------------------------------------------------------------
Init ==
  /\ daemon = "up"
  /\ rows = [s \in Ids |-> "none"]
  /\ reserved = {} /\ call = [c \in Calls |-> Idle]
  /\ claims = <<>> /\ held = {}

Names == Ids \cup {Prefix}
Next ==
  \/ \E c \in Calls : CreateBegins(c) \/ GitAnswers(c) \/ TreeAnswers(c)
  \/ \E s \in Ids : \E status \in Ended \cup {"working"} : Moves(s, status)
  \/ Shutdown \/ Dies \/ Boots
  \/ \E name \in Names :
       \/ \E g \in Globs : Add(name, g)
       \/ \E n \in 1..MaxClaims : Release(name, n)
       \/ Query(name)

Spec == Init /\ [][Next]_vars

-----------------------------------------------------------------------------
\* Creates that overlap never hold the same id, nor one that has a row: no
\* insert replaces or fails on another create's row, and no two harnesses are
\* given the same log files or worktree (nextSessionId, daemon.ts 750-759).
IdIsOwn ==
  \A c \in Calls : Waiting(c) =>
    /\ call[c].id \in reserved \ Existing
    /\ \A d \in Calls \ {c} : call[d].id # call[c].id

\* A create that waits for git when the shutdown lists the active sessions
\* adds no session behind it: nobody would interrupt its harness (daemon.ts
\* 840, 853 and 2075).
DrainedIsMarked == daemon = "draining" => \A s \in Ids : rows[s] \notin Active

\* Whoever used the board in between, it tells of every claim that a session
\* has made and kept, and of no session that has ended (claims.ts 117-180).
BoardTells ==
  \A p \in Paths :
    /\ {n \in held : p \in claims[n].glob} \subseteq Answer(p)
    /\ \A n \in Answer(p) : rows[claims[n].owner] \in Active
=============================================================================
