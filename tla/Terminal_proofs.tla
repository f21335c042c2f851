--------------------------- MODULE Terminal_proofs ---------------------------
(***************************************************************************)
(* The programs at the user's terminal, as in MCTerminal.                  *)
(*                                                                         *)
(* One launch of `codedeck open`, for any conversations, of this head and  *)
(* of others: what it leaves behind, in the terminal and on the row.       *)
(*                                                                         *)
(* The keyboard of an open session, for any keys: the rename is tried, and *)
(* typed only into an empty line.                                          *)
(*                                                                         *)
(* The setup wizard, for any roles, models and keys: it saves what was     *)
(* answered.                                                               *)
(***************************************************************************)
EXTENDS OpenLaunch, InputGate, SetupWizard, FiniteSetTheorems, NaturalsInduction, TLAPS

-----------------------------------------------------------------------------
(* The terminal. *)

Places == {"start", "adopted", "spawning", "running", "closing", "taking", "releasing",
           "failing", "failed", "exited"}

LaunchTypes ==
  /\ launcher \in {"claude", "opencode", "codex"} /\ pc \in Places
  /\ head \in {"none", "alive", "error", "dead", "gone"}
  /\ pty \in BOOLEAN /\ raw \in BOOLEAN /\ listening \in BOOLEAN /\ guard \in BOOLEAN
  /\ watching \in BOOLEAN
  /\ release \in [state : {"none", "flying", "answered"}, status : {None, "completed", "failed"},
                  native : Ids \cup {None}]

\* Where the command stands with its child; before there is one and after it
\* has closed nothing of the terminal is taken.
Terminated ==
  /\ pc \in {"start", "adopted", "spawning"} => head = "none" /\ release.state = "none"
  /\ pc = "running" => head \in {"alive", "error", "dead"}
  /\ pc \in {"closing", "taking", "releasing"} => head = "gone"
  /\ pc \in {"failing", "failed", "exited"} => head \in {"none", "gone"}
  /\ head = "none" => ~raw /\ ~listening /\ ~guard /\ kill = "none"
  /\ head = "gone" => ~raw /\ ~listening /\ kill # "timer"
  /\ release.state = "flying" => pc \in {"releasing", "failed"}
  /\ pc = "exited" => ~guard

LEMMA LastOfFile ==
  ASSUME NEW f
  PROVE  LastId(f) \in Ids \cup {None}
<1> DEFINE last == {k \in DOMAIN Lines(f) :
                      /\ Lines(f)[k] \in Ids
                      /\ \A j \in DOMAIN Lines(f) : j > k => Lines(f)[j] \notin Ids}
<1>1. LastId(f) = IF last = {} THEN None ELSE Lines(f)[CHOOSE k \in last : TRUE]
  BY DEF LastId
<1>2. last # {} => (CHOOSE k \in last : TRUE) \in last
  OBVIOUS
<1> QED
  BY <1>1, <1>2

LEMMA TerminalStep == LaunchTypes /\ Terminated /\ [Next]_vars => LaunchTypes' /\ Terminated'
<1> SUFFICES ASSUME LaunchTypes, Terminated, [Next]_vars PROVE LaunchTypes' /\ Terminated'
  OBVIOUS
<1> USE DEF LaunchTypes, Terminated, Places, setup, terminal, keys, links
<1>1. CASE Adopts
  BY <1>1 DEF Adopts
<1>15. CASE Prepares
  <2>1. watching' \in BOOLEAN
    BY <1>15 DEF Prepares
  <2> QED
    BY <1>15, <2>1 DEF Prepares
<1>2. CASE Spawns
  BY <1>2 DEF Spawns
<1>3. CASE SpawnFails
  BY <1>3 DEF SpawnFails, Restores
<1>4. ASSUME NEW id \in Ids, HeadTalks(id) \/ OtherTalks(id) PROVE LaunchTypes' /\ Terminated'
  BY <1>4 DEF HeadTalks, OtherTalks
<1>5. CASE HeadEnds \/ KillTimer
  BY <1>5 DEF HeadEnds, KillTimer
<1>6. CASE Interrupt
  BY <1>6 DEF Interrupt
<1>7. CASE Ticks \/ (\E id \in Ids, ok \in BOOLEAN : LinkAnswered(id, ok)) \/ PatchAnswered
  BY <1>7 DEF Ticks, LinkAnswered, PatchAnswered
<1>8. CASE Closes
  BY <1>8 DEF Closes, Restores
<1>9. CASE NamesConversation
  BY <1>9 DEF NamesConversation
<1>10. CASE TakesId
  <2>1. release' = [state |-> "none", status |-> None, native |-> LastId(file)]
    BY <1>10 DEF TakesId, NoRequest
  <2>2. LastId(file) \in Ids \cup {None}
    BY LastOfFile
  <2>3. /\ release'.state = "none"
        /\ release' \in [state : {"none"}, status : {None}, native : Ids \cup {None}]
    BY <2>1, <2>2
  <2> QED
    BY <1>10, <2>3 DEF TakesId
<1>11. CASE Releases
  BY <1>11 DEF Releases, Request
<1>16. CASE FailReleases
  BY <1>16 DEF FailReleases, Request
<1>12. CASE FailFlushes
  BY <1>12 DEF FailFlushes
<1>13. CASE Exits
  <2>1. /\ release'.state = "answered" /\ release'.status = release.status
        /\ release'.native = release.native
        /\ release' \in [state : {"answered"}, status : {None, "completed", "failed"}, native : Ids \cup {None}]
    BY <1>13 DEF Exits
  <2> QED
    BY <1>13, <2>1 DEF Exits
<1>14. CASE UNCHANGED vars
  BY <1>14 DEF vars
<1> QED
  BY <1>1, <1>2, <1>3, <1>4, <1>5, <1>6, <1>7, <1>8, <1>9, <1>10, <1>11, <1>12, <1>13, <1>14, <1>15, <1>16 DEF Next

LEMMA LaunchInit == Init => LaunchTypes /\ Terminated
<1>1. Init => pty \in BOOLEAN
  BY DEF Init
<1>2. Init => /\ release.state = "none"
              /\ release \in [state : {"none"}, status : {None}, native : Ids \cup {None}]
  BY DEF Init, NoRequest
<1> QED
  BY <1>1, <1>2 DEF Init, LaunchTypes, Terminated, Places

\* Failing spawns, signals at any moment and a head that closes: nothing of the
\* terminal stays taken.
THEOREM TerminalIsLeft == Spec => []LeavesTerminal
<1>1. LaunchTypes /\ Terminated => LeavesTerminal
  BY DEF LaunchTypes, Terminated, LeavesTerminal
<1> QED
  BY <1>1, LaunchInit, TerminalStep, PTL DEF Spec
-----------------------------------------------------------------------------
(* The links and the release. *)

Early == {"start", "adopted", "spawning", "running", "closing", "failing"}

\* Until the last flush, what is on its way was read from the session file and
\* needs a watcher, so that the flush waits for all of it; from then on it is
\* awaited or was sent again.
Linking ==
  /\ file \in Seq(Ids \cup Names \cup {None})
  /\ watching => launcher = "claude"
  /\ pc \in {"start", "adopted", "releasing"} => ~watching
  /\ inFlight \cap sent = {}
  /\ pc \in Early => inFlight \subseteq IdsOf(file) /\ (~watching => inFlight = {})
  /\ pc \in {"taking", "failed", "releasing"} => inFlight \subseteq awaited \cup again
  /\ pc = "releasing" => awaited = {}
  /\ resume \in Ids \cup Names \cup {None}

LEMMA NoLines == IdsOf(NoFile) = {} /\ Lines(NoFile) = <<>>
BY DEF IdsOf, Lines

LEMMA LinesOK ==
  ASSUME file \in Seq(Ids \cup Names \cup {None})
  PROVE  Lines(file) \in Seq(Ids \cup Names \cup {None})
BY DEF Lines

\* One more line takes no id away.
LEMMA Appending ==
  ASSUME NEW id \in Ids, file \in Seq(Ids \cup Names \cup {None}), file' = Append(Lines(file), id)
  PROVE  file' \in Seq(Ids \cup Names \cup {None}) /\ IdsOf(file) \subseteq IdsOf(file')
<1>1. /\ file' \in Seq(Ids \cup Names \cup {None})
      /\ \A k \in DOMAIN Lines(file) : k \in DOMAIN file' /\ file'[k] = Lines(file)[k]
  BY LinesOK
<1>2. CASE file' = NoFile
  <2>2. Lines(file) \in Seq(Ids \cup Names \cup {None})
    BY LinesOK
  <2>3. Append(Lines(file), id) = <<None>>
    BY <1>2 DEF NoFile
  <2>5. Len(Append(Lines(file), id)) = Len(Lines(file)) + 1
    BY <2>2
  <2>6. Len(<<None>>) = 1
    OBVIOUS
  <2>4. Len(Lines(file)) = 0
    BY <2>2, <2>3, <2>5, <2>6
  <2>1. Lines(file) = <<>>
    BY <2>2, <2>4
  <2> QED
    BY <1>1, <2>1 DEF IdsOf
<1>3. CASE file' # NoFile
  <2>1. Lines(file') = file'
    BY <1>3 DEF Lines
  <2> QED
    BY <1>1, <2>1 DEF IdsOf
<1> QED
  BY <1>2, <1>3

LEMMA CapturedOK ==
  ASSUME NEW x \in Ids \cup Names \cup {None}
  PROVE  <<x>> \in Seq(Ids \cup Names \cup {None})
OBVIOUS

\* A store holds the times of the conversations that there are; a snapshot too.
Store(s) == DOMAIN s \subseteq Ids /\ \A i \in DOMAIN s : s[i] \in Nat

StoresOK ==
  /\ moves \in Nat /\ Store(store) /\ (before = None \/ Store(before))

LEMMA Updating == ASSUME NEW id \in Ids, StoresOK PROVE Store(Used(store, id))
BY DEF StoresOK, Store, Used

LEMMA StoresStep == StoresOK /\ [Next]_vars => StoresOK'
<1> SUFFICES ASSUME StoresOK, [Next]_vars PROVE StoresOK'
  OBVIOUS
<1>1. ASSUME NEW id \in Ids, HeadTalks(id) \/ OtherTalks(id) PROVE StoresOK'
  <2>1. UNCHANGED before /\ moves' = moves + 1 /\ store' \in {store, Used(store, id)}
    BY <1>1 DEF HeadTalks, OtherTalks
  <2> QED
    BY <2>1, Updating DEF StoresOK
<1>2. CASE Prepares
  BY <1>2 DEF Prepares, StoresOK, talk
<1>3. ASSUME UNCHANGED <<talk, before>> PROVE StoresOK'
  BY <1>3 DEF StoresOK, talk
<1>4. CASE Adopts \/ Spawns \/ SpawnFails \/ HeadEnds \/ Interrupt \/ KillTimer \/ Ticks
  BY <1>3, <1>4 DEF Adopts, Spawns, SpawnFails, HeadEnds, Interrupt, KillTimer, Ticks
<1>5. CASE (\E id \in Ids, ok \in BOOLEAN : LinkAnswered(id, ok)) \/ PatchAnswered \/ Closes
  BY <1>3, <1>5 DEF LinkAnswered, PatchAnswered, Closes
<1>6. CASE NamesConversation \/ TakesId \/ Releases \/ FailFlushes \/ FailReleases \/ Exits
  BY <1>3, <1>6 DEF NamesConversation, TakesId, Releases, FailFlushes, FailReleases, Exits
<1>7. CASE UNCHANGED vars
  BY <1>3, <1>7 DEF vars
<1> QED
  BY <1>1, <1>2, <1>4, <1>5, <1>6, <1>7 DEF Next

\* What a difference of two listings names is in the later one, and changed.
Changed(s, t) == {i \in DOMAIN t : i \notin DOMAIN s \/ t[i] > s[i]}

LEMMA Differing ==
  ASSUME NEW s, NEW t, NEW mine
  PROVE  /\ DiffOpencode(s, t) \in Changed(s, t) \cup {None}
         /\ DiffCodex(s, t, mine) \in (Changed(s, t) \cap mine) \cup {None}
<1>1. ASSUME Cardinality(Fresh(s, t)) = 1 PROVE (CHOOSE i \in Fresh(s, t) : TRUE) \in Fresh(s, t)
  <2>1. Fresh(s, t) # {}
    BY <1>1, FS_EmptySet
  <2> QED
    BY <2>1
<1>2. Fresh(s, t) \subseteq Changed(s, t)
  BY DEF Fresh, Changed
<1>3. DiffCodex(s, t, mine) \in (Changed(s, t) \cap mine) \cup {None}
  BY <1>1, <1>2 DEF DiffCodex
<1> DEFINE touched == {i \in DOMAIN t \cap DOMAIN s : t[i] > s[i]}
           latest == {i \in touched : \A j \in touched \ {i} : t[i] > t[j]}
<1>4. latest # {} => (CHOOSE i \in latest : TRUE) \in Changed(s, t)
  BY DEF Changed
<1>5. \/ Cardinality(Fresh(s, t)) = 1 /\ DiffOpencode(s, t) = CHOOSE i \in Fresh(s, t) : TRUE
      \/ latest # {} /\ DiffOpencode(s, t) = CHOOSE i \in latest : TRUE
      \/ DiffOpencode(s, t) = None
  BY DEF DiffOpencode
<1> HIDE DEF touched, latest
<1>6. DiffOpencode(s, t) \in Changed(s, t) \cup {None}
  <2>1. CASE Cardinality(Fresh(s, t)) = 1 /\ DiffOpencode(s, t) = CHOOSE i \in Fresh(s, t) : TRUE
    <3>1. DiffOpencode(s, t) \in Fresh(s, t)
      BY <1>1, <2>1
    <3> QED
      BY <3>1, <1>2
  <2>2. CASE latest # {} /\ DiffOpencode(s, t) = CHOOSE i \in latest : TRUE
    BY <1>4, <2>2
  <2> QED
    BY <1>5, <2>1, <2>2
<1> QED
  BY <1>3, <1>6
-----------------------------------------------------------------------------
LEMMA CapturedKnown ==
  ASSUME StoresOK, resume \in Ids \cup Names \cup {None}
  PROVE  Captured \in Ids \cup Names \cup {None}
<1> DEFINE found == CASE before = None -> None
                      [] before # None /\ launcher = "opencode" -> DiffOpencode(before, store)
                      [] OTHER -> DiffCodex(before, store, Ids \ Elsewhere)
           fallback == IF launcher = "codex" \/ resume \in Ids THEN resume ELSE None
<1>1. Changed(before, store) \subseteq Ids
  BY DEF Changed, StoresOK, Store
<1>2. /\ DiffOpencode(before, store) \in Ids \cup {None}
      /\ DiffCodex(before, store, Ids \ Elsewhere) \in Ids \cup {None}
  BY <1>1, Differing
<1>3. found \in Ids \cup {None}
  BY <1>2
<1>4. Captured = IF found # None THEN found ELSE fallback
  BY DEF Captured
<1> HIDE DEF found
<1> QED
  BY <1>3, <1>4

LEMMA LinkingStep ==
  LaunchTypes /\ StoresOK /\ Linking /\ [Next]_vars => Linking'
<1> SUFFICES ASSUME LaunchTypes, StoresOK, Linking, [Next]_vars PROVE Linking'
  OBVIOUS
<1> USE DEF Linking, setup, Early
<1>1. CASE Adopts
  BY <1>1 DEF Adopts, links
<1>2. CASE Prepares
  <2>1. /\ inFlight' = {} /\ UNCHANGED <<launcher, resume, file, sent, awaited, again>>
        /\ pc' \in {"failing", "spawning"}
    BY <1>2 DEF Prepares
  <2>2. watching' => launcher = "claude"
    BY <1>2 DEF Prepares
  <2> QED
    BY <2>1, <2>2
<1>3. ASSUME NEW id \in Ids, HeadTalks(id) PROVE Linking'
  <2>1. CASE launcher = "claude"
    BY <1>3, <2>1, Appending DEF HeadTalks, links
  <2>2. CASE launcher # "claude"
    BY <1>3, <2>2 DEF HeadTalks, links
  <2> QED
    BY <2>1, <2>2
<1>4. ASSUME NEW id \in Ids, OtherTalks(id) PROVE Linking'
  BY <1>4 DEF OtherTalks, links
<1>5. CASE Spawns \/ SpawnFails
  BY <1>5 DEF Spawns, SpawnFails, links, LaunchTypes
<1>6. CASE HeadEnds \/ KillTimer \/ Interrupt \/ PatchAnswered
  BY <1>6 DEF HeadEnds, KillTimer, Interrupt, PatchAnswered, links
<1>7. CASE Ticks
  <2>1. /\ UNCHANGED <<launcher, resume, file, watching, sent, awaited, pc>> /\ watching
        /\ inFlight' = inFlight \cup (IdsOf(file) \ sent)
        /\ pc \in {"taking", "failed"} => again' = again \cup (inFlight' \ inFlight)
    BY <1>7 DEF Ticks, Flushing, Unsent
  <2> QED
    BY <2>1
<1>8. ASSUME NEW id \in Ids, NEW ok \in BOOLEAN, LinkAnswered(id, ok) PROVE Linking'
  BY <1>8 DEF LinkAnswered
<1>9. CASE Closes
  BY <1>9 DEF Closes, links
<1>10. CASE NamesConversation
  <2>1. file' \in {file, <<resume>>, <<Captured>>}
    BY <1>10 DEF NamesConversation
  <2>2. file' \in Seq(Ids \cup Names \cup {None})
    BY <2>1, CapturedKnown, CapturedOK
  <2>3. watching => IdsOf(file) \subseteq IdsOf(file')
    BY <1>10, NoLines DEF NamesConversation
  <2>4. inFlight' \subseteq awaited' /\ inFlight' \cap sent = {}
    <3>1. pc = "closing" /\ awaited' = (IF watching THEN IdsOf(file') \ sent ELSE {})
          /\ inFlight' = inFlight \cup awaited'
      BY <1>10 DEF NamesConversation, Unsent
    <3> QED
      BY <2>3, <3>1
  <2>5. UNCHANGED <<launcher, resume, watching, sent>> /\ pc' = "taking"
    BY <1>10 DEF NamesConversation
  <2> QED
    BY <2>2, <2>4, <2>5
<1>11. CASE TakesId
  <2>1. pc = "taking" /\ awaited = {}
    BY <1>11 DEF TakesId, Flushed
  <2>2. NoFile \in Seq(Ids \cup Names \cup {None})
    BY CapturedOK DEF NoFile
  <2>3. /\ UNCHANGED <<launcher, resume, sent, inFlight, awaited, again>> /\ file' = NoFile
        /\ watching' = FALSE /\ pc' = "releasing"
    BY <1>11 DEF TakesId
  <2> QED
    BY <2>1, <2>2, <2>3
<1>12. CASE Releases
  BY <1>12 DEF Releases, links
<1>13. CASE FailFlushes
  <2>1. /\ pc = "failing" /\ pc' = "failed" /\ UNCHANGED <<launcher, resume, file, watching, sent>>
        /\ awaited' = (IF watching THEN IdsOf(file) \ sent ELSE {})
        /\ inFlight' = inFlight \cup awaited'
    BY <1>13 DEF FailFlushes, Unsent
  <2> QED
    BY <2>1
<1>14. CASE FailReleases
  BY <1>14 DEF FailReleases
<1>15. CASE Exits
  BY <1>15 DEF Exits, links
<1>16. CASE UNCHANGED vars
  BY <1>16 DEF vars, links
<1> QED
  BY <1>1, <1>2, <1>3, <1>4, <1>5, <1>6, <1>7, <1>8, <1>9, <1>10, <1>11, <1>12, <1>13, <1>14, <1>15, <1>16 DEF Next

LEMMA LinkingInit == Init => StoresOK /\ Linking
<1>1. ASSUME Init PROVE StoresOK
  <2>1. moves \in Nat /\ before = None
    BY <1>1 DEF Init
  <2>2. store \in {[i \in {} |-> 0]} \cup {[i \in {j} |-> 0] : j \in Ids}
    BY <1>1 DEF Init
  <2>3. CASE store = [i \in {} |-> 0]
    BY <2>1, <2>3 DEF StoresOK, Store
  <2>4. ASSUME NEW j \in Ids, store = [i \in {j} |-> 0] PROVE StoresOK
    BY <2>1, <2>4 DEF StoresOK, Store
  <2> QED
    BY <2>2, <2>3, <2>4
<1>2. ASSUME Init PROVE Linking
  <2>1. file \in Seq(Ids \cup Names \cup {None})
    BY <1>2, CapturedOK DEF Init, NoFile
  <2> QED
    BY <1>2, <2>1 DEF Init, Linking, Early
<1> QED
  BY <1>1, <1>2

\* Whatever the harness writes and whichever requests are answered late, the
\* row is released when no link of it is on its way that the last flush had sent
\* or found (flushLinkWatcher), nor the pid of a launch that went well.
THEOREM NothingAfterTheRelease == Spec => ReleaseIsLast
<1>1. ASSUME Linking, LaunchTypes, Next, Sends
      PROVE  inFlight \subseteq again /\ (release'.status = "completed" => Settled)
  <2>1. Releases \/ FailReleases
    <3>1. release' # release /\ release'.state # release.state
      BY <1>1 DEF Sends
    <3>2. ~TakesId /\ ~Exits
      BY <1>1 DEF Sends, TakesId, Exits, NoRequest, LaunchTypes
    <3> QED
      BY <1>1, <3>1, <3>2 DEF Next, Adopts, Prepares, Spawns, SpawnFails, HeadTalks, OtherTalks, HeadEnds,
         Interrupt, KillTimer, Ticks, LinkAnswered, PatchAnswered, Closes, NamesConversation, FailFlushes
  <2>2. CASE Releases
    BY <1>1, <2>2 DEF Releases, Linking
  <2>3. CASE FailReleases
    <3>1. inFlight \subseteq again
      BY <1>1, <2>3 DEF FailReleases, Linking, Flushed
    <3>2. release'.status = "failed"
      BY <2>3 DEF FailReleases, Request
    <3> QED
      BY <3>1, <3>2
  <2> QED
    BY <2>1, <2>2, <2>3
<1>2. Linking /\ LaunchTypes /\ [Next]_vars
        => [Sends => inFlight \subseteq again /\ (release'.status = "completed" => Settled)]_vars
  BY <1>1
<1> QED
  BY <1>2, LaunchInit, TerminalStep, LinkingInit, StoresStep, LinkingStep, PTL DEF Spec, ReleaseIsLast
-----------------------------------------------------------------------------
(* Whose conversation it is. *)

Alone == others \subseteq (IF launcher = "codex" THEN Elsewhere ELSE {})

\* What the row may be released with.
Untold == launcher = "claude" => own = {}
Mine == own \cup {resume, None} \cup (IF Untold THEN IdsOf(stale) ELSE {})

\* Nobody else changes the store after the snapshot unnoticed; what the session
\* file ends with and the release names is this head's or was there before it,
\* as long as the others keep out of the directory. No conversation is named for
\* the release before the head has closed.
Truthful ==
  /\ before # None => Changed(before, store) \subseteq own \cup others
  /\ Alone => LastId(file) \in Mine /\ release.native \in Mine
  /\ pc \notin {"releasing", "exited"} => release.native = None

LEMMA LastIsId == ASSUME NEW f PROVE LastId(f) \in IdsOf(f) \cup {None}
<1> DEFINE last == {k \in DOMAIN Lines(f) :
                      /\ Lines(f)[k] \in Ids
                      /\ \A j \in DOMAIN Lines(f) : j > k => Lines(f)[j] \notin Ids}
<1>1. LastId(f) = IF last = {} THEN None ELSE Lines(f)[CHOOSE k \in last : TRUE]
  BY DEF LastId
<1>2. last # {} => (CHOOSE k \in last : TRUE) \in last
  OBVIOUS
<1>3. \A k \in last : Lines(f)[k] \in IdsOf(f)
  BY DEF IdsOf
<1> HIDE DEF last
<1> QED
  BY <1>1, <1>2, <1>3

\* The id of a file of one line, and of one to which an id was appended.
LEMMA LastOfOne == ASSUME NEW x PROVE LastId(<<x>>) \in {x, None}
<1>1. IdsOf(<<x>>) \subseteq {x}
  BY DEF IdsOf, Lines
<1> QED
  BY <1>1, LastIsId

LEMMA LastAppended ==
  ASSUME NEW id \in Ids, NEW ls \in Seq(Ids \cup Names \cup {None})
  PROVE  LastId(Append(ls, id)) \in {id, None}
<1> DEFINE f == Append(ls, id)
           last == {k \in DOMAIN Lines(f) :
                      /\ Lines(f)[k] \in Ids
                      /\ \A j \in DOMAIN Lines(f) : j > k => Lines(f)[j] \notin Ids}
<1>1. CASE f = NoFile
  <2>1. LastId(NoFile) \in {None}
    BY NoLines, LastIsId
  <2> HIDE DEF f
  <2>2. LastId(f) \in {id, None}
    BY <1>1, <2>1
  <2> QED
    BY <2>2 DEF f
<1>2. CASE f # NoFile
  <2>1. Lines(f) = f
    BY <1>2 DEF Lines
  <2>2. /\ DOMAIN f = 1 .. Len(ls) + 1 /\ Len(ls) \in Nat
        /\ f[Len(ls) + 1] = id
    OBVIOUS
  <2>3. \A k \in last : k = Len(ls) + 1
    <3> HIDE DEF f
    <3> QED
      BY <2>1, <2>2
  <2>4. last # {} => (CHOOSE k \in last : TRUE) \in last
    OBVIOUS
  <2>5. LastId(f) = IF last = {} THEN None ELSE Lines(f)[CHOOSE k \in last : TRUE]
    BY DEF LastId
  <2> HIDE DEF last, f
  <2>6. LastId(f) \in {id, None}
    BY <2>1, <2>2, <2>3, <2>4, <2>5
  <2> QED
    BY <2>6 DEF f
<1> QED
  BY <1>1, <1>2

LEMMA CapturedOwn ==
  ASSUME LaunchTypes, launcher # "claude", StoresOK, Truthful, Alone
  PROVE  Captured \in own \cup {resume, None}
<1> DEFINE found == CASE before = None -> None
                      [] before # None /\ launcher = "opencode" -> DiffOpencode(before, store)
                      [] OTHER -> DiffCodex(before, store, Ids \ Elsewhere)
           fallback == IF launcher = "codex" \/ resume \in Ids THEN resume ELSE None
<1>1. CASE before = None
  <2>1. found = None
    BY <1>1
  <2>2. Captured = fallback
    BY <2>1 DEF Captured
  <2> QED
    BY <2>2
<1>2. CASE before # None /\ launcher = "opencode"
  <2>1. Changed(before, store) \subseteq own
    BY <1>2 DEF Truthful, Alone
  <2>2. DiffOpencode(before, store) \in own \cup {None}
    BY <2>1, Differing
  <2>3. found \in own \cup {None}
    BY <1>2, <2>2
  <2>4. Captured = IF found # None THEN found ELSE fallback
    BY DEF Captured
  <2> HIDE DEF found
  <2> QED
    BY <2>3, <2>4
<1>3. CASE before # None /\ launcher = "codex"
  <2>1. Changed(before, store) \cap (Ids \ Elsewhere) \subseteq own
    BY <1>3 DEF Truthful, Alone
  <2>2. DiffCodex(before, store, Ids \ Elsewhere) \in own \cup {None}
    BY <2>1, Differing
  <2>3. found \in own \cup {None}
    BY <1>3, <2>2
  <2>4. Captured = IF found # None THEN found ELSE fallback
    BY DEF Captured
  <2> HIDE DEF found
  <2> QED
    BY <2>3, <2>4
<1> QED
  BY <1>1, <1>2, <1>3 DEF LaunchTypes

\* One use changes one conversation.
LEMMA UseChanges ==
  ASSUME NEW id \in Ids, StoresOK
  PROVE  Changed(before, Used(store, id)) \subseteq Changed(before, store) \cup {id}
BY DEF Changed, Used

LEMMA TruthStep ==
  LaunchTypes /\ Terminated /\ StoresOK /\ Linking /\ Truthful /\ [Next]_vars => Truthful'
<1> SUFFICES ASSUME LaunchTypes, Terminated, StoresOK, Linking, Truthful, [Next]_vars PROVE Truthful'
  OBVIOUS
<1> USE DEF setup, talk
<1>1. ASSUME UNCHANGED <<setup, talk, before>>,
             Alone => LastId(file') \in Mine /\ release'.native \in Mine,
             pc' \notin {"releasing", "exited"} => release'.native = None
      PROVE  Truthful'
  <2>1. Mine' = Mine /\ (Alone' <=> Alone)
    BY <1>1 DEF Mine, Untold, Alone
  <2> QED
    BY <1>1, <2>1 DEF Truthful, Changed
<1>2. ASSUME UNCHANGED <<setup, talk, before, file, release>>,
             pc \in {"releasing", "exited"} => pc' \in {"releasing", "exited"}
      PROVE  Truthful'
  BY <1>2, <1>1 DEF Truthful
<1>3. CASE Adopts \/ Spawns \/ SpawnFails \/ HeadEnds \/ KillTimer \/ Interrupt \/ Ticks
  BY <1>3, <1>2 DEF Adopts, Spawns, SpawnFails, HeadEnds, KillTimer, Interrupt, Ticks
<1>4. CASE (\E id \in Ids, ok \in BOOLEAN : LinkAnswered(id, ok)) \/ PatchAnswered \/ Closes \/ FailFlushes
  BY <1>4, <1>2 DEF LinkAnswered, PatchAnswered, Closes, FailFlushes
<1>5. CASE Prepares
  <2>1. /\ UNCHANGED <<setup, talk, file, release>> /\ before' \in {before, None, store}
        /\ pc = "adopted"
    BY <1>5 DEF Prepares
  <2>2. Changed(store, store) = {}
    BY DEF Changed, StoresOK, Store
  <2>3. Mine' = Mine /\ (Alone' <=> Alone)
    BY <2>1 DEF Mine, Untold, Alone
  <2>4. before' # None => Changed(before', store') \subseteq own' \cup others'
    BY <2>1, <2>2 DEF Truthful
  <2> QED
    BY <2>1, <2>3, <2>4 DEF Truthful
<1>6. ASSUME NEW id \in Ids, HeadTalks(id) PROVE Truthful'
  <2>1. /\ own' = own \cup {id} /\ UNCHANGED <<setup, others, before, release, pc>>
        /\ store' \in {store, Used(store, id)} /\ head = "alive"
    BY <1>6 DEF HeadTalks
  <2>2. before # None => Changed(before, store') \subseteq own' \cup others'
    BY <2>1, UseChanges DEF Truthful
  <2>3. pc = "running" /\ release.native = None
    BY <2>1 DEF LaunchTypes, Places, Terminated, Truthful
  <2>4. CASE launcher = "claude"
    <3>1. file' = Append(Lines(file), id)
      BY <1>6, <2>4 DEF HeadTalks
    <3>2. Lines(file) \in Seq(Ids \cup Names \cup {None})
      BY LinesOK DEF Linking
    <3>3. LastId(file') \in {id, None}
      BY <3>1, <3>2, LastAppended
    <3>4. {id, None} \subseteq Mine'
      BY <2>1 DEF Mine
    <3> QED
      BY <2>1, <2>2, <2>3, <3>3, <3>4 DEF Truthful
  <2>5. CASE launcher # "claude"
    <3>1. file' = file
      BY <1>6, <2>5 DEF HeadTalks
    <3>2. Mine \subseteq Mine' /\ None \in Mine' /\ (Alone' <=> Alone)
      BY <2>1, <2>5 DEF Mine, Untold, Alone
    <3>3. Alone' => LastId(file') \in Mine' /\ release'.native \in Mine'
      BY <2>1, <2>3, <3>1, <3>2 DEF Truthful
    <3> QED
      BY <2>1, <2>2, <2>3, <3>3 DEF Truthful
  <2> QED
    BY <2>4, <2>5
<1>7. ASSUME NEW id \in Ids, OtherTalks(id) PROVE Truthful'
  <2>1. /\ others' = others \cup {id} /\ UNCHANGED <<setup, own, before, file, release, pc>>
        /\ store' = Used(store, id)
    BY <1>7 DEF OtherTalks
  <2>2. before # None => Changed(before, store') \subseteq own' \cup others'
    BY <2>1, UseChanges DEF Truthful
  <2>3. (Alone' => Alone) /\ Mine' = Mine
    BY <2>1 DEF Alone, Mine, Untold
  <2> QED
    BY <2>1, <2>2, <2>3 DEF Truthful
<1>8. CASE NamesConversation
  <2>1. UNCHANGED <<setup, talk, before, release>> /\ pc = "closing" /\ pc' = "taking"
    BY <1>8 DEF NamesConversation
  <2>2. \/ file' = file \/ file' = <<resume>>
        \/ launcher # "claude" /\ file' = <<Captured>>
    BY <1>8 DEF NamesConversation
  <2>3. ASSUME Alone PROVE LastId(file') \in Mine
    <3>1. resume \in Mine /\ None \in Mine /\ own \subseteq Mine
      BY DEF Mine
    <3>2. CASE file' = file
      BY <2>3, <3>2 DEF Truthful
    <3>3. CASE file' = <<resume>>
      BY <3>1, <3>3, LastOfOne
    <3>4. CASE launcher # "claude" /\ file' = <<Captured>>
      <4>1. Captured \in own \cup {resume, None}
        BY <2>3, <3>4, CapturedOwn
      <4>2. LastId(file') \in {Captured, None}
        BY <3>4, LastOfOne
      <4> QED
        BY <3>1, <4>1, <4>2
    <3> QED
      BY <2>2, <3>2, <3>3, <3>4
  <2> QED
    BY <1>1, <2>1, <2>3 DEF Truthful
<1>9. CASE TakesId
  <2>1. /\ UNCHANGED <<setup, talk, before>> /\ file' = NoFile /\ pc' = "releasing"
        /\ release'.native = LastId(file)
    BY <1>9 DEF TakesId, NoRequest
  <2>2. LastId(NoFile) = None
    BY NoLines, LastIsId
  <2>3. None \in Mine
    BY DEF Mine
  <2> QED
    BY <1>1, <2>1, <2>2, <2>3 DEF Truthful
<1>10. CASE Releases \/ FailReleases \/ Exits
  <2>1. /\ UNCHANGED <<setup, talk, before, file>>
        /\ release'.native \in {release.native, None}
    BY <1>10 DEF Releases, FailReleases, Exits, Request, LaunchTypes
  <2>2. pc' \in {pc, "exited"}
    BY <1>10 DEF Releases, FailReleases, Exits
  <2>3. None \in Mine
    BY DEF Mine
  <2> QED
    BY <1>1, <2>1, <2>2, <2>3 DEF Truthful
<1>11. CASE UNCHANGED vars
  BY <1>11, <1>2 DEF vars
<1> QED
  BY <1>3, <1>4, <1>5, <1>6, <1>7, <1>8, <1>9, <1>10, <1>11 DEF Next

LEMMA TruthInit == Init => Truthful
<1> SUFFICES ASSUME Init PROVE Truthful
  OBVIOUS
<1>1. /\ before = None /\ own = {} /\ stale = file /\ release.native = None
  BY DEF Init, NoRequest
<1>2. LastId(file) \in IdsOf(file) \cup {None}
  BY LastIsId
<1> QED
  BY <1>1, <1>2 DEF Truthful, Mine, Untold

\* For any number of conversations and any use of the harness by others that
\* keeps out of the directory, the row is released with a conversation of this
\* head, the one it resumed, or, if it named none, the one an earlier launch left
\* in the session file (closeClaude, closeCodex, closeOpencode, takeSessionId).
THEOREM OwnConversation == Spec => NamesOwn
<1> DEFINE Right == \/ release'.native \in own \cup {resume, None}
                    \/ release'.native \in IdsOf(stale) /\ (launcher = "claude" => own = {})
<1>1. ASSUME LaunchTypes, StoresOK, Linking, Truthful, Next, Sends, Alone
      PROVE  Right
  <2>2. release'.native \in {release.native, None}
    <3>1. release' # release
      BY <1>1 DEF Sends
    <3>2. ~TakesId /\ ~Exits
      BY <1>1 DEF Sends, TakesId, Exits, NoRequest, LaunchTypes
    <3>3. Releases \/ FailReleases
      BY <1>1, <3>1, <3>2 DEF Next, Adopts, Prepares, Spawns, SpawnFails, HeadTalks, OtherTalks, HeadEnds,
         Interrupt, KillTimer, Ticks, LinkAnswered, PatchAnswered, Closes, NamesConversation, FailFlushes
    <3> QED
      BY <3>3 DEF Releases, FailReleases, Request
  <2> QED
    BY <1>1, <2>2 DEF Truthful, Mine, Untold
<1>2. LaunchTypes /\ StoresOK /\ Linking /\ Truthful /\ [Next]_vars
        => [Sends /\ others \subseteq (IF launcher = "codex" THEN Elsewhere ELSE {}) => Right]_vars
  BY <1>1 DEF Alone
<1> QED
  BY <1>2, LaunchInit, TerminalStep, LinkingInit, StoresStep, LinkingStep, TruthInit, TruthStep,
     PTL DEF Spec, NamesOwn

-----------------------------------------------------------------------------
(* The rename of an open session. *)

\* A rename waits for its turn only until it has been typed.
RenameInv ==
  /\ pending \in BOOLEAN /\ used \in BOOLEAN /\ timer \in BOOLEAN
  /\ pending => ~used
  /\ NoLostWakeup

LEMMA Trying ==
  ASSUME NEW wants \in BOOLEAN, NEW dirty, used \in BOOLEAN, wants => ~used, TryInject(wants, dirty)
  PROVE  /\ pending' \in BOOLEAN /\ used' \in BOOLEAN /\ timer' \in BOOLEAN
         /\ pending' => ~used'
         /\ pending' /\ ~dirty => timer'
BY DEF TryInject

LEMMA Scheduling ==
  ASSUME NEW wants \in BOOLEAN, NEW dirty, NEW recent, used \in BOOLEAN, wants => ~used,
         ScheduleQuiet(wants, dirty, recent)
  PROVE  /\ pending' \in BOOLEAN /\ used' \in BOOLEAN /\ timer' \in BOOLEAN
         /\ pending' => ~used'
         /\ pending' /\ ~dirty => timer'
<1>1. CASE recent
  BY <1>1 DEF ScheduleQuiet
<1>2. CASE ~recent
  <2>1. TryInject(wants, dirty)
    BY <1>2 DEF ScheduleQuiet
  <2> QED BY <2>1, Trying
<1> QED BY <1>1, <1>2

LEMMA RenameStep == RenameInv /\ [GateNext]_keyboard => RenameInv'
<1> SUFFICES ASSUME RenameInv, [GateNext]_keyboard PROVE RenameInv'
  OBVIOUS
<1>1. ASSUME UNCHANGED <<gate, pending, used, timer>> PROVE RenameInv'
  BY <1>1 DEF RenameInv, NoLostWakeup
<1>2. CASE (\E kind \in Kinds : Types(kind)) \/ QuietPasses
           \/ \E content \in {"empty", "name", "unprintable"} : HookWrites(content)
  BY <1>1, <1>2 DEF Types, QuietPasses, HookWrites
<1>3. ASSUME NEW n, Forward(n) PROVE RenameInv'
  <2>1. \/ UNCHANGED <<gate, pending, used, timer>>
        \/ ScheduleQuiet(pending, gate'.dirty, fresh')
    BY <1>3 DEF Forward
  <2>2. CASE ScheduleQuiet(pending, gate'.dirty, fresh')
    BY <2>2, Scheduling DEF RenameInv, NoLostWakeup
  <2> QED BY <1>1, <2>1, <2>2
<1>4. CASE TimerFires
  BY <1>4, Trying DEF TimerFires, RenameInv, NoLostWakeup
<1>5. CASE WatcherReads
  <2>1. CASE sidecar = "name" /\ ~used /\ ~pending
    <3>1. ScheduleQuiet(TRUE, gate.dirty, fresh) /\ gate' = gate /\ ~used
      BY <1>5, <2>1 DEF WatcherReads
    <3> DEFINE wants == TRUE
    <3>2. ScheduleQuiet(wants, gate.dirty, fresh) /\ wants \in BOOLEAN
      BY <3>1
    <3> HIDE DEF wants
    <3> QED BY <3>1, <3>2, Scheduling DEF RenameInv, NoLostWakeup
  <2>2. CASE ~(sidecar = "name" /\ ~used /\ ~pending)
    BY <1>1, <1>5, <2>2 DEF WatcherReads
  <2> QED BY <2>1, <2>2
<1>6. CASE Dispose
  BY <1>6 DEF Dispose, RenameInv, NoLostWakeup
<1>7. CASE UNCHANGED keyboard
  BY <1>1, <1>7 DEF keyboard
<1> QED BY <1>2, <1>3, <1>4, <1>5, <1>6, <1>7 DEF GateNext

\* The rename is not forgotten (scheduleQuiet and tryInject of pty.ts): while
\* one waits before a line that the gate holds for empty there is a timer that
\* will try it, for any keys and reports and however the reads cut them.
THEOREM RenameIsTried == GateSpec => []NoLostWakeup
<1>1. GateInit => RenameInv
  BY DEF GateInit, RenameInv, NoLostWakeup
<1>2. RenameInv => NoLostWakeup
  BY DEF RenameInv
<1> QED BY <1>1, <1>2, RenameStep, PTL DEF GateSpec

-----------------------------------------------------------------------------
(* Bytes, keys and reports. *)

LEMMA Extensional ==
  ASSUME NEW S, NEW s \in Seq(S), NEW t \in Seq(S), Len(s) = Len(t), \A i \in 1 .. Len(s) : s[i] = t[i]
  PROVE  s = t
OBVIOUS

LEMMA OneOf ==
  ASSUME NEW S, NEW a \in S, NEW s \in Seq(S), Len(s) = 1, s[1] = a
  PROVE  s = <<a>>
<1>1. <<a>> \in Seq(S) /\ Len(<<a>>) = 1 /\ <<a>>[1] = a
  OBVIOUS
<1> QED
  BY <1>1, Extensional

LEMMA TwoOf ==
  ASSUME NEW S, NEW a \in S, NEW b \in S, NEW s \in Seq(S), Len(s) = 2, s[1] = a, s[2] = b
  PROVE  s = <<a, b>>
<1>1. <<a, b>> \in Seq(S) /\ Len(<<a, b>>) = 2 /\ <<a, b>>[1] = a /\ <<a, b>>[2] = b
  OBVIOUS
<1>2. \A i \in 1 .. 2 : i = 1 \/ i = 2
  OBVIOUS
<1> QED
  BY <1>1, <1>2, Extensional

LEMMA ThreeOf ==
  ASSUME NEW S, NEW a \in S, NEW b \in S, NEW c \in S, NEW s \in Seq(S), Len(s) = 3,
         s[1] = a, s[2] = b, s[3] = c
  PROVE  s = <<a, b, c>>
<1>1. /\ <<a, b, c>> \in Seq(S) /\ Len(<<a, b, c>>) = 3
      /\ <<a, b, c>>[1] = a /\ <<a, b, c>>[2] = b /\ <<a, b, c>>[3] = c
  OBVIOUS
<1>2. \A i \in 1 .. 3 : i = 1 \/ i = 2 \/ i = 3
  OBVIOUS
<1> QED
  BY <1>1, <1>2, Extensional

LEMMA FourOf ==
  ASSUME NEW S, NEW a \in S, NEW b \in S, NEW c \in S, NEW d \in S, NEW s \in Seq(S), Len(s) = 4,
         s[1] = a, s[2] = b, s[3] = c, s[4] = d
  PROVE  s = <<a, b, c, d>>
<1>1. /\ <<a, b, c, d>> \in Seq(S) /\ Len(<<a, b, c, d>>) = 4
      /\ <<a, b, c, d>>[1] = a /\ <<a, b, c, d>>[2] = b /\ <<a, b, c, d>>[3] = c /\ <<a, b, c, d>>[4] = d
  OBVIOUS
<1>2. \A i \in 1 .. 4 : i = 1 \/ i = 2 \/ i = 3 \/ i = 4
  OBVIOUS
<1> QED
  BY <1>1, <1>2, Extensional

LEMMA AppendedTwo == ASSUME NEW a, NEW b PROVE Append(<<a>>, b) = <<a, b>>
<1>1. <<a>> \in Seq({a, b}) /\ a \in {a, b} /\ b \in {a, b}
  OBVIOUS
<1>2. /\ Append(<<a>>, b) \in Seq({a, b}) /\ Len(Append(<<a>>, b)) = 2
      /\ Append(<<a>>, b)[1] = a /\ Append(<<a>>, b)[2] = b
  BY <1>1
<1> QED
  BY <1>1, <1>2, TwoOf

LEMMA AppendedThree == ASSUME NEW a, NEW b, NEW c PROVE Append(<<a, b>>, c) = <<a, b, c>>
<1>1. <<a, b>> \in Seq({a, b, c}) /\ a \in {a, b, c} /\ b \in {a, b, c} /\ c \in {a, b, c}
  OBVIOUS
<1>2. /\ Append(<<a, b>>, c) \in Seq({a, b, c}) /\ Len(Append(<<a, b>>, c)) = 3
      /\ Append(<<a, b>>, c)[1] = a /\ Append(<<a, b>>, c)[2] = b /\ Append(<<a, b>>, c)[3] = c
  BY <1>1
<1> QED
  BY <1>1, <1>2, ThreeOf

LEMMA AppendedFour ==
  ASSUME NEW a, NEW b, NEW c, NEW d
  PROVE  Append(<<a, b, c>>, d) = <<a, b, c, d>>
<1>1. /\ <<a, b, c>> \in Seq({a, b, c, d}) /\ a \in {a, b, c, d} /\ b \in {a, b, c, d}
      /\ c \in {a, b, c, d} /\ d \in {a, b, c, d}
  OBVIOUS
<1>2. /\ Append(<<a, b, c>>, d) \in Seq({a, b, c, d}) /\ Len(Append(<<a, b, c>>, d)) = 4
      /\ Append(<<a, b, c>>, d)[1] = a /\ Append(<<a, b, c>>, d)[2] = b
      /\ Append(<<a, b, c>>, d)[3] = c /\ Append(<<a, b, c>>, d)[4] = d
  BY <1>1
<1> QED
  BY <1>1, <1>2, FourOf

LEMMA FrontOfTwo == ASSUME NEW a, NEW b PROVE Front(<<a, b>>) = <<a>>
<1>1. <<a, b>> \in Seq({a, b}) /\ a \in {a, b}
  OBVIOUS
<1>2. Front(<<a, b>>) \in Seq({a, b}) /\ Len(Front(<<a, b>>)) = 1 /\ Front(<<a, b>>)[1] = a
  BY <1>1 DEF Front
<1> QED
  BY <1>1, <1>2, OneOf

LEMMA CsiIs ==
  ASSUME NEW a, NEW b
  PROVE  Csi(<<a>>) = <<"esc", "[", a>> /\ Csi(<<a, b>>) = <<"esc", "[", a, b>>
<1> DEFINE S == {"esc", "[", a, b}
<1>1. <<"esc", "[">> \in Seq(S) /\ <<a>> \in Seq(S) /\ <<a, b>> \in Seq(S)
  OBVIOUS
<1>2. /\ Csi(<<a>>) \in Seq(S) /\ Len(Csi(<<a>>)) = 3
      /\ Csi(<<a>>)[1] = "esc" /\ Csi(<<a>>)[2] = "[" /\ Csi(<<a>>)[3] = a
  BY <1>1 DEF Csi, ESC
<1>3. /\ Csi(<<a, b>>) \in Seq(S) /\ Len(Csi(<<a, b>>)) = 4
      /\ Csi(<<a, b>>)[1] = "esc" /\ Csi(<<a, b>>)[2] = "[" /\ Csi(<<a, b>>)[3] = a /\ Csi(<<a, b>>)[4] = b
  BY <1>1 DEF Csi, ESC
<1>4. "esc" \in S /\ "[" \in S /\ a \in S /\ b \in S
  OBVIOUS
<1> HIDE DEF S
<1>5. Csi(<<a>>) = <<"esc", "[", a>>
  BY <1>2, <1>4, ThreeOf
<1>6. Csi(<<a, b>>) = <<"esc", "[", a, b>>
  BY <1>3, <1>4, FourOf
<1> QED
  BY <1>5, <1>6
AllKinds == {"text", "backslash", "enter", "control", "escape", "alt-enter", "arrow", "focus",
             "reply", "kitty-esc", "paste-on", "paste-off", "mouse"}

LEMMA KeyBytes ==
  /\ Bytes("text") = <<"a">> /\ Bytes("backslash") = <<"\\">>
  /\ Bytes("enter") = <<"cr">> /\ Bytes("control") = <<"ctrl">>
  /\ Bytes("escape") = <<"esc">> /\ Bytes("alt-enter") = <<"esc", "cr">>
  /\ Bytes("arrow") = <<"esc", "[", "A">> /\ Bytes("focus") = <<"esc", "[", "I">>
  /\ Bytes("reply") = <<"esc", "[", "?", "c">> /\ Bytes("kitty-esc") = <<"esc", "[", "2", "7u">>
  /\ Bytes("paste-on") = <<"esc", "[", "2", "00~">> /\ Bytes("paste-off") = <<"esc", "[", "2", "01~">>
  /\ Bytes("mouse") = <<"esc", "[", "<", "0M">>
<1>1. /\ Bytes("text") = <<"a">> /\ Bytes("backslash") = <<"\\">>
      /\ Bytes("enter") = <<"cr">> /\ Bytes("control") = <<"ctrl">>
      /\ Bytes("escape") = <<"esc">> /\ Bytes("alt-enter") = <<"esc", "cr">>
  BY DEF Bytes, ESC, CR
<1>2. /\ Bytes("arrow") = Csi(<<"A">>) /\ Bytes("focus") = Csi(<<"I">>)
      /\ Bytes("reply") = Csi(<<"?", "c">>) /\ Bytes("kitty-esc") = Csi(<<"2", "7u">>)
      /\ Bytes("paste-on") = Csi(<<"2", "00~">>) /\ Bytes("paste-off") = Csi(<<"2", "01~">>)
      /\ Bytes("mouse") = Csi(<<"<", "0M">>)
  BY DEF Bytes
<1> QED
  BY <1>1, <1>2, CsiIs

-----------------------------------------------------------------------------
(* What a byte does to the gate. *)

HeldBytes == {<<>>, <<"esc">>, <<"esc", "[">>, <<"esc", "[", "2">>, <<"esc", "[", "<">>}
Gates(held) ==
  [dirty : BOOLEAN, guard : BOOLEAN, paste : BOOLEAN, kitty : BOOLEAN, esc : held,
   mouse : BOOLEAN, before : BOOLEAN, prev : {"other", "\\", "esc"},
   prevBefore : {"other", "\\", "esc"}, here : BOOLEAN, active : BOOLEAN]
GateStates == Gates(HeldBytes)

LEMMA Prevs == \A byte : Prev(byte) \in {"other", "\\", "esc"}
BY DEF Prev, ESC

\* A byte outside every escape.
LEMMA PlainByte ==
  ASSUME NEW g \in GateStates, g.esc = <<>>, NEW byte, byte # "esc"
  PROVE  LET h == ObserveByte(g, byte)
             enter == byte = "cr" /\ ~g.paste /\ g.prev = "other"
         IN /\ h \in GateStates
            /\ h.esc = <<>> /\ h.mouse = g.mouse /\ h.paste = g.paste /\ ~h.kitty
            /\ h.prev = Prev(byte) /\ h.here = g.here /\ h.active
            /\ IF enter THEN h.dirty = g.guard /\ ~h.guard
               ELSE h.dirty /\ (h.guard <=> g.guard \/ byte = "ctrl")
<1> DEFINE p == [[g EXCEPT !.kitty = FALSE, !.prev = Prev(byte)] EXCEPT !.active = TRUE]
           enter == byte = "cr" /\ ~g.paste /\ g.prev = "other"
<1>1. /\ p \in GateStates
      /\ p.esc = <<>> /\ p.mouse = g.mouse /\ p.paste = g.paste /\ ~p.kitty
      /\ p.prev = Prev(byte) /\ p.here = g.here /\ p.active /\ p.guard = g.guard
  BY Prevs DEF GateStates, Gates
<1>2. ObserveByte(g, byte) = IF enter THEN [p EXCEPT !.dirty = p.guard, !.guard = FALSE]
                             ELSE [[p EXCEPT !.dirty = TRUE] EXCEPT !.guard = @ \/ byte = "ctrl"]
  BY DEF ObserveByte, Submits, Entered, Dirty, Active, ESC, CR
<1> HIDE DEF p
<1>3. CASE enter
  BY <1>1, <1>2, <1>3, ZenonT(40) DEF GateStates, Gates
<1>4. CASE ~enter
  <2> DEFINE guarded == p.guard \/ byte = "ctrl"
             h == ObserveByte(g, byte)
  <2>1. guarded \in BOOLEAN /\ (guarded <=> g.guard \/ byte = "ctrl")
    BY <1>1
  <2>2. h = [[p EXCEPT !.dirty = TRUE] EXCEPT !.guard = guarded]
    BY <1>1, <1>2, <1>4 DEF GateStates, Gates
  <2> HIDE DEF guarded, h
  <2>3. /\ h \in GateStates
        /\ h.esc = <<>> /\ h.mouse = g.mouse /\ h.paste = g.paste /\ ~h.kitty
        /\ h.prev = Prev(byte) /\ h.here = g.here /\ h.active /\ h.dirty
    BY <1>1, <2>1, <2>2 DEF GateStates, Gates
  <2>4. h.guard = guarded
    BY <1>1, <2>1, <2>2 DEF GateStates, Gates
  <2> QED
    BY <1>4, <2>1, <2>3, <2>4 DEF h
<1> QED
  BY <1>3, <1>4

\* The byte that begins one.
LEMMA EscapeBegins ==
  ASSUME NEW g \in GateStates, g.esc = <<>>
  PROVE  LET h == ObserveByte(g, "esc")
         IN /\ h \in GateStates
            /\ h.esc = <<"esc">> /\ ~h.mouse /\ h.paste = g.paste /\ h.kitty = g.kitty
            /\ h.guard = g.guard /\ h.dirty /\ h.before = g.dirty /\ h.prevBefore = g.prev
            /\ h.here /\ h.active = g.active
<1>1. ObserveByte(g, "esc") =
        [[[g EXCEPT !.esc = <<"esc">>, !.mouse = FALSE, !.before = g.dirty, !.prevBefore = g.prev, !.here = TRUE]
           EXCEPT !.dirty = TRUE] EXCEPT !.prev = "esc"]
  BY DEF ObserveByte, BeginEscape, Dirty, ESC
<1> QED
  BY <1>1 DEF GateStates, Gates, HeldBytes

\* The bytes of an escape that turned out to be none are no Enter: they leave
\* a line that is not empty.
LEMMA Unflushed ==
  ASSUME NEW E, NEW g \in Gates(E), NEW byte, byte = "cr" => g.prev = "esc"
  PROVE  LET h == FlushedByte(g, byte)
         IN /\ h \in Gates(E)
            /\ h.dirty /\ h.prev = Prev(byte)
            /\ h.guard = g.guard /\ h.paste = g.paste /\ h.kitty = g.kitty /\ h.esc = g.esc
            /\ h.mouse = g.mouse /\ h.here = g.here /\ h.active = g.active
<1>1. FlushedByte(g, byte) = [[g EXCEPT !.dirty = TRUE] EXCEPT !.prev = Prev(byte)]
  BY DEF FlushedByte, Submits, Dirty, CR
<1> QED
  BY <1>1, Prevs DEF Gates

LEMMA FlushedAre ==
  ASSUME NEW g, NEW held, NEW n \in 1 .. 3, Len(held) = n
  PROVE  FlushedBytes(g, held) =
           IF n = 1 THEN FlushedByte(g, held[1])
           ELSE IF n = 2 THEN FlushedByte(FlushedByte(g, held[1]), held[2])
           ELSE FlushedByte(FlushedByte(FlushedByte(g, held[1]), held[2]), held[3])
<1> DEFINE F(x, i) == FlushedByte(x, held[i])
           w == [i \in 0 .. n |-> IF i = 0 THEN g ELSE IF i = 1 THEN F(g, 1)
                                  ELSE IF i = 2 THEN F(F(g, 1), 2) ELSE F(F(F(g, 1), 2), 3)]
           done == CHOOSE f : f = [i \in 0 .. n |-> IF i = 0 THEN g ELSE FlushedByte(f[i - 1], held[i])]
<1>1. \A i \in 0 .. n : w[i] = IF i = 0 THEN g ELSE FlushedByte(w[i - 1], held[i])
  <2> SUFFICES ASSUME NEW i \in 0 .. n PROVE w[i] = IF i = 0 THEN g ELSE FlushedByte(w[i - 1], held[i])
    OBVIOUS
  <2>1. i = 0 \/ i = 1 \/ i = 2 \/ i = 3
    OBVIOUS
  <2> HIDE DEF F
  <2>2. /\ w[i] = IF i = 0 THEN g ELSE IF i = 1 THEN F(g, 1) ELSE IF i = 2 THEN F(F(g, 1), 2) ELSE F(F(F(g, 1), 2), 3)
        /\ i # 0 => w[i - 1] = IF i = 1 THEN g ELSE IF i = 2 THEN F(g, 1) ELSE F(F(g, 1), 2)
    BY <2>1
  <2>3. i # 0 => w[i] = F(w[i - 1], i)
    BY <2>1, <2>2
  <2> HIDE DEF w
  <2> QED
    BY <2>2, <2>3 DEF F
<1>2. w = [i \in 0 .. n |-> IF i = 0 THEN g ELSE FlushedByte(w[i - 1], held[i])]
  <2>1. w = [i \in 0 .. n |-> w[i]]
    OBVIOUS
  <2> HIDE DEF w
  <2> QED
    BY <1>1, <2>1
<1>3. done = [i \in 0 .. n |-> IF i = 0 THEN g ELSE FlushedByte(done[i - 1], held[i])]
  <2> HIDE DEF w
  <2> QED
    BY <1>2, Zenon
<1>4. FlushedBytes(g, held) = done[n]
  BY DEF FlushedBytes
<1> HIDE DEF done, F
<1>5. done[0] = g /\ done[1] = FlushedByte(g, held[1])
  BY <1>3
<1>6. n > 1 => done[2] = FlushedByte(done[1], held[2])
  BY <1>3
<1>7. n > 2 => done[3] = FlushedByte(done[2], held[3])
  BY <1>3
<1> QED
  BY <1>4, <1>5, <1>6, <1>7

\* Another byte than an escape after one that is none, or after its bracket.
LEMMA EscapeFlushed ==
  ASSUME NEW g \in GateStates, NEW byte, byte # "esc",
         g.esc = <<"esc">> \/ (g.esc = <<"esc", "[">> /\ byte # "cr")
  PROVE  LET h == FlushUnknown([g EXCEPT !.esc = Append(g.esc, byte)], byte)
         IN /\ h \in GateStates
            /\ h.esc = <<>> /\ ~h.mouse /\ h.paste = g.paste /\ ~h.kitty
            /\ (h.guard <=> g.guard \/ g.esc # <<"esc">> \/ byte # "cr")
            /\ h.dirty /\ h.prev = Prev(byte) /\ h.here = g.here /\ h.active
<1> DEFINE e == Append(g.esc, byte)
           p == [[g EXCEPT !.esc = e] EXCEPT !.guard = @ \/ e # <<"esc", "cr">>, !.kitty = FALSE]
           f == FlushedBytes(p, e)
<1>1. e = IF g.esc = <<"esc">> THEN <<"esc", byte>> ELSE <<"esc", "[", byte>>
  BY AppendedTwo, AppendedThree
<1>2. (e # <<"esc", "cr">>) <=> (g.esc # <<"esc">> \/ byte # "cr")
  BY <1>1
<1>3. /\ p \in Gates({e}) /\ p.esc = e /\ p.mouse = g.mouse /\ p.paste = g.paste /\ ~p.kitty
      /\ p.here = g.here
      /\ (p.guard <=> g.guard \/ e # <<"esc", "cr">>)
  <2> HIDE DEF e
  <2> QED
    BY DEF GateStates, Gates
<1>4. FlushUnknown([g EXCEPT !.esc = Append(g.esc, byte)], byte)
        = [[[f EXCEPT !.esc = <<>>, !.mouse = FALSE] EXCEPT !.prev = Prev(byte)] EXCEPT !.active = TRUE]
  <2>1. [g EXCEPT !.esc = e].esc = e
    BY DEF GateStates, Gates
  <2> HIDE DEF e
  <2>2. FlushUnknown([g EXCEPT !.esc = e], byte)
        = [[[f EXCEPT !.esc = <<>>, !.mouse = FALSE] EXCEPT !.prev = Prev(byte)] EXCEPT !.active = TRUE]
    BY <2>1 DEF FlushUnknown, Active, ESC, CR
  <2> QED
    BY <2>2 DEF e
<1>5. /\ f \in Gates({e}) /\ f.dirty
      /\ f.guard = p.guard /\ f.paste = p.paste /\ f.kitty = p.kitty /\ f.here = p.here
  <2> HIDE DEF p
  <2> DEFINE p1 == FlushedByte(p, "esc")
  <2>1. /\ p1 \in Gates({e}) /\ p1.prev = "esc"
        /\ p1.guard = p.guard /\ p1.paste = p.paste /\ p1.kitty = p.kitty /\ p1.here = p.here
    <3> HIDE DEF e
    <3> QED
      BY <1>3, Unflushed DEF Prev, ESC
  <2>2. CASE g.esc = <<"esc">>
    <3>1. e = <<"esc", byte>>
      BY <1>1, <2>2
    <3> DEFINE b == <<"esc", byte>>
    <3>2. Len(b) = 2 /\ b[1] = "esc" /\ b[2] = byte /\ f = FlushedBytes(p, b)
      BY <3>1
    <3> HIDE DEF b, e, f
    <3>3. f = FlushedByte(p1, byte)
      BY <3>2, FlushedAre
    <3> HIDE DEF p1
    <3> QED
      BY <2>1, <3>3, Unflushed
  <2>3. CASE g.esc = <<"esc", "[">> /\ byte # "cr"
    <3>1. e = <<"esc", "[", byte>>
      BY <1>1, <2>3
    <3> DEFINE b == <<"esc", "[", byte>>
               p2 == FlushedByte(p1, "[")
    <3>2. Len(b) = 3 /\ b[1] = "esc" /\ b[2] = "[" /\ b[3] = byte /\ f = FlushedBytes(p, b)
      BY <3>1
    <3> HIDE DEF b, e, f
    <3>3. f = FlushedByte(p2, byte)
      BY <3>2, FlushedAre
    <3> HIDE DEF p1
    <3>4. /\ p2 \in Gates({e})
          /\ p2.guard = p.guard /\ p2.paste = p.paste /\ p2.kitty = p.kitty /\ p2.here = p.here
      BY <2>1, Unflushed
    <3> HIDE DEF p2
    <3> QED
      BY <2>3, <3>3, <3>4, Unflushed
  <2> QED
    BY <2>2, <2>3
<1> HIDE DEF f
<1> QED
  <2> DEFINE h == [[[f EXCEPT !.esc = <<>>, !.mouse = FALSE] EXCEPT !.prev = Prev(byte)] EXCEPT !.active = TRUE]
  <2>1. /\ h \in GateStates
        /\ h.esc = <<>> /\ ~h.mouse /\ h.paste = f.paste /\ h.kitty = f.kitty
        /\ h.guard = f.guard /\ h.dirty = f.dirty /\ h.prev = Prev(byte) /\ h.here = f.here /\ h.active
    <3> HIDE DEF e
    <3> QED
      BY <1>5, Prevs DEF GateStates, Gates, HeldBytes
  <2> HIDE DEF h, p, e
  <2> QED
    BY <1>2, <1>3, <1>4, <1>5, <2>1 DEF h, e

\* An escape after an escape: the first counts as typed, the second begins.
LEMMA EscapeAgain ==
  ASSUME NEW g \in GateStates, g.esc = <<"esc">>
  PROVE  LET h == FlushUnknown([g EXCEPT !.esc = Append(g.esc, "esc")], "esc")
         IN /\ h \in GateStates
            /\ h.esc = <<"esc">> /\ ~h.mouse /\ h.paste = g.paste /\ ~h.kitty
            /\ h.guard /\ h.dirty /\ h.before /\ h.prevBefore = "esc"
            /\ h.here /\ h.active
<1> DEFINE e == <<"esc", "esc">>
           p == [[g EXCEPT !.esc = e] EXCEPT !.guard = @ \/ e # <<"esc", "cr">>, !.kitty = FALSE]
           f == FlushedBytes(p, <<"esc">>)
<1>1. Append(g.esc, "esc") = e /\ Front(e) = <<"esc">> /\ e # <<"esc", "cr">>
  BY AppendedTwo, AppendedThree, FrontOfTwo
<1>2. /\ p \in Gates({e}) /\ p.esc = e /\ p.paste = g.paste /\ ~p.kitty /\ p.guard
  <2> HIDE DEF e
  <2> QED
    BY <1>1 DEF GateStates, Gates
<1>3. FlushUnknown([g EXCEPT !.esc = Append(g.esc, "esc")], "esc")
        = [[[f EXCEPT !.esc = <<"esc">>, !.mouse = FALSE, !.before = f.dirty, !.prevBefore = f.prev, !.here = TRUE]
             EXCEPT !.prev = Prev("esc")] EXCEPT !.active = TRUE]
  <2>1. [g EXCEPT !.esc = e].esc = e
    BY DEF GateStates, Gates
  <2> HIDE DEF e
  <2> QED
    BY <1>1, <2>1 DEF FlushUnknown, BeginEscape, Active, ESC, CR
<1>4. f \in Gates({e}) /\ f.dirty /\ f.prev = "esc"
      /\ f.guard = p.guard /\ f.paste = p.paste /\ f.kitty = p.kitty
  <2> DEFINE b == <<"esc">>
  <2>1. Len(b) = 1 /\ b[1] = "esc" /\ f = FlushedBytes(p, b)
    OBVIOUS
  <2> HIDE DEF b, e, f, p
  <2>2. f = FlushedByte(p, "esc")
    BY <2>1, FlushedAre
  <2> QED
    BY <1>2, <2>2, Unflushed, ZenonT(40) DEF Prev, ESC
<1> HIDE DEF f
<1> QED
  <2> DEFINE h == [[[f EXCEPT !.esc = <<"esc">>, !.mouse = FALSE, !.before = f.dirty, !.prevBefore = f.prev, !.here = TRUE]
             EXCEPT !.prev = Prev("esc")] EXCEPT !.active = TRUE]
  <2>1. /\ h \in GateStates
        /\ h.esc = <<"esc">> /\ ~h.mouse /\ h.paste = f.paste /\ h.kitty = f.kitty
        /\ h.guard = f.guard /\ h.dirty = f.dirty /\ h.before = f.dirty /\ h.prevBefore = f.prev
        /\ h.here /\ h.active
    <3>1. Prev("esc") \in {"other", "\\", "esc"} /\ <<"esc">> \in HeldBytes
      BY Prevs DEF HeldBytes
    <3>2. /\ f.dirty \in BOOLEAN /\ f.prev \in {"other", "\\", "esc"}
          /\ f \in Gates({e})
      BY <1>4 DEF Gates
    <3> HIDE DEF e
    <3> QED
      BY <3>1, <3>2, ZenonT(60) DEF GateStates, Gates
  <2> HIDE DEF h, p, e
  <2> QED
    BY <1>2, <1>3, <1>4, <2>1 DEF h

\* What may still become a paste or the Escape of kitty.
Open(e) == \E kind \in {"paste-on", "paste-off", "kitty-esc"} : IsStrictPrefix(e, Bytes(kind))

LEMMA StaysOpen == Open(<<"esc", "[">>) /\ Open(<<"esc", "[", "2">>)
<1> DEFINE t == Bytes("paste-on")
<1>3. t = <<"esc", "[", "2", "00~">>
  BY KeyBytes
<1> HIDE DEF t
<1>1. IsStrictPrefix(<<"esc", "[">>, t)
  <2>1. SubSeq(<<"esc", "[">>, 1, 2) = SubSeq(<<"esc", "[", "2", "00~">>, 1, 2)
    OBVIOUS
  <2> QED
    BY <1>3, <2>1 DEF IsStrictPrefix, IsPrefix
<1>2. IsStrictPrefix(<<"esc", "[", "2">>, t)
  <2>1. SubSeq(<<"esc", "[", "2">>, 1, 3) = SubSeq(<<"esc", "[", "2", "00~">>, 1, 3)
    OBVIOUS
  <2> QED
    BY <1>3, <2>1 DEF IsStrictPrefix, IsPrefix
<1> QED
  BY <1>1, <1>2 DEF Open, t

LEMMA Longs ==
  ASSUME NEW kind \in {"paste-on", "paste-off", "kitty-esc"}
  PROVE  Bytes(kind) \in {<<"esc", "[", "2", "00~">>, <<"esc", "[", "2", "01~">>, <<"esc", "[", "2", "7u">>}
BY KeyBytes

LEMMA ClosedByTwo == ASSUME NEW b, b # "[" PROVE ~Open(<<"esc", b>>)
<1> SUFFICES ASSUME NEW kind \in {"paste-on", "paste-off", "kitty-esc"}
             PROVE  ~IsStrictPrefix(<<"esc", b>>, Bytes(kind))
  BY DEF Open
<1> DEFINE t == Bytes(kind)
<1>1. SubSeq(<<"esc", b>>, 1, 2)[2] = b /\ SubSeq(t, 1, 2)[2] = "[" /\ Len(<<"esc", b>>) = 2
  BY Longs
<1> QED
  BY <1>1 DEF IsStrictPrefix, IsPrefix

LEMMA ClosedByThree == ASSUME NEW b, b # "2" PROVE ~Open(<<"esc", "[", b>>)
<1> SUFFICES ASSUME NEW kind \in {"paste-on", "paste-off", "kitty-esc"}
             PROVE  ~IsStrictPrefix(<<"esc", "[", b>>, Bytes(kind))
  BY DEF Open
<1> DEFINE t == Bytes(kind)
<1>1. SubSeq(<<"esc", "[", b>>, 1, 3)[3] = b /\ SubSeq(t, 1, 3)[3] = "2" /\ Len(<<"esc", "[", b>>) = 3
  BY Longs
<1> QED
  BY <1>1 DEF IsStrictPrefix, IsPrefix

LEMMA Wholes ==
  /\ Bytes("focus") = <<"esc", "[", "I">> /\ Bytes("paste-on") = <<"esc", "[", "2", "00~">>
  /\ Bytes("paste-off") = <<"esc", "[", "2", "01~">> /\ Bytes("kitty-esc") = <<"esc", "[", "2", "7u">>
  /\ Bytes("mouse") = <<"esc", "[", "<", "0M">> /\ Csi(<<"<">>) = <<"esc", "[", "<">>
BY KeyBytes, CsiIs

LEMMA Shapes ==
  /\ Len(Bytes("focus")) = 3 /\ Bytes("focus")[3] = "I" /\ Len(Csi(<<"<">>)) = 3 /\ Csi(<<"<">>)[3] = "<"
  /\ Len(Bytes("paste-on")) = 4 /\ Bytes("paste-on")[3] = "2" /\ Bytes("paste-on")[4] = "00~"
  /\ Len(Bytes("paste-off")) = 4 /\ Bytes("paste-off")[3] = "2" /\ Bytes("paste-off")[4] = "01~"
  /\ Len(Bytes("kitty-esc")) = 4 /\ Bytes("kitty-esc")[3] = "2" /\ Bytes("kitty-esc")[4] = "7u"
  /\ Len(Bytes("mouse")) = 4 /\ Bytes("mouse")[3] = "<" /\ Bytes("mouse")[4] = "0M"
<1>1. ASSUME NEW s, NEW c, s = <<"esc", "[", c>> PROVE Len(s) = 3 /\ s[3] = c
  BY <1>1
<1>2. ASSUME NEW s, NEW c, NEW d, s = <<"esc", "[", c, d>> PROVE Len(s) = 4 /\ s[3] = c /\ s[4] = d
  BY <1>2
<1>3. Len(Bytes("focus")) = 3 /\ Bytes("focus")[3] = "I" /\ Len(Csi(<<"<">>)) = 3 /\ Csi(<<"<">>)[3] = "<"
  BY <1>1, Wholes
<1>4. Len(Bytes("paste-on")) = 4 /\ Bytes("paste-on")[3] = "2" /\ Bytes("paste-on")[4] = "00~"
  BY <1>2, Wholes
<1>5. Len(Bytes("paste-off")) = 4 /\ Bytes("paste-off")[3] = "2" /\ Bytes("paste-off")[4] = "01~"
  BY <1>2, Wholes
<1>6. Len(Bytes("kitty-esc")) = 4 /\ Bytes("kitty-esc")[3] = "2" /\ Bytes("kitty-esc")[4] = "7u"
  BY <1>2, Wholes
<1>7. Len(Bytes("mouse")) = 4 /\ Bytes("mouse")[3] = "<" /\ Bytes("mouse")[4] = "0M"
  BY <1>2, Wholes
<1> QED
  BY <1>3, <1>4, <1>5, <1>6, <1>7

\* What is no escape.
LEMMA NoEscape ==
  ASSUME NEW g \in GateStates, ~g.mouse, NEW byte,
         \/ g.esc = <<"esc">> /\ byte # "["
         \/ /\ g.esc = <<"esc", "[">> /\ byte # "2"
            /\ byte = "I" => ~g.here
            /\ byte = "<" => g.paste
  PROVE  ObserveByte(g, byte) = FlushUnknown([g EXCEPT !.esc = Append(g.esc, byte)], byte)
<1> DEFINE e == Append(g.esc, byte)
<1>1. \/ e = <<"esc", byte>> /\ byte # "["
      \/ /\ e = <<"esc", "[", byte>> /\ byte # "2" /\ (byte = "I" => ~g.here) /\ (byte = "<" => g.paste)
  BY AppendedTwo, AppendedThree
<1>2. /\ ~Open(e)
      /\ e # Bytes("paste-on") /\ e # Bytes("paste-off") /\ e # Bytes("kitty-esc")
      /\ e = Bytes("focus") => ~g.here
      /\ e = Csi(<<"<">>) => g.paste
  <2> HIDE DEF e
  <2>1. /\ Bytes("focus") = <<"esc", "[", "I">> /\ Csi(<<"<">>) = <<"esc", "[", "<">>
        /\ \A c : Len(<<"esc", "[", c>>) = 3 /\ <<"esc", "[", c>>[3] = c
    BY Wholes
  <2>2. Len(Bytes("paste-on")) = 4 /\ Len(Bytes("paste-off")) = 4 /\ Len(Bytes("kitty-esc")) = 4
    BY Wholes
  <2>3. CASE e = <<"esc", byte>> /\ byte # "["
    <3>1. Len(e) = 2
      BY <2>3
    <3> QED
      BY <2>1, <2>2, <2>3, <3>1, ClosedByTwo
  <2>4. CASE e = <<"esc", "[", byte>> /\ byte # "2" /\ (byte = "I" => ~g.here) /\ (byte = "<" => g.paste)
    <3>1. Len(e) = 3 /\ e[3] = byte
      BY <2>1, <2>4
    <3> QED
      BY <2>1, <2>2, <2>4, <3>1, ClosedByThree
  <2> QED
    BY <1>1, <2>3, <2>4
<1>3. ObserveByte(g, byte) = WithinEscape(g, byte)
  <2>1. g.esc # <<>>
    OBVIOUS
  <2> QED
    BY <2>1 DEF ObserveByte
<1>4. WithinEscape(g, byte) = FlushUnknown([g EXCEPT !.esc = e], byte)
  <2> HIDE DEF e
  <2> QED
    BY <1>2 DEF WithinEscape, Open, e
<1> QED
  BY <1>3, <1>4

LEMMA ClosedByFour == ASSUME NEW c, NEW d PROVE ~Open(<<"esc", "[", c, d>>)
<1> SUFFICES ASSUME NEW kind \in {"paste-on", "paste-off", "kitty-esc"}
             PROVE  ~IsStrictPrefix(<<"esc", "[", c, d>>, Bytes(kind))
  BY DEF Open
<1> DEFINE s == <<"esc", "[", c, d>>
           t == Bytes(kind)
           S == {"esc", "[", "2", "00~", "01~", "7u", c, d}
<1>1. s \in Seq(S) /\ t \in Seq(S) /\ Len(s) = 4 /\ Len(t) = 4
  <2>1. s \in Seq(S) /\ Len(s) = 4
    OBVIOUS
  <2>2. \A u \in {"00~", "01~", "7u"} : <<"esc", "[", "2", u>> \in Seq(S) /\ Len(<<"esc", "[", "2", u>>) = 4
    OBVIOUS
  <2>3. PICK u \in {"00~", "01~", "7u"} : t = <<"esc", "[", "2", u>>
    BY Longs
  <2> HIDE DEF s, t, S
  <2> QED
    BY <2>1, <2>2, <2>3
<1> HIDE DEF s, t, S
<1>2. ASSUME SubSeq(s, 1, 4) = SubSeq(t, 1, 4) PROVE s = t
  <2>1. \A i \in 1 .. 4 : SubSeq(s, 1, 4)[i] = s[i] /\ SubSeq(t, 1, 4)[i] = t[i]
    BY <1>1
  <2> QED
    BY <1>1, <1>2, <2>1, Extensional
<1>3. ~IsStrictPrefix(s, t)
  BY <1>1, <1>2 DEF IsStrictPrefix, IsPrefix
<1> QED
  BY <1>3 DEF s, t

\* What may still become something is held back.
LEMMA EscapeHeld ==
  ASSUME NEW g \in GateStates, ~g.mouse, NEW byte,
         (g.esc = <<"esc">> /\ byte = "[") \/ (g.esc = <<"esc", "[">> /\ byte = "2")
  PROVE  LET h == ObserveByte(g, byte)
         IN /\ h \in GateStates
            /\ h.esc = Append(g.esc, byte) /\ ~h.mouse /\ h.paste = g.paste /\ h.kitty = g.kitty
            /\ h.guard = g.guard /\ h.dirty = g.dirty /\ h.before = g.before /\ h.prevBefore = g.prevBefore
            /\ h.here = g.here /\ h.active = g.active
<1> DEFINE e == Append(g.esc, byte)
<1>1. e = <<"esc", "[">> \/ e = <<"esc", "[", "2">>
  BY AppendedTwo, AppendedThree
<1>2. Open(e) /\ e \in HeldBytes
  <2> HIDE DEF e
  <2> QED
    BY <1>1, StaysOpen DEF HeldBytes
<1>3. /\ e # Bytes("focus") /\ e # Bytes("paste-on") /\ e # Bytes("paste-off") /\ e # Bytes("kitty-esc")
      /\ e # Csi(<<"<">>)
  <2>1. Len(e) = 2 \/ (Len(e) = 3 /\ e[3] = "2")
    <3>1. Len(<<"esc", "[">>) = 2 /\ Len(<<"esc", "[", "2">>) = 3 /\ <<"esc", "[", "2">>[3] = "2"
      OBVIOUS
    <3> HIDE DEF e
    <3> QED
      BY <1>1, <3>1
  <2> HIDE DEF e
  <2>2. e # Bytes("focus") /\ e # Csi(<<"<">>)
    BY <2>1, Shapes
  <2>3. e # Bytes("paste-on") /\ e # Bytes("paste-off") /\ e # Bytes("kitty-esc")
    BY <2>1, Shapes
  <2> QED
    BY <2>2, <2>3
<1>4. ObserveByte(g, byte) = [[g EXCEPT !.esc = e] EXCEPT !.prev = Prev(byte)]
  <2>1. g.esc # <<>>
    OBVIOUS
  <2> HIDE DEF e
  <2> QED
    BY <1>2, <1>3, <2>1 DEF ObserveByte, WithinEscape, Open, e
<1> HIDE DEF e
<1> QED
  BY <1>2, <1>4, Prevs DEF GateStates, Gates, e

LEMMA MouseBegins ==
  ASSUME NEW g \in GateStates, ~g.mouse, ~g.paste, g.esc = <<"esc", "[">>
  PROVE  LET h == ObserveByte(g, "<")
         IN /\ h \in GateStates
            /\ h.esc = <<"esc", "[", "<">> /\ h.mouse /\ h.paste = g.paste /\ h.kitty = g.kitty
            /\ h.guard = g.guard /\ h.dirty = g.dirty /\ h.before = g.before /\ h.prevBefore = g.prevBefore
            /\ h.here = g.here /\ h.active = g.active
<1> DEFINE e == <<"esc", "[", "<">>
<1>1. /\ Append(g.esc, "<") = e /\ Csi(<<"<">>) = e /\ e \in HeldBytes
      /\ e # Bytes("focus") /\ e # Bytes("paste-on") /\ e # Bytes("paste-off") /\ e # Bytes("kitty-esc")
  <2>1. Append(g.esc, "<") = e
    BY AppendedTwo, AppendedThree
  <2>2. Csi(<<"<">>) = e
    BY Wholes
  <2>3. Len(e) = 3 /\ e[3] = "<"
    OBVIOUS
  <2>4. e \in HeldBytes
    BY DEF HeldBytes
  <2> HIDE DEF e
  <2> QED
    BY <2>1, <2>2, <2>3, <2>4, Shapes
<1>2. ~Open(e)
  BY ClosedByThree
<1>3. ObserveByte(g, "<") = [[[g EXCEPT !.esc = e] EXCEPT !.prev = Prev("<")] EXCEPT !.mouse = TRUE]
  <2>1. g.esc # <<>>
    OBVIOUS
  <2> HIDE DEF e
  <2> QED
    BY <1>1, <1>2, <2>1 DEF ObserveByte, WithinEscape, Open
<1> HIDE DEF e
<1>4. /\ ObserveByte(g, "<") \in GateStates
      /\ ObserveByte(g, "<").esc = e
  BY <1>1, <1>3, Prevs, ZenonT(60) DEF GateStates, Gates
<1> QED
  BY <1>1, <1>3, <1>4, Prevs DEF GateStates, Gates, e

\* A report of the focus within one read, and a report of the mouse: as if
\* they had never come.
LEMMA Restoring ==
  ASSUME NEW g \in GateStates
  PROVE  LET h == Restored(g)
         IN /\ h \in GateStates
            /\ h.esc = <<>> /\ ~h.mouse /\ h.paste = g.paste /\ h.kitty = g.kitty
            /\ h.guard = g.guard /\ h.dirty = g.before /\ h.prev = g.prevBefore
            /\ h.here = g.here /\ h.active = g.active
BY DEF Restored, GateStates, Gates, HeldBytes

LEMMA FocusPasses ==
  ASSUME NEW g \in GateStates, g.esc = <<"esc", "[">>, g.here, ~g.mouse
  PROVE  ObserveByte(g, "I") = Restored(g)
<1> DEFINE e == <<"esc", "[", "I">>
<1>1. Append(g.esc, "I") = e
  BY AppendedTwo, AppendedThree
<1>2. e = Bytes("focus")
  BY Wholes
<1>3. Len(e) = 3 /\ e[3] = "I" /\ g.esc # <<>>
  OBVIOUS
<1>4. ~Open(e)
  BY ClosedByThree
<1> HIDE DEF e
<1>5. /\ e # Bytes("paste-on") /\ e # Bytes("paste-off") /\ e # Bytes("kitty-esc") /\ e # Csi(<<"<">>)
      /\ e # Bytes("mouse")
  BY <1>3, Shapes
<1> QED
  BY <1>1, <1>2, <1>3, <1>4, <1>5 DEF ObserveByte, WithinEscape, Open

LEMMA MousePasses ==
  ASSUME NEW g \in GateStates, g.esc = <<"esc", "[", "<">>, g.mouse
  PROVE  ObserveByte(g, "0M") = Restored(g)
<1> DEFINE e == <<"esc", "[", "<", "0M">>
<1>1. Append(g.esc, "0M") = e
  BY AppendedFour
<1>2. e = Bytes("mouse")
  BY Wholes
<1>3. Len(e) = 4 /\ e[3] = "<" /\ g.esc # <<>>
  OBVIOUS
<1>4. ~Open(e)
  BY ClosedByFour
<1> HIDE DEF e
<1>5. /\ e # Bytes("paste-on") /\ e # Bytes("paste-off") /\ e # Bytes("kitty-esc") /\ e # Csi(<<"<">>)
      /\ e # Bytes("focus")
  BY <1>3, Shapes
<1>6. ~IsStrictPrefix(e, Bytes("mouse"))
  BY <1>2 DEF IsStrictPrefix
<1> QED
  BY <1>1, <1>2, <1>3, <1>4, <1>5, <1>6 DEF ObserveByte, WithinEscape, Open

LEMMA PasteMarks ==
  ASSUME NEW g \in GateStates, ~g.mouse, g.esc = <<"esc", "[", "2">>, NEW byte \in {"00~", "01~"}
  PROVE  LET h == ObserveByte(g, byte)
         IN /\ h \in GateStates
            /\ h.esc = <<>> /\ ~h.mouse /\ (h.paste <=> byte = "00~") /\ ~h.kitty
            /\ h.guard = g.guard /\ h.dirty /\ h.here = g.here /\ h.active
<1> DEFINE e == <<"esc", "[", "2", byte>>
           on == byte = "00~"
           f == [[[g EXCEPT !.esc = <<>>] EXCEPT !.dirty = TRUE] EXCEPT !.active = TRUE]
<1>1. Append(g.esc, byte) = e /\ g.esc # <<>>
  BY AppendedFour
<1>2. Len(e) = 4 /\ e[3] = "2" /\ e[4] = byte
  OBVIOUS
<1>3. IF on THEN e = Bytes("paste-on") ELSE e = Bytes("paste-off")
  BY Wholes
<1> HIDE DEF e
<1>4. /\ e # Bytes("focus") /\ e # Bytes("kitty-esc") /\ e # Csi(<<"<">>)
  BY <1>2, Shapes
<1>9. ~Open(e)
  BY ClosedByFour DEF e
<1>5. /\ e = Bytes("paste-on") <=> on
      /\ e = Bytes("paste-off") <=> ~on
  BY <1>2, <1>3, Shapes
<1>6. ObserveByte(g, byte) = [f EXCEPT !.paste = on, !.kitty = FALSE]
  <2> HIDE DEF on, f
  <2>1. CASE on
    <3>1. ObserveByte(g, byte) = [f EXCEPT !.paste = TRUE, !.kitty = FALSE]
      BY <1>1, <1>4, <1>5, <1>9, <2>1 DEF ObserveByte, WithinEscape, Open, Active, Dirty, f
    <3>2. on = TRUE
      BY <2>1 DEF on
    <3> QED
      BY <3>1, <3>2
  <2>2. CASE ~on
    <3>1. ObserveByte(g, byte) = [f EXCEPT !.paste = FALSE, !.kitty = FALSE]
      BY <1>1, <1>4, <1>5, <1>9, <2>2 DEF ObserveByte, WithinEscape, Open, Active, Dirty, f
    <3>2. on = FALSE
      BY <2>2 DEF on
    <3> QED
      BY <3>1, <3>2
  <2> QED
    BY <2>1, <2>2
<1>7. on \in BOOLEAN
  OBVIOUS
<1>8. /\ f \in GateStates /\ f.esc = <<>> /\ f.mouse = g.mouse /\ f.guard = g.guard /\ f.dirty
      /\ f.here = g.here /\ f.active
  BY DEF GateStates, Gates, HeldBytes
<1> HIDE DEF f
<1> QED
  <2> DEFINE h == [f EXCEPT !.paste = on, !.kitty = FALSE]
  <2>1. /\ h \in GateStates /\ h.paste = on
        /\ h.esc = <<>> /\ h.mouse = g.mouse /\ h.guard = g.guard /\ h.dirty
        /\ h.here = g.here /\ h.active
    <3> HIDE DEF on
    <3> QED
      BY <1>7, <1>8 DEF GateStates, Gates
  <2>2. ~h.kitty
    <3> HIDE DEF on
    <3> QED
      BY <1>8 DEF GateStates, Gates
  <2> HIDE DEF h
  <2> QED
    BY <1>6, <2>1, <2>2 DEF h

LEMMA KittyEscape ==
  ASSUME NEW g \in GateStates, ~g.mouse, g.esc = <<"esc", "[", "2">>
  PROVE  LET h == ObserveByte(g, "7u")
         IN /\ h \in GateStates
            /\ h.esc = <<>> /\ ~h.mouse /\ h.paste = g.paste /\ (h.kitty <=> ~g.kitty)
            /\ (h.guard <=> g.guard \/ g.kitty) /\ h.dirty /\ h.here = g.here /\ h.active
<1> DEFINE e == <<"esc", "[", "2", "7u">>
           f == [[[g EXCEPT !.esc = <<>>] EXCEPT !.dirty = TRUE] EXCEPT !.active = TRUE]
           guards == g.guard \/ g.kitty
           odd == ~g.kitty
<1>1. Append(g.esc, "7u") = e /\ g.esc # <<>>
  BY AppendedFour
<1>2. Len(e) = 4 /\ e[3] = "2" /\ e[4] = "7u" /\ ~Open(e)
  BY ClosedByFour
<1>3. e = Bytes("kitty-esc")
  BY Wholes
<1> HIDE DEF e
<1>4. e # Bytes("focus") /\ e # Bytes("paste-on") /\ e # Bytes("paste-off") /\ e # Csi(<<"<">>)
  BY <1>2, Shapes
<1>5. /\ f \in GateStates /\ f.esc = <<>> /\ f.mouse = g.mouse /\ f.guard = g.guard /\ f.dirty
      /\ f.here = g.here /\ f.active /\ f.paste = g.paste /\ f.kitty = g.kitty
  BY DEF GateStates, Gates, HeldBytes
<1>6. ObserveByte(g, "7u") = [f EXCEPT !.guard = guards, !.kitty = odd]
  <2>1. ObserveByte(g, "7u") = [f EXCEPT !.guard = @ \/ g.kitty, !.kitty = ~g.kitty]
    <3> HIDE DEF f
    <3> QED
      BY <1>1, <1>2, <1>3, <1>4 DEF ObserveByte, WithinEscape, Open, Active, Dirty, f
  <2> HIDE DEF f
  <2> QED
    BY <1>5, <2>1
<1>7. guards \in BOOLEAN /\ odd \in BOOLEAN
  OBVIOUS
<1> DEFINE h == [f EXCEPT !.guard = guards, !.kitty = odd]
<1>8. /\ h \in GateStates /\ h.guard = guards /\ h.kitty = odd
      /\ h.esc = <<>> /\ h.mouse = g.mouse /\ h.paste = g.paste /\ h.dirty
      /\ h.here = g.here /\ h.active
  <2> HIDE DEF guards, odd, f
  <2> QED
    BY <1>5, <1>7 DEF GateStates, Gates
<1> HIDE DEF h
<1> QED
  BY <1>6, <1>8 DEF h

-----------------------------------------------------------------------------
(* The keys and reports, byte by byte. *)

LEMMA TupleAt ==
  ASSUME NEW a, NEW b, NEW c, NEW d
  PROVE  /\ Len(<<a>>) = 1 /\ <<a>>[1] = a
         /\ Len(<<a, b>>) = 2 /\ <<a, b>>[1] = a /\ <<a, b>>[2] = b
         /\ Len(<<a, b, c>>) = 3 /\ <<a, b, c>>[1] = a /\ <<a, b, c>>[2] = b /\ <<a, b, c>>[3] = c
         /\ Len(<<a, b, c, d>>) = 4 /\ <<a, b, c, d>>[1] = a /\ <<a, b, c, d>>[2] = b
         /\ <<a, b, c, d>>[3] = c /\ <<a, b, c, d>>[4] = d
OBVIOUS

Plain == {"text", "backslash", "enter", "control"}
PlainByteOf(kind) ==
  IF kind = "text" THEN "a" ELSE IF kind = "backslash" THEN "\\" ELSE IF kind = "enter" THEN "cr" ELSE "ctrl"
ThirdOf(kind) ==
  IF kind = "arrow" THEN "A" ELSE IF kind = "focus" THEN "I" ELSE IF kind = "reply" THEN "?"
  ELSE IF kind = "mouse" THEN "<" ELSE "2"
FourthOf(kind) ==
  IF kind = "reply" THEN "c" ELSE IF kind = "mouse" THEN "0M" ELSE IF kind = "kitty-esc" THEN "7u"
  ELSE IF kind = "paste-on" THEN "00~" ELSE "01~"
LengthOf(kind) ==
  IF kind \in Plain \cup {"escape"} THEN 1
  ELSE IF kind = "alt-enter" THEN 2
  ELSE IF kind \in {"arrow", "focus"} THEN 3 ELSE 4

LEMMA KeyTable ==
  ASSUME NEW kind \in AllKinds
  PROVE  /\ kind \in Plain => Bytes(kind) = <<PlainByteOf(kind)>>
         /\ kind = "escape" => Bytes(kind) = <<"esc">>
         /\ kind = "alt-enter" => Bytes(kind) = <<"esc", "cr">>
         /\ LengthOf(kind) = 3 => Bytes(kind) = <<"esc", "[", ThirdOf(kind)>>
         /\ LengthOf(kind) = 4 => Bytes(kind) = <<"esc", "[", ThirdOf(kind), FourthOf(kind)>>
         /\ LengthOf(kind) = 1 => kind \in Plain \cup {"escape"}
         /\ LengthOf(kind) = 2 => kind = "alt-enter"
         /\ LengthOf(kind) \in 1 .. 4
<1>1. kind \in Plain => Bytes(kind) = <<PlainByteOf(kind)>>
  BY KeyBytes DEF Plain, PlainByteOf
<1>2. /\ kind = "escape" => Bytes(kind) = <<"esc">>
      /\ kind = "alt-enter" => Bytes(kind) = <<"esc", "cr">>
  BY KeyBytes
<1>3. LengthOf(kind) = 3 => Bytes(kind) = <<"esc", "[", ThirdOf(kind)>>
  BY KeyBytes DEF LengthOf, ThirdOf, Plain
<1>4. LengthOf(kind) = 4 => kind \in {"reply", "mouse", "kitty-esc", "paste-on", "paste-off"}
  BY DEF LengthOf, AllKinds, Plain
<1>5. kind \in {"reply", "mouse", "kitty-esc", "paste-on", "paste-off"}
        => Bytes(kind) = <<"esc", "[", ThirdOf(kind), FourthOf(kind)>>
  BY KeyBytes DEF ThirdOf, FourthOf
<1>6. /\ LengthOf(kind) = 1 => kind \in Plain \cup {"escape"}
      /\ LengthOf(kind) = 2 => kind = "alt-enter"
      /\ LengthOf(kind) \in 1 .. 4
  BY DEF LengthOf
<1> QED
  BY <1>1, <1>2, <1>3, <1>4, <1>5, <1>6

LEMMA KeyLength ==
  ASSUME NEW kind \in AllKinds
  PROVE  Len(Bytes(kind)) = LengthOf(kind)
<1>1. LengthOf(kind) \in {1, 2, 3, 4}
  BY DEF LengthOf
<1>2. CASE LengthOf(kind) = 1
  BY <1>2, KeyTable, TupleAt
<1>3. CASE LengthOf(kind) = 2
  BY <1>3, KeyTable, TupleAt
<1>4. CASE LengthOf(kind) = 3
  BY <1>4, KeyTable, TupleAt
<1>5. CASE LengthOf(kind) = 4
  BY <1>5, KeyTable, TupleAt
<1> QED
  BY <1>1, <1>2, <1>3, <1>4, <1>5

LEMMA KeyAt ==
  ASSUME NEW kind \in AllKinds
  PROVE  /\ Bytes(kind)[1] = IF kind \in Plain THEN PlainByteOf(kind) ELSE "esc"
         /\ LengthOf(kind) > 1 => Bytes(kind)[2] = IF kind = "alt-enter" THEN "cr" ELSE "["
         /\ LengthOf(kind) > 2 => Bytes(kind)[3] = ThirdOf(kind)
         /\ LengthOf(kind) > 3 => Bytes(kind)[4] = FourthOf(kind)
<1>1. LengthOf(kind) \in {1, 2, 3, 4}
  BY DEF LengthOf
<1>2. CASE LengthOf(kind) = 1
  BY <1>2, KeyTable, TupleAt
<1>3. CASE LengthOf(kind) = 2
  BY <1>3, KeyTable, TupleAt DEF Plain
<1>4. CASE LengthOf(kind) = 3
  BY <1>4, KeyTable, TupleAt DEF LengthOf
<1>5. CASE LengthOf(kind) = 4
  BY <1>5, KeyTable, TupleAt DEF LengthOf
<1> QED
  BY <1>1, <1>2, <1>3, <1>4, <1>5

-----------------------------------------------------------------------------
(* The gate and the line. *)

LineStates == [text : BOOLEAN, menu : BOOLEAN, slash : BOOLEAN, paste : BOOLEAN, esc : BOOLEAN]

\* What a key does to the line, as far as the gate must know.
LEMMA PressedIs ==
  ASSUME NEW l \in LineStates, NEW kind \in AllKinds, NEW m \in Pressed(l, kind)
  PROVE  /\ m \in LineStates
         /\ kind \in Silent => m = l
         /\ kind \notin Silent =>
              /\ m.slash => kind = "backslash"
              /\ m.esc => kind \in {"escape", "kitty-esc"}
              /\ IF kind \in {"paste-on", "paste-off"} THEN m.paste <=> kind = "paste-on" ELSE m.paste <=> l.paste
         /\ kind \in {"text", "backslash", "alt-enter", "enter", "paste-on", "paste-off"} => (m.menu => l.menu)
         /\ kind \in {"escape", "kitty-esc"} => (m.menu => l.menu \/ l.esc) /\ (m.text => l.text)
         /\ kind \in {"paste-on", "paste-off"} => (m.text => l.text)
         /\ kind = "enter" /\ ~l.paste => ~m.menu /\ (m.text => l.slash \/ l.menu)
<1>1. CASE kind \in Silent
  <2>1. m = l
    BY <1>1 DEF Pressed
  <2> QED
    BY <1>1, <2>1 DEF Silent
<1>2. CASE kind \notin Silent
  <2>1. m \in [text : Texts(l, kind), menu : Menus(l, kind),
               paste : {kind = "paste-on" \/ (l.paste /\ kind # "paste-off")},
               slash : {kind = "backslash"}, esc : {kind \in {"escape", "kitty-esc"}}]
    BY <1>2 DEF Pressed
  <2>2. Texts(l, kind) \in SUBSET BOOLEAN /\ Menus(l, kind) \in SUBSET BOOLEAN
    BY <1>2 DEF Texts, Menus, LineStates, AllKinds, Silent
  <2>3. m \in LineStates
    BY <2>1, <2>2 DEF LineStates
  <2>4. /\ m.slash => kind = "backslash"
        /\ m.esc => kind \in {"escape", "kitty-esc"}
        /\ IF kind \in {"paste-on", "paste-off"} THEN m.paste <=> kind = "paste-on" ELSE m.paste <=> l.paste
    BY <2>1
  <2>5. m.text \in Texts(l, kind) /\ m.menu \in Menus(l, kind)
    BY <2>1
  <2>6. /\ kind \in {"text", "backslash", "alt-enter", "enter", "paste-on", "paste-off"} => (m.menu => l.menu)
        /\ kind \in {"escape", "kitty-esc"} => (m.menu => l.menu \/ l.esc)
        /\ kind = "enter" /\ ~l.paste => ~m.menu
    BY <2>5 DEF Menus, LineStates
  <2>7. /\ kind \in {"escape", "kitty-esc"} => (m.text => l.text)
        /\ kind \in {"paste-on", "paste-off"} => (m.text => l.text)
        /\ kind = "enter" /\ ~l.paste => (m.text => l.slash \/ l.menu)
    BY <2>5 DEF Texts, LineStates
  <2> QED
    BY <1>2, <2>3, <2>4, <2>6, <2>7
<1> QED
  BY <1>1, <1>2

\* What the gate must know of the line: a paste; whether it is empty, once
\* `dirty` says so; a menu, which makes the next Enter worthless; a backslash
\* that makes it a newline; a first Escape.
Agrees(g, l, dirty, prev) ==
  /\ g.paste <=> l.paste
  /\ g.paste \/ g.guard \/ l.text => dirty
  /\ l.menu => g.guard
  /\ l.slash => prev = "\\" \/ g.guard
  /\ l.esc => g.guard \/ g.kitty

\* Between two keys. The Escape key is held back like the beginning of others.
BetweenKeys(g, l) ==
  /\ ~g.mouse
  /\ \/ g.esc = <<>> /\ Agrees(g, l, g.dirty, g.prev)
     \/ g.esc = <<"esc">> /\ g.dirty /\ ~g.paste /\ ~l.paste /\ ~l.slash

HeldAt(k, j) ==
  IF j = 1 THEN <<"esc">> ELSE IF j = 2 THEN <<"esc", "[">>
  ELSE IF k = "mouse" THEN <<"esc", "[", "<">> ELSE <<"esc", "[", "2">>

\* After j bytes of k: they are held back, or already taken for something else.
WithinKey(g, l, k, j) ==
  /\ g.dirty
  /\ \/ /\ ~(k = "reply" /\ j = 3)
        /\ g.esc = HeldAt(k, j) /\ (g.mouse <=> k = "mouse" /\ j = 3)
        /\ Agrees(g, l, g.before, g.prevBefore)
     \/ /\ k \in {"reply", "mouse"} /\ j = 3
        /\ g.esc = <<>> /\ ~g.mouse /\ g.guard
        /\ Agrees(g, l, g.dirty, g.prev)

InStep(g, l, k, j) == IF k = "none" THEN BetweenKeys(g, l) ELSE WithinKey(g, l, k, j)

\* As long as nothing counts as typed the line is what it was when the read
\* began, in half of k0, or an Escape has just come.
Idle(g, l, k, l0, k0) ==
  ~g.active =>
    \/ l = l0 /\ (k0 \in {"none", "mouse"} \/ (k = k0 /\ ~g.here))
    \/ k = "none" /\ g.esc = <<"esc">>

\* The key that the harness has half of after j bytes of k, and its line.
HalfOf(k, j) == IF j = Len(Bytes(k)) THEN "none" ELSE k
LinesOf(l, k, j) == IF j = Len(Bytes(k)) THEN Pressed(l, k) ELSE {l}

Follows(h, m, k, j, l0, k0) ==
  /\ h \in GateStates /\ m \in LineStates
  /\ InStep(h, m, HalfOf(k, j), j)
  /\ Idle(h, m, HalfOf(k, j), l0, k0)

LEMMA NoneIsNoKind == "none" \notin AllKinds
BY DEF AllKinds

\* A key of one plain byte.
LEMMA PlainKey ==
  ASSUME NEW g \in GateStates, NEW l \in LineStates, BetweenKeys(g, l), NEW l0, NEW k0,
         NEW kind \in Plain, NEW m \in Pressed(l, kind)
  PROVE  Follows(ObserveByte(g, PlainByteOf(kind)), m, kind, 1, l0, k0)
<1> DEFINE byte == PlainByteOf(kind)
           h == ObserveByte(g, byte)
<1>1. kind \in AllKinds /\ kind \notin Silent /\ Len(Bytes(kind)) = 1
  BY KeyLength DEF AllKinds, Plain, Silent, LengthOf
<1>2. /\ byte # "esc" /\ byte # "["
      /\ byte = "cr" <=> kind = "enter"
      /\ byte = "\\" <=> kind = "backslash"
  BY DEF PlainByteOf, Plain
<1>3. /\ m \in LineStates /\ (m.slash => kind = "backslash") /\ ~m.esc /\ (m.paste <=> l.paste)
      /\ kind # "control" => (m.menu => l.menu)
      /\ kind = "enter" /\ ~l.paste => ~m.menu /\ (m.text => l.slash \/ l.menu)
  BY <1>1, PressedIs DEF Plain
<1>4. Prev(byte) = IF kind = "backslash" THEN "\\" ELSE "other"
  BY <1>2 DEF Prev, ESC
<1>5. HalfOf(kind, 1) = "none"
  BY <1>1 DEF HalfOf
<1> SUFFICES /\ h \in GateStates /\ h.active /\ ~h.mouse
             /\ h.esc = <<>> /\ Agrees(h, m, h.dirty, h.prev)
  BY <1>3, <1>5 DEF Follows, InStep, BetweenKeys, Idle
<1> HIDE DEF byte
<1>6. CASE g.esc = <<>> /\ Agrees(g, l, g.dirty, g.prev)
  <2> DEFINE enter == byte = "cr" /\ ~g.paste /\ g.prev = "other"
  <2>1. /\ h \in GateStates
        /\ h.esc = <<>> /\ h.mouse = g.mouse /\ h.paste = g.paste /\ ~h.kitty
        /\ h.prev = Prev(byte) /\ h.here = g.here /\ h.active
        /\ IF enter THEN h.dirty = g.guard /\ ~h.guard
           ELSE h.dirty /\ (h.guard <=> g.guard \/ byte = "ctrl")
    BY <1>2, <1>6, PlainByte
  <2> HIDE DEF h
  <2>2. CASE enter
    BY <1>2, <1>3, <1>6, <2>1, <2>2 DEF Agrees, BetweenKeys
  <2>3. CASE ~enter
    <3>1. kind = "enter" => g.paste \/ g.prev = "\\" \/ g.prev = "esc"
      BY <1>2, <2>3 DEF GateStates, Gates
    <3>2. kind = "control" => byte = "ctrl"
      BY DEF byte, PlainByteOf
    <3> QED
      BY <1>2, <1>3, <1>4, <1>6, <2>1, <2>3, <3>1, <3>2 DEF Agrees, BetweenKeys
  <2> QED
    BY <2>2, <2>3
<1>7. CASE g.esc = <<"esc">> /\ g.dirty /\ ~g.paste /\ ~l.paste /\ ~l.slash
  <2> DEFINE u == FlushUnknown([g EXCEPT !.esc = Append(g.esc, byte)], byte)
  <2>1. h = u
    BY <1>2, <1>7, NoEscape DEF BetweenKeys
  <2>2. /\ u \in GateStates
        /\ u.esc = <<>> /\ ~u.mouse /\ u.paste = g.paste /\ ~u.kitty
        /\ (u.guard <=> g.guard \/ byte # "cr")
        /\ u.dirty /\ u.prev = Prev(byte) /\ u.here = g.here /\ u.active
    <3>1. g.esc = <<"esc">> \/ (g.esc = <<"esc", "[">> /\ byte # "cr")
      BY <1>7
    <3> QED
      BY <1>2, <1>7, <3>1, EscapeFlushed
  <2> HIDE DEF h, u
  <2>3. Agrees(u, m, u.dirty, u.prev)
    BY <1>2, <1>3, <1>4, <1>7, <2>2 DEF Agrees
  <2> QED
    BY <2>1, <2>2, <2>3
<1> QED
  BY <1>6, <1>7 DEF BetweenKeys

\* The escape with which the others begin.
LEMMA EscapeKey ==
  ASSUME NEW g \in GateStates, NEW l \in LineStates, BetweenKeys(g, l), NEW l0, NEW k0,
         Idle(g, l, "none", l0, k0),
         NEW kind \in AllKinds \ Plain, kind = "escape" => ~l.paste, NEW m \in LinesOf(l, kind, 1)
  PROVE  Follows(ObserveByte(g, "esc"), m, kind, 1, l0, k0)
<1> DEFINE h == ObserveByte(g, "esc")
<1>1. /\ kind = "escape" => HalfOf(kind, 1) = "none" /\ LinesOf(l, kind, 1) = Pressed(l, kind)
      /\ kind # "escape" => HalfOf(kind, 1) = kind /\ LinesOf(l, kind, 1) = {l}
  <2>1. Len(Bytes(kind)) = 1 <=> kind = "escape"
    BY KeyLength DEF LengthOf, AllKinds, Plain
  <2> QED
    BY <2>1 DEF HalfOf, LinesOf
<1>2. /\ m \in LineStates
      /\ kind # "escape" => m = l
      /\ kind = "escape" => ~m.slash /\ ~m.paste
  <2>1. CASE kind = "escape"
    <3>1. m \in Pressed(l, kind)
      BY <1>1, <2>1
    <3> QED
      BY <2>1, <3>1, PressedIs DEF Silent
  <2>2. CASE kind # "escape"
    BY <1>1, <2>2
  <2> QED
    BY <2>1, <2>2
<1>3. kind # "none"
  BY NoneIsNoKind
<1> SUFFICES Follows(h, m, kind, 1, l0, k0)
  OBVIOUS
<1>4. CASE g.esc = <<>> /\ Agrees(g, l, g.dirty, g.prev)
  <2>1. /\ h \in GateStates
        /\ h.esc = <<"esc">> /\ ~h.mouse /\ h.paste = g.paste /\ h.kitty = g.kitty
        /\ h.guard = g.guard /\ h.dirty /\ h.before = g.dirty /\ h.prevBefore = g.prev
        /\ h.here /\ h.active = g.active
    BY <1>4, EscapeBegins
  <2>2. ~g.active => l = l0 /\ k0 \in {"none", "mouse"}
    <3>1. g.esc # <<"esc">>
      BY <1>4
    <3> QED
      BY <3>1 DEF Idle
  <2> HIDE DEF h
  <2>3. CASE kind = "escape"
    <3>1. BetweenKeys(h, m)
      BY <1>2, <1>4, <2>1, <2>3 DEF BetweenKeys, Agrees
    <3> QED
      BY <1>1, <1>2, <2>1, <2>3, <3>1 DEF Follows, InStep, Idle
  <2>4. CASE kind # "escape"
    <3>1. WithinKey(h, m, kind, 1)
      <4>1. Agrees(h, m, h.before, h.prevBefore)
        BY <1>2, <1>4, <2>1, <2>4 DEF Agrees
      <4> QED
        BY <2>1, <4>1 DEF WithinKey, HeldAt
    <3> QED
      BY <1>1, <1>2, <1>3, <2>1, <2>2, <2>4, <3>1 DEF Follows, InStep, Idle
  <2> QED
    BY <2>3, <2>4
<1>5. CASE g.esc = <<"esc">> /\ g.dirty /\ ~g.paste /\ ~l.paste /\ ~l.slash
  <2> DEFINE u == FlushUnknown([g EXCEPT !.esc = Append(g.esc, "esc")], "esc")
  <2>1. h = u
    BY <1>5, NoEscape DEF BetweenKeys
  <2>2. /\ u \in GateStates
        /\ u.esc = <<"esc">> /\ ~u.mouse /\ u.paste = g.paste /\ ~u.kitty
        /\ u.guard /\ u.dirty /\ u.before /\ u.prevBefore = "esc"
        /\ u.here /\ u.active
    BY <1>5, EscapeAgain
  <2> HIDE DEF h, u
  <2>3. CASE kind = "escape"
    <3>1. BetweenKeys(u, m)
      BY <1>2, <1>5, <2>2, <2>3 DEF BetweenKeys
    <3> QED
      BY <1>1, <1>2, <2>1, <2>2, <2>3, <3>1 DEF Follows, InStep, Idle
  <2>4. CASE kind # "escape"
    <3>1. WithinKey(u, m, kind, 1)
      <4>1. Agrees(u, m, u.before, u.prevBefore)
        BY <1>2, <1>5, <2>2, <2>4 DEF Agrees
      <4>2. u.esc = <<"esc">> /\ ~u.mouse /\ u.dirty
        BY <2>2
      <4> QED
        BY <4>1, <4>2 DEF WithinKey, HeldAt
    <3> QED
      BY <1>1, <1>2, <1>3, <2>1, <2>2, <2>4, <3>1 DEF Follows, InStep, Idle
  <2> QED
    BY <2>3, <2>4
<1> QED
  BY <1>4, <1>5 DEF BetweenKeys

\* The second byte: the Enter of Alt+Enter, or a bracket.
LEMMA SecondByte ==
  ASSUME NEW g \in GateStates, NEW l \in LineStates, NEW l0, NEW k0,
         NEW kind \in AllKinds, LengthOf(kind) > 1, WithinKey(g, l, kind, 1), Idle(g, l, kind, l0, k0),
         NEW m \in LinesOf(l, kind, 2)
  PROVE  Follows(ObserveByte(g, IF kind = "alt-enter" THEN "cr" ELSE "["), m, kind, 2, l0, k0)
<1>1. kind # "none" /\ (Len(Bytes(kind)) = 2 <=> kind = "alt-enter")
  BY NoneIsNoKind, KeyLength DEF LengthOf, AllKinds, Plain
<1>2. g.esc = <<"esc">> /\ ~g.mouse /\ g.dirty /\ Agrees(g, l, g.before, g.prevBefore)
  BY DEF WithinKey, HeldAt
<1>3. CASE kind = "alt-enter"
  <2> DEFINE h == ObserveByte(g, "cr")
             u == FlushUnknown([g EXCEPT !.esc = Append(g.esc, "cr")], "cr")
  <2>1. h = u
    BY <1>2, NoEscape
  <2>2. /\ u \in GateStates
        /\ u.esc = <<>> /\ ~u.mouse /\ u.paste = g.paste /\ ~u.kitty /\ (u.guard <=> g.guard)
        /\ u.dirty /\ u.active
    BY <1>2, EscapeFlushed
  <2> HIDE DEF u
  <2>3. HalfOf(kind, 2) = "none" /\ m \in Pressed(l, kind)
    BY <1>1, <1>3 DEF HalfOf, LinesOf
  <2>4. m \in LineStates /\ ~m.slash /\ ~m.esc /\ (m.paste <=> l.paste) /\ (m.menu => l.menu)
    BY <1>3, <2>3, PressedIs DEF Silent
  <2>5. BetweenKeys(u, m)
    BY <1>2, <2>2, <2>4 DEF BetweenKeys, Agrees
  <2> HIDE DEF h
  <2>6. Follows(h, m, kind, 2, l0, k0)
    BY <2>1, <2>2, <2>3, <2>4, <2>5 DEF Follows, InStep, Idle
  <2> QED
    BY <1>3, <2>6 DEF h
<1>4. CASE kind # "alt-enter"
  <2> DEFINE h == ObserveByte(g, "[")
  <2>1. /\ h \in GateStates
        /\ h.esc = <<"esc", "[">> /\ ~h.mouse /\ h.paste = g.paste /\ h.kitty = g.kitty
        /\ h.guard = g.guard /\ h.dirty = g.dirty /\ h.before = g.before /\ h.prevBefore = g.prevBefore
        /\ h.here = g.here /\ h.active = g.active
    <3>1. Append(g.esc, "[") = <<"esc", "[">>
      BY <1>2, AppendedTwo
    <3> QED
      BY <1>2, <3>1, EscapeHeld
  <2> HIDE DEF h
  <2>2. HalfOf(kind, 2) = kind /\ m = l
    BY <1>1, <1>4 DEF HalfOf, LinesOf
  <2>3. WithinKey(h, m, kind, 2)
    <3>1. Agrees(h, m, h.before, h.prevBefore)
      BY <1>2, <2>1, <2>2 DEF Agrees
    <3> QED
      BY <1>2, <2>1, <3>1 DEF WithinKey, HeldAt
  <2>4. Idle(h, m, kind, l0, k0)
    BY <1>1, <2>1, <2>2 DEF Idle
  <2>5. Follows(h, m, kind, 2, l0, k0)
    BY <1>1, <2>1, <2>2, <2>3, <2>4 DEF Follows, InStep
  <2> QED
    BY <1>4, <2>5 DEF h
<1> QED
  BY <1>3, <1>4

\* The third tells most of them.
LEMMA ThirdByte ==
  ASSUME NEW g \in GateStates, NEW l \in LineStates, NEW l0, NEW k0,
         NEW kind \in AllKinds, LengthOf(kind) > 2, WithinKey(g, l, kind, 2), Idle(g, l, kind, l0, k0),
         NEW m \in LinesOf(l, kind, 3)
  PROVE  Follows(ObserveByte(g, ThirdOf(kind)), m, kind, 3, l0, k0)
<1> DEFINE byte == ThirdOf(kind)
           h == ObserveByte(g, byte)
<1> SUFFICES Follows(h, m, kind, 3, l0, k0)
  OBVIOUS
<1>1. /\ kind # "none" /\ kind \in {"arrow", "focus", "reply", "mouse", "kitty-esc", "paste-on", "paste-off"}
      /\ Len(Bytes(kind)) = 3 <=> kind \in {"arrow", "focus"}
  BY NoneIsNoKind, KeyLength DEF LengthOf, AllKinds, Plain
<1>2. g.esc = <<"esc", "[">> /\ ~g.mouse /\ g.dirty /\ Agrees(g, l, g.before, g.prevBefore)
  BY DEF WithinKey, HeldAt
<1>3. /\ byte # "esc" /\ byte # "cr"
      /\ byte = "2" <=> kind \in {"kitty-esc", "paste-on", "paste-off"}
      /\ byte = "I" <=> kind = "focus"
      /\ byte = "<" <=> kind = "mouse"
  BY <1>1 DEF ThirdOf
<1>4. /\ kind \in {"arrow", "focus"} => HalfOf(kind, 3) = "none" /\ m \in Pressed(l, kind)
      /\ kind \notin {"arrow", "focus"} => HalfOf(kind, 3) = kind /\ m = l
  BY <1>1 DEF HalfOf, LinesOf
<1>5. /\ m \in LineStates
      /\ kind = "arrow" => ~m.slash /\ ~m.esc /\ (m.paste <=> l.paste)
      /\ kind # "arrow" => m = l
  <2>1. CASE kind = "arrow"
    BY <1>4, <2>1, PressedIs DEF Silent
  <2>2. CASE kind = "focus"
    BY <1>4, <2>2, PressedIs DEF Silent
  <2>3. CASE kind \notin {"arrow", "focus"}
    BY <1>4, <2>3
  <2> QED
    BY <2>1, <2>2, <2>3
<1> HIDE DEF byte
<1>6. CASE kind \in {"arrow", "reply"} \/ (kind = "focus" /\ ~g.here) \/ (kind = "mouse" /\ g.paste)
  <2> DEFINE u == FlushUnknown([g EXCEPT !.esc = Append(g.esc, byte)], byte)
  <2>1. h = u
    BY <1>2, <1>3, <1>6, NoEscape
  <2>2. /\ u \in GateStates
        /\ u.esc = <<>> /\ ~u.mouse /\ u.paste = g.paste /\ ~u.kitty /\ u.guard
        /\ u.dirty /\ u.active
    <3>1. g.esc # <<"esc">>
      BY <1>2
    <3> QED
      BY <1>2, <1>3, <3>1, EscapeFlushed
  <2> HIDE DEF u, h
  <2>3. Agrees(u, m, u.dirty, u.prev)
    BY <1>2, <1>5, <2>2 DEF Agrees
  <2>4. kind \in {"arrow", "focus"} => BetweenKeys(u, m)
    <3>1. u.esc = <<>> /\ ~u.mouse
      BY <2>2
    <3> QED
      BY <2>3, <3>1 DEF BetweenKeys
  <2>5. kind \in {"reply", "mouse"} => WithinKey(u, m, kind, 3)
    BY <2>2, <2>3 DEF WithinKey
  <2>6. InStep(u, m, HalfOf(kind, 3), 3)
    BY <1>1, <1>4, <1>6, <2>4, <2>5 DEF InStep
  <2> QED
    BY <1>5, <2>1, <2>2, <2>6 DEF Follows, Idle
<1>7. CASE kind = "focus" /\ g.here
  <2> DEFINE u == Restored(g)
  <2>1. h = u
    BY <1>2, <1>3, <1>7, FocusPasses
  <2>2. /\ u \in GateStates
        /\ u.esc = <<>> /\ ~u.mouse /\ u.paste = g.paste /\ u.kitty = g.kitty
        /\ u.guard = g.guard /\ u.dirty = g.before /\ u.prev = g.prevBefore
        /\ u.here = g.here /\ u.active = g.active
    BY Restoring
  <2> HIDE DEF u, h
  <2>3. Agrees(u, m, u.dirty, u.prev)
    BY <1>2, <1>5, <1>7, <2>2 DEF Agrees
  <2>4. InStep(u, m, "none", 3)
    BY <2>2, <2>3 DEF InStep, BetweenKeys
  <2>5. Idle(u, m, "none", l0, k0)
    <3>1. ~g.active => l = l0 /\ k0 \in {"none", "mouse"}
      BY <1>1, <1>7 DEF Idle
    <3> QED
      BY <1>5, <1>7, <2>2, <3>1 DEF Idle
  <2> QED
    BY <1>4, <1>5, <1>7, <2>1, <2>2, <2>4, <2>5 DEF Follows
<1>8. CASE kind = "mouse" /\ ~g.paste
  <2>1. /\ h \in GateStates
        /\ h.esc = <<"esc", "[", "<">> /\ h.mouse /\ h.paste = g.paste /\ h.kitty = g.kitty
        /\ h.guard = g.guard /\ h.dirty = g.dirty /\ h.before = g.before /\ h.prevBefore = g.prevBefore
        /\ h.here = g.here /\ h.active = g.active
    <3>1. byte = "<"
      BY <1>3, <1>8
    <3> QED
      BY <1>2, <1>8, <3>1, MouseBegins
  <2> HIDE DEF h
  <2>2. Agrees(h, m, h.before, h.prevBefore)
    BY <1>2, <1>5, <1>8, <2>1 DEF Agrees
  <2>3. WithinKey(h, m, kind, 3)
    BY <1>2, <1>8, <2>1, <2>2 DEF WithinKey, HeldAt
  <2>4. Idle(h, m, kind, l0, k0)
    BY <1>1, <1>5, <1>8, <2>1 DEF Idle
  <2> QED
    BY <1>1, <1>4, <1>5, <1>8, <2>1, <2>3, <2>4 DEF Follows, InStep
<1>9. CASE kind \in {"kitty-esc", "paste-on", "paste-off"}
  <2>1. /\ h \in GateStates
        /\ h.esc = <<"esc", "[", "2">> /\ ~h.mouse /\ h.paste = g.paste /\ h.kitty = g.kitty
        /\ h.guard = g.guard /\ h.dirty = g.dirty /\ h.before = g.before /\ h.prevBefore = g.prevBefore
        /\ h.here = g.here /\ h.active = g.active
    <3>1. byte = "2" /\ Append(g.esc, "2") = <<"esc", "[", "2">>
      BY <1>2, <1>3, <1>9, AppendedThree
    <3> QED
      BY <1>2, <3>1, EscapeHeld
  <2> HIDE DEF h
  <2>2. Agrees(h, m, h.before, h.prevBefore)
    BY <1>2, <1>5, <1>9, <2>1 DEF Agrees
  <2>3. WithinKey(h, m, kind, 3)
    BY <1>2, <1>9, <2>1, <2>2 DEF WithinKey, HeldAt
  <2>4. Idle(h, m, kind, l0, k0)
    BY <1>1, <1>5, <1>9, <2>1 DEF Idle
  <2> QED
    BY <1>1, <1>4, <1>5, <1>9, <2>1, <2>3, <2>4 DEF Follows, InStep
<1> QED
  BY <1>1, <1>6, <1>7, <1>8, <1>9

\* The fourth ends the rest.
LEMMA FourthByte ==
  ASSUME NEW g \in GateStates, NEW l \in LineStates, NEW l0, NEW k0,
         NEW kind \in AllKinds, LengthOf(kind) > 3, WithinKey(g, l, kind, 3), Idle(g, l, kind, l0, k0),
         NEW m \in LinesOf(l, kind, 4)
  PROVE  Follows(ObserveByte(g, FourthOf(kind)), m, kind, 4, l0, k0)
<1> DEFINE byte == FourthOf(kind)
           h == ObserveByte(g, byte)
<1> SUFFICES Follows(h, m, kind, 4, l0, k0)
  OBVIOUS
<1>1. /\ kind # "none" /\ kind \in {"reply", "mouse", "kitty-esc", "paste-on", "paste-off"}
      /\ Len(Bytes(kind)) = 4
  BY NoneIsNoKind, KeyLength DEF LengthOf, AllKinds, Plain
<1>2. HalfOf(kind, 4) = "none" /\ m \in Pressed(l, kind)
  BY <1>1 DEF HalfOf, LinesOf
<1>3. /\ m \in LineStates
      /\ kind \in {"reply", "mouse"} => m = l
      /\ kind \notin {"reply", "mouse"} =>
           /\ ~m.slash /\ (m.esc => kind = "kitty-esc") /\ (m.text => l.text)
           /\ IF kind = "kitty-esc" THEN m.paste <=> l.paste ELSE m.paste <=> kind = "paste-on"
           /\ m.menu => l.menu \/ (kind = "kitty-esc" /\ l.esc)
  BY <1>1, <1>2, PressedIs DEF Silent
<1> SUFFICES /\ h \in GateStates /\ ~h.mouse /\ h.esc = <<>> /\ Agrees(h, m, h.dirty, h.prev)
             /\ Idle(h, m, "none", l0, k0)
  BY <1>2, <1>3 DEF Follows, InStep, BetweenKeys
<1>9. HeldAt(kind, 3) = IF kind = "mouse" THEN <<"esc", "[", "<">> ELSE <<"esc", "[", "2">>
  BY DEF HeldAt
<1>10. HeldAt(kind, 3) # <<>>
  <2>1. <<"esc", "[", "<">> # <<>> /\ <<"esc", "[", "2">> # <<>>
    OBVIOUS
  <2> QED
    BY <1>9, <2>1, Zenon
<1>11. \/ /\ g.esc = HeldAt(kind, 3) /\ kind # "reply" /\ (g.mouse <=> kind = "mouse")
          /\ Agrees(g, l, g.before, g.prevBefore)
       \/ /\ g.esc = <<>> /\ kind \in {"reply", "mouse"} /\ ~g.mouse /\ g.guard
          /\ Agrees(g, l, g.dirty, g.prev)
  BY DEF WithinKey
<1>4. CASE kind \in {"reply", "mouse"} /\ g.esc = <<>>
  <2>1. ~g.mouse /\ g.guard /\ Agrees(g, l, g.dirty, g.prev)
    BY <1>4, <1>10, <1>11
  <2>2. byte # "esc" /\ byte # "cr" /\ Prev(byte) = "other"
    BY <1>4 DEF FourthOf, Prev, ESC
  <2> HIDE DEF byte
  <2>3. /\ h \in GateStates
        /\ h.esc = <<>> /\ h.mouse = g.mouse /\ h.paste = g.paste /\ ~h.kitty
        /\ h.active /\ h.dirty /\ h.guard
    BY <1>4, <2>1, <2>2, PlainByte
  <2> HIDE DEF h
  <2>4. Agrees(h, m, h.dirty, h.prev)
    BY <1>3, <1>4, <2>1, <2>3 DEF Agrees
  <2> QED
    BY <2>1, <2>3, <2>4 DEF Idle
<1>5. CASE kind = "mouse" /\ g.esc # <<>>
  <2>1. g.esc = <<"esc", "[", "<">> /\ g.mouse /\ Agrees(g, l, g.before, g.prevBefore)
    BY <1>5, <1>9, <1>11
  <2> DEFINE u == Restored(g)
  <2>2. h = u
    BY <1>5, <2>1, MousePasses DEF FourthOf
  <2>3. /\ u \in GateStates
        /\ u.esc = <<>> /\ ~u.mouse /\ u.paste = g.paste /\ u.kitty = g.kitty
        /\ u.guard = g.guard /\ u.dirty = g.before /\ u.prev = g.prevBefore
        /\ u.here = g.here /\ u.active = g.active
    BY Restoring
  <2> HIDE DEF u, h
  <2>4. Agrees(u, m, u.dirty, u.prev)
    BY <1>3, <1>5, <2>1, <2>3 DEF Agrees
  <2>5. Idle(u, m, "none", l0, k0)
    <3>1. ~g.active => l = l0 /\ k0 \in {"none", "mouse"}
      BY <1>1, <1>5 DEF Idle
    <3> QED
      BY <1>3, <1>5, <2>3, <3>1 DEF Idle
  <2> QED
    BY <2>2, <2>3, <2>4, <2>5
<1>6. CASE kind \in {"paste-on", "paste-off"}
  <2>1. g.esc = <<"esc", "[", "2">> /\ ~g.mouse /\ Agrees(g, l, g.before, g.prevBefore)
    BY <1>6, <1>9, <1>11
  <2>2. byte \in {"00~", "01~"} /\ (byte = "00~" <=> kind = "paste-on")
    BY <1>6 DEF FourthOf
  <2> HIDE DEF byte
  <2>3. /\ h \in GateStates
        /\ h.esc = <<>> /\ ~h.mouse /\ (h.paste <=> byte = "00~") /\ ~h.kitty
        /\ h.guard = g.guard /\ h.dirty /\ h.here = g.here /\ h.active
    BY <2>1, <2>2, PasteMarks
  <2> HIDE DEF h
  <2>4. Agrees(h, m, h.dirty, h.prev)
    BY <1>3, <1>6, <2>1, <2>2, <2>3 DEF Agrees
  <2> QED
    BY <2>3, <2>4 DEF Idle
<1>7. CASE kind = "kitty-esc"
  <2>1. g.esc = <<"esc", "[", "2">> /\ ~g.mouse /\ Agrees(g, l, g.before, g.prevBefore)
    BY <1>7, <1>9, <1>11
  <2>2. byte = "7u"
    BY <1>7 DEF FourthOf
  <2>3. /\ h \in GateStates
        /\ h.esc = <<>> /\ ~h.mouse /\ h.paste = g.paste /\ (h.kitty <=> ~g.kitty)
        /\ (h.guard <=> g.guard \/ g.kitty) /\ h.dirty /\ h.here = g.here /\ h.active
    BY <2>1, <2>2, KittyEscape
  <2> HIDE DEF h
  <2>4. Agrees(h, m, h.dirty, h.prev)
    BY <1>3, <1>7, <2>1, <2>3 DEF Agrees
  <2> QED
    BY <2>3, <2>4 DEF Idle
<1>8. kind = "reply" => g.esc = <<>>
  BY <1>11
<1> QED
  BY <1>1, <1>4, <1>5, <1>6, <1>7, <1>8

\* Every byte of every key and report.
LEMMA ByteStep ==
  ASSUME NEW g \in GateStates, NEW l \in LineStates, NEW l0, NEW k0,
         NEW kind \in AllKinds, NEW j \in 1 .. Len(Bytes(kind)),
         NEW k, k = IF j = 1 THEN "none" ELSE kind,
         InStep(g, l, k, j - 1), Idle(g, l, k, l0, k0), kind = "escape" => ~l.paste,
         NEW m \in LinesOf(l, kind, j)
  PROVE  Follows(ObserveByte(g, Bytes(kind)[j]), m, kind, j, l0, k0)
<1>1. Len(Bytes(kind)) = LengthOf(kind) /\ LengthOf(kind) \in 1 .. 4 /\ kind # "none"
  BY KeyLength, KeyTable, NoneIsNoKind
<1>2. j \in {1, 2, 3, 4}
  BY <1>1
<1>3. CASE j = 1
  <2>1. BetweenKeys(g, l) /\ Idle(g, l, "none", l0, k0)
    BY <1>3 DEF InStep
  <2>2. CASE kind \in Plain
    <3>1. m \in Pressed(l, kind) /\ Bytes(kind)[1] = PlainByteOf(kind)
      BY <1>1, <1>3, <2>2, KeyAt DEF LinesOf, LengthOf
    <3> QED
      BY <1>3, <2>1, <2>2, <3>1, PlainKey
  <2>3. CASE kind \notin Plain
    <3>1. Bytes(kind)[1] = "esc"
      BY <2>3, KeyAt
    <3> QED
      BY <1>3, <2>1, <2>3, <3>1, EscapeKey
  <2> QED
    BY <2>2, <2>3
<1>4. CASE j = 2
  <2>1. WithinKey(g, l, kind, 1) /\ Idle(g, l, kind, l0, k0) /\ LengthOf(kind) > 1
    BY <1>1, <1>4 DEF InStep
  <2>2. Bytes(kind)[2] = IF kind = "alt-enter" THEN "cr" ELSE "["
    BY <2>1, KeyAt
  <2> QED
    BY <1>4, <2>1, <2>2, SecondByte
<1>5. CASE j = 3
  <2>1. WithinKey(g, l, kind, 2) /\ Idle(g, l, kind, l0, k0) /\ LengthOf(kind) > 2
    BY <1>1, <1>5 DEF InStep
  <2>2. Bytes(kind)[3] = ThirdOf(kind)
    BY <2>1, KeyAt
  <2> QED
    BY <1>5, <2>1, <2>2, ThirdByte
<1>6. CASE j = 4
  <2>1. WithinKey(g, l, kind, 3) /\ Idle(g, l, kind, l0, k0) /\ LengthOf(kind) > 3
    BY <1>1, <1>6 DEF InStep
  <2>2. Bytes(kind)[4] = FourthOf(kind)
    BY <2>1, KeyAt
  <2> QED
    BY <1>6, <2>1, <2>2, FourthByte
<1> QED
  BY <1>2, <1>3, <1>4, <1>5, <1>6

-----------------------------------------------------------------------------
(* A chunk, byte by byte. *)

\* A set of numbers has a smallest one: what is shown of it by contradiction
\* takes the place of an induction.
LEMMA LeastOf ==
  ASSUME NEW T \in SUBSET Nat, T # {}
  PROVE  \E n \in T : \A m \in T : n \leq m
<1>1. PICK n \in T : \A t \in T : <<t, n>> \notin OpToRel(<, Nat)
  BY NatLessThanWellFounded, WFMin, Zenon
<1>2. \A t \in T : ~(t < n)
  BY <1>1 DEF OpToRel
<1> QED
  BY <1>2

\* The recursions of Observed and LinesAfter have solutions.
Gated(gates, g, bytes, n) ==
  gates = [i \in 0 .. n |-> IF i = 0 THEN g ELSE ObserveByte(gates[i - 1], bytes[i])]
Lined(lines, l, chunk, n) ==
  lines = [i \in 0 .. n |-> IF i = 0 THEN {l}
                            ELSE IF Ends(chunk[i]) THEN UNION {Pressed(m, chunk[i].kind) : m \in lines[i - 1]}
                            ELSE lines[i - 1]]

LEMMA GatesExist ==
  ASSUME NEW g, NEW bytes, NEW n \in Nat
  PROVE  \E gates : Gated(gates, g, bytes, n)
<1> DEFINE T == {i \in Nat : ~ \E gates : Gated(gates, g, bytes, i)}
<1>1. ASSUME NEW i \in T, \A m \in T : i \leq m PROVE FALSE
  <2>1. CASE i = 0
    <3> DEFINE w == [j \in 0 .. 0 |-> IF j = 0 THEN g ELSE ObserveByte(g, bytes[j])]
    <3>1. Gated(w, g, bytes, 0)
      BY DEF Gated
    <3> QED
      BY <1>1, <2>1, <3>1
  <2>2. CASE i # 0
    <3>1. i \in Nat /\ i - 1 \in Nat /\ i - 1 \notin T
      BY <1>1, <2>2
    <3>2. PICK w : Gated(w, g, bytes, i - 1)
      BY <3>1
    <3> DEFINE v == [j \in 0 .. i |-> IF j = i THEN ObserveByte(w[i - 1], bytes[i]) ELSE w[j]]
    <3>3. \A j \in 0 .. i - 1 : w[j] = IF j = 0 THEN g ELSE ObserveByte(w[j - 1], bytes[j])
      BY <3>2 DEF Gated
    <3>4. \A j \in 0 .. i : v[j] = IF j = 0 THEN g ELSE ObserveByte(v[j - 1], bytes[j])
      BY <2>2, <3>1, <3>3
    <3>5. v = [j \in 0 .. i |-> v[j]]
      OBVIOUS
    <3> HIDE DEF v
    <3>6. Gated(v, g, bytes, i)
      BY <3>4, <3>5 DEF Gated
    <3> QED
      BY <1>1, <3>6
  <2> QED
    BY <2>1, <2>2
<1>2. T = {}
  <2>1. T \in SUBSET Nat
    OBVIOUS
  <2> HIDE DEF T
  <2> QED
    BY <1>1, <2>1, LeastOf
<1> QED
  BY <1>2

LEMMA LinesExist ==
  ASSUME NEW l, NEW chunk, NEW n \in Nat
  PROVE  \E lines : Lined(lines, l, chunk, n)
<1> DEFINE T == {i \in Nat : ~ \E lines : Lined(lines, l, chunk, i)}
           Step(set, i) == IF Ends(chunk[i]) THEN UNION {Pressed(m, chunk[i].kind) : m \in set} ELSE set
<1>1. ASSUME NEW i \in T, \A m \in T : i \leq m PROVE FALSE
  <2>1. CASE i = 0
    <3> DEFINE w == [j \in 0 .. 0 |-> {l}]
    <3>1. \A j \in 0 .. 0 : w[j] = IF j = 0 THEN {l} ELSE Step(w[j - 1], j)
      <4> HIDE DEF Step
      <4> QED
        OBVIOUS
    <3>2. w = [j \in 0 .. 0 |-> w[j]]
      OBVIOUS
    <3> HIDE DEF w
    <3>3. Lined(w, l, chunk, 0)
      <4>1. w = [j \in 0 .. 0 |-> IF j = 0 THEN {l} ELSE Step(w[j - 1], j)]
        <5> HIDE DEF Step
        <5> QED
          BY <3>1, <3>2
      <4> QED
        BY <4>1 DEF Lined
    <3> QED
      BY <1>1, <2>1, <3>3
  <2>2. CASE i # 0
    <3>1. i \in Nat /\ i - 1 \in Nat /\ i - 1 \notin T
      BY <1>1, <2>2
    <3>2. PICK w : Lined(w, l, chunk, i - 1)
      BY <3>1
    <3> DEFINE v == [j \in 0 .. i |-> IF j = i THEN Step(w[i - 1], i) ELSE w[j]]
    <3>3. \A j \in 0 .. i - 1 : w[j] = IF j = 0 THEN {l} ELSE Step(w[j - 1], j)
      <4>1. w = [j \in 0 .. i - 1 |-> IF j = 0 THEN {l} ELSE Step(w[j - 1], j)]
        BY <3>2 DEF Lined
      <4> HIDE DEF Step
      <4> QED
        BY <4>1
    <3>4. \A j \in 0 .. i : v[j] = IF j = 0 THEN {l} ELSE Step(v[j - 1], j)
      <4> SUFFICES ASSUME NEW j \in 0 .. i PROVE v[j] = IF j = 0 THEN {l} ELSE Step(v[j - 1], j)
        OBVIOUS
      <4>1. j # 0 => v[j - 1] = w[j - 1]
        BY <3>1
      <4>2. v[j] = IF j = i THEN Step(w[i - 1], i) ELSE w[j]
        OBVIOUS
      <4>3. CASE j = i
        <5>1. v[j] = Step(v[j - 1], j) /\ j # 0
          BY <2>2, <4>1, <4>2, <4>3
        <5> HIDE DEF v, Step
        <5> QED
          BY <5>1
      <4>4. CASE j # i
        <5>1. j \in 0 .. i - 1
          BY <3>1, <4>4
        <5>2. w[j] = IF j = 0 THEN {l} ELSE Step(w[j - 1], j)
          <6> HIDE DEF Step
          <6> QED
            BY <3>3, <5>1
        <5> HIDE DEF v, Step
        <5> QED
          BY <4>1, <4>2, <4>4, <5>2
      <4> QED
        BY <4>3, <4>4
    <3>5. v = [j \in 0 .. i |-> v[j]]
      OBVIOUS
    <3> HIDE DEF v
    <3>6. Lined(v, l, chunk, i)
      <4>1. v = [j \in 0 .. i |-> IF j = 0 THEN {l} ELSE Step(v[j - 1], j)]
        <5> HIDE DEF Step
        <5> QED
          BY <3>4, <3>5
      <4> QED
        BY <4>1 DEF Lined
    <3> QED
      BY <1>1, <3>6
  <2> QED
    BY <2>1, <2>2
<1>2. T = {}
  <2>1. T \in SUBSET Nat
    OBVIOUS
  <2> HIDE DEF T
  <2> QED
    BY <1>1, <2>1, LeastOf
<1> QED
  BY <1>2

GatesFrom(gates, g, bytes, n) ==
  /\ gates[0] = g
  /\ \A i \in 1 .. n : gates[i] = ObserveByte(gates[i - 1], bytes[i])

LEMMA ObservedIs ==
  ASSUME NEW g, NEW bytes, NEW n \in Nat, Len(bytes) = n
  PROVE  \E gates : GatesFrom(gates, g, bytes, n) /\ Observed(g, bytes) = gates[n]
<1> DEFINE gates == CHOOSE f : f = [i \in 0 .. n |-> IF i = 0 THEN g ELSE ObserveByte(f[i - 1], bytes[i])]
<1>1. Gated(gates, g, bytes, n)
  <2>1. PICK w : Gated(w, g, bytes, n)
    BY GatesExist
  <2>2. w = [i \in 0 .. n |-> IF i = 0 THEN g ELSE ObserveByte(w[i - 1], bytes[i])]
    BY <2>1 DEF Gated
  <2>3. gates = [i \in 0 .. n |-> IF i = 0 THEN g ELSE ObserveByte(gates[i - 1], bytes[i])]
    BY <2>2, Zenon
  <2> HIDE DEF gates
  <2> QED
    BY <2>3 DEF Gated
<1>2. Observed(g, bytes) = gates[n]
  BY DEF Observed
<1> HIDE DEF gates
<1>3. \A i \in 0 .. n : gates[i] = IF i = 0 THEN g ELSE ObserveByte(gates[i - 1], bytes[i])
  BY <1>1 DEF Gated
<1>4. gates[0] = g /\ \A i \in 1 .. n : gates[i] = ObserveByte(gates[i - 1], bytes[i])
  BY <1>3
<1> QED
  BY <1>2, <1>4 DEF GatesFrom

\* What the line may be after one more byte.
LinesNext(set, b) == IF Ends(b) THEN UNION {Pressed(m, b.kind) : m \in set} ELSE set

LinesFrom(lines, l, chunk, n) ==
  /\ lines[0] = {l}
  /\ \A i \in 1 .. n : lines[i] = LinesNext(lines[i - 1], chunk[i])

LEMMA LinesAre ==
  ASSUME NEW l, NEW chunk, NEW n \in Nat, Len(chunk) = n
  PROVE  \E lines : LinesFrom(lines, l, chunk, n) /\ LinesAfter(l, chunk) = lines[n]
<1> DEFINE Step(set, i) == IF Ends(chunk[i]) THEN UNION {Pressed(m, chunk[i].kind) : m \in set} ELSE set
           lines == CHOOSE f : f = [i \in 0 .. n |-> IF i = 0 THEN {l} ELSE Step(f[i - 1], i)]
<1>1. lines = [i \in 0 .. n |-> IF i = 0 THEN {l} ELSE Step(lines[i - 1], i)]
  <2>1. PICK w : Lined(w, l, chunk, n)
    BY LinesExist
  <2>2. w = [i \in 0 .. n |-> IF i = 0 THEN {l} ELSE Step(w[i - 1], i)]
    BY <2>1 DEF Lined
  <2> HIDE DEF Step
  <2> QED
    BY <2>2, Zenon
<1>2. LinesAfter(l, chunk) = lines[n]
  BY DEF LinesAfter
<1> HIDE DEF lines
<1>3. lines[0] = {l} /\ \A i \in 1 .. n : lines[i] = Step(lines[i - 1], i)
  <2>1. \A i \in 0 .. n : lines[i] = IF i = 0 THEN {l} ELSE Step(lines[i - 1], i)
    <3> HIDE DEF Step
    <3> QED
      BY <1>1
  <2> HIDE DEF Step
  <2> QED
    BY <2>1
<1> QED
  BY <1>2, <1>3 DEF LinesNext, LinesFrom

LEMMA LinesNextAre ==
  ASSUME NEW set, NEW b, NEW y \in LinesNext(set, b)
  PROVE  \E x \in set : y \in LinesOf(x, b.kind, b.at)
<1>1. CASE Ends(b)
  <2>1. y \in UNION {Pressed(x, b.kind) : x \in set}
    BY <1>1 DEF LinesNext
  <2>2. PICK x \in set : y \in Pressed(x, b.kind)
    BY <2>1
  <2> QED
    BY <1>1, <2>2 DEF LinesOf, Ends
<1>2. CASE ~Ends(b)
  BY <1>2 DEF LinesNext, LinesOf, Ends
<1> QED
  BY <1>1, <1>2

-----------------------------------------------------------------------------
(* What is on the wire. *)

WireBytes == [kind : AllKinds, at : 1 .. 4]

\* PastingAfter, of any line and wire.
Pasting(paste, w, i) ==
  \/ paste /\ \A j \in 1 .. i : ~Marks(w[j], "paste-off")
  \/ \E j \in 1 .. i : Marks(w[j], "paste-on") /\ \A k \in j .. i : ~Marks(w[k], "paste-off")

\* The key that the harness has half of before byte i of the wire.
HalfBefore(w, h, i) == IF i = 1 THEN h ELSE HalfOf(w[i - 1].kind, w[i - 1].at)

\* The terminal sends whole keys, and no Escape key within a paste.
Joined(w, h) ==
  \A i \in 1 .. Len(w) :
    IF HalfBefore(w, h, i) = "none" THEN w[i].at = 1
    ELSE w[i].kind = HalfBefore(w, h, i) /\ w[i].at > 1 /\ (i > 1 => w[i].at = w[i - 1].at + 1)
WireOK(w, h, paste) ==
  /\ w \in Seq(WireBytes)
  /\ \A i \in 1 .. Len(w) : w[i].at \leq Len(Bytes(w[i].kind))
  /\ Joined(w, h)
  /\ IF Len(w) = 0 THEN h = "none" ELSE Ends(w[Len(w)])
  /\ \A i \in 1 .. Len(w) : w[i].kind = "escape" => ~Pasting(paste, w, i - 1)

LEMMA PastingStep ==
  ASSUME NEW w, NEW paste, NEW i \in Nat, i # 0
  PROVE  Pasting(paste, w, i) <=>
           Marks(w[i], "paste-on") \/ (Pasting(paste, w, i - 1) /\ ~Marks(w[i], "paste-off"))
<1> DEFINE Starts(j) == Marks(w[j], "paste-on")
           Stops(j) == Marks(w[j], "paste-off")
<1>1. Starts(i) => ~Stops(i)
  BY DEF Marks
<1>2. 1 .. i = (1 .. i - 1) \cup {i} /\ i \in 1 .. i /\ i - 1 \in Nat
  OBVIOUS
<1>3. \A j \in 1 .. i - 1 : j .. i = (j .. i - 1) \cup {i}
  BY <1>2
<1>4. i .. i = {i}
  OBVIOUS
<1>5. /\ Pasting(paste, w, i) <=> \/ paste /\ \A j \in 1 .. i : ~Stops(j)
                                  \/ \E j \in 1 .. i : Starts(j) /\ \A k \in j .. i : ~Stops(k)
      /\ Pasting(paste, w, i - 1) <=> \/ paste /\ \A j \in 1 .. i - 1 : ~Stops(j)
                                      \/ \E j \in 1 .. i - 1 : Starts(j) /\ \A k \in j .. i - 1 : ~Stops(k)
  BY DEF Pasting
<1> HIDE DEF Starts, Stops
<1>6. (\E j \in 1 .. i : Starts(j) /\ \A k \in j .. i : ~Stops(k))
        <=> Starts(i) \/ \E j \in 1 .. i - 1 : Starts(j) /\ (\A k \in j .. i - 1 : ~Stops(k)) /\ ~Stops(i)
  <2>1. ASSUME NEW j \in 1 .. i, Starts(j), \A k \in j .. i : ~Stops(k)
        PROVE  Starts(i) \/ \E jj \in 1 .. i - 1 : Starts(jj) /\ (\A k \in jj .. i - 1 : ~Stops(k)) /\ ~Stops(i)
    <3>1. CASE j = i
      BY <2>1, <3>1
    <3>2. CASE j # i
      <4>1. j \in 1 .. i - 1
        BY <1>2, <3>2
      <4> QED
        BY <1>3, <2>1, <4>1
    <3> QED
      BY <3>1, <3>2
  <2>2. ASSUME Starts(i) PROVE \E j \in 1 .. i : Starts(j) /\ \A k \in j .. i : ~Stops(k)
    BY <1>1, <1>2, <1>4, <2>2
  <2>3. ASSUME NEW j \in 1 .. i - 1, Starts(j), \A k \in j .. i - 1 : ~Stops(k), ~Stops(i)
        PROVE  \E jj \in 1 .. i : Starts(jj) /\ \A k \in jj .. i : ~Stops(k)
    BY <1>2, <1>3, <2>3
  <2> QED
    BY <2>1, <2>2, <2>3
<1>7. (\A j \in 1 .. i : ~Stops(j)) <=> (\A j \in 1 .. i - 1 : ~Stops(j)) /\ ~Stops(i)
  BY <1>2
<1>8. Pasting(paste, w, i) <=> Starts(i) \/ (Pasting(paste, w, i - 1) /\ ~Stops(i))
  BY <1>1, <1>5, <1>6, <1>7
<1> QED
  BY <1>8 DEF Starts, Stops

\* It depends on what there is on the wire so far.
LEMMA PastingSame ==
  ASSUME NEW w, NEW v, NEW paste, NEW n \in Nat, \A i \in 1 .. n : w[i] = v[i]
  PROVE  Pasting(paste, w, n) <=> Pasting(paste, v, n)
<1>1. /\ \A j \in 1 .. n : \A kind : Marks(w[j], kind) <=> Marks(v[j], kind)
      /\ \A j \in 1 .. n : \A k \in j .. n : k \in 1 .. n
  OBVIOUS
<1> QED
  BY <1>1 DEF Pasting

\* Once the first n bytes have been read.
LaterBytes(v, w, n, len) == \A i \in 1 .. len : v[i] = w[n + i]
SamePaste(now, v, paste, w, n, len) == \A i \in 0 .. len : Pasting(now, v, i) <=> Pasting(paste, w, n + i)
LEMMA PastingShift ==
  ASSUME NEW w, NEW v, NEW paste, NEW now, NEW n \in Nat, now <=> Pasting(paste, w, n),
         NEW len \in Nat, LaterBytes(v, w, n, len)
  PROVE  SamePaste(now, v, paste, w, n, len)
<1> DEFINE T == {i \in 0 .. len : ~(Pasting(now, v, i) <=> Pasting(paste, w, n + i))}
<1>1. ASSUME NEW i \in T, \A m \in T : i \leq m PROVE FALSE
  <2>1. CASE i = 0
    <3>1. Pasting(now, v, 0) <=> now
      BY DEF Pasting
    <3> QED
      BY <1>1, <2>1, <3>1
  <2>2. CASE i # 0
    <3>1. i \in Nat /\ i - 1 \in 0 .. len /\ i - 1 \notin T /\ n + i \in Nat /\ n + i # 0 /\ (n + i) - 1 = n + (i - 1)
      BY <1>1, <2>2
    <3>2. v[i] = w[n + i]
      BY <2>2 DEF LaterBytes
    <3>3. Pasting(now, v, i - 1) <=> Pasting(paste, w, (n + i) - 1)
      BY <3>1
    <3>4. Pasting(now, v, i) <=> Marks(v[i], "paste-on") \/ (Pasting(now, v, i - 1) /\ ~Marks(v[i], "paste-off"))
      BY <2>2, <3>1, PastingStep
    <3>5. Pasting(paste, w, n + i) <=> Marks(w[n + i], "paste-on")
                                         \/ (Pasting(paste, w, (n + i) - 1) /\ ~Marks(w[n + i], "paste-off"))
      BY <3>1, PastingStep
    <3> QED
      BY <3>2, <3>3, <3>4, <3>5
  <2> QED
    BY <2>1, <2>2
<1>2. T = {}
  <2>1. T \in SUBSET Nat
    OBVIOUS
  <2> HIDE DEF T
  <2> QED
    BY <1>1, <2>1, LeastOf
<1> QED
  BY <1>2 DEF SamePaste

LEMMA SentIs ==
  ASSUME NEW kind \in AllKinds
  PROVE  /\ Sent(kind) \in Seq(WireBytes) /\ Len(Sent(kind)) = LengthOf(kind) /\ LengthOf(kind) \in 1 .. 4
         /\ \A i \in 1 .. LengthOf(kind) : Sent(kind)[i] = [kind |-> kind, at |-> i]
<1> DEFINE n == LengthOf(kind)
           s == [i \in 1 .. n |-> [kind |-> kind, at |-> i]]
<1>1. n \in 1 .. 4 /\ Len(Bytes(kind)) = n
  BY KeyTable, KeyLength
<1>2. DOMAIN Bytes(kind) = 1 .. n
  <2>1. n \in {1, 2, 3, 4}
    BY <1>1
  <2>2. \E a, b, c, d : Bytes(kind) \in {<<a>>, <<a, b>>, <<a, b, c>>, <<a, b, c, d>>}
    BY <2>1, KeyTable DEF Plain
  <2>3. PICK a, b, c, d : Bytes(kind) \in {<<a>>, <<a, b>>, <<a, b, c>>, <<a, b, c, d>>}
    BY <2>2
  <2>4. /\ <<a>> \in Seq({a, b, c, d}) /\ <<a, b>> \in Seq({a, b, c, d})
        /\ <<a, b, c>> \in Seq({a, b, c, d}) /\ <<a, b, c, d>> \in Seq({a, b, c, d})
    <3>1. <<a>> \in Seq({a, b, c, d})
      OBVIOUS
    <3>2. <<a, b>> \in Seq({a, b, c, d})
      OBVIOUS
    <3>3. <<a, b, c>> \in Seq({a, b, c, d})
      OBVIOUS
    <3>4. <<a, b, c, d>> \in Seq({a, b, c, d})
      OBVIOUS
    <3> QED
      BY <3>1, <3>2, <3>3, <3>4
  <2>5. Bytes(kind) \in Seq({a, b, c, d})
    BY <2>3, <2>4
  <2> QED
    BY <1>1, <2>5
<1>3. Sent(kind) = s
  BY <1>2 DEF Sent
<1>4. \A i \in 1 .. n : [kind |-> kind, at |-> i] \in WireBytes
  BY <1>1 DEF WireBytes
<1> HIDE DEF n
<1>5. s \in Seq(WireBytes) /\ Len(s) = n
  BY <1>1, <1>4
<1>6. \A i \in 1 .. n : s[i] = [kind |-> kind, at |-> i]
  OBVIOUS
<1> HIDE DEF s
<1> QED
  BY <1>1, <1>3, <1>5, <1>6 DEF n

\* A key more.
LEMMA WireGrows ==
  ASSUME NEW w, NEW h, NEW paste, WireOK(w, h, paste),
         NEW kind \in AllKinds, kind = "escape" => ~Pasting(paste, w, Len(w))
  PROVE  /\ WireOK(w \o Sent(kind), h, paste)
         /\ h # "none" => (w \o Sent(kind))[1] = w[1]
<1> DEFINE s == Sent(kind)
           v == w \o s
           n == Len(w)
           len == LengthOf(kind)
<1>1. /\ s \in Seq(WireBytes) /\ Len(s) = len /\ len \in 1 .. 4 /\ len = Len(Bytes(kind))
      /\ \A i \in 1 .. len : s[i].kind = kind /\ s[i].at = i
  <2>1. /\ s \in Seq(WireBytes) /\ Len(s) = len /\ len \in 1 .. 4 /\ len = Len(Bytes(kind))
        /\ \A i \in 1 .. len : s[i] = [kind |-> kind, at |-> i]
    BY SentIs, KeyLength
  <2> HIDE DEF s, len
  <2>2. ASSUME NEW i \in 1 .. len PROVE s[i].kind = kind /\ s[i].at = i
    <3>1. s[i] = [kind |-> kind, at |-> i]
      BY <2>1
    <3>2. s[i].kind = kind
      BY <3>1
    <3>3. s[i].at = i
      BY <3>1
    <3> QED
      BY <3>2, <3>3
  <2> QED
    BY <2>1, <2>2
<1>2. w \in Seq(WireBytes) /\ n \in Nat
  BY DEF WireOK
<1> HIDE DEF s, len
<1>3. /\ v \in Seq(WireBytes) /\ Len(v) = n + len
      /\ \A i \in 1 .. n : v[i] = w[i]
      /\ \A i \in 1 .. len : v[n + i] = s[i]
  BY <1>1, <1>2
<1> HIDE DEF v
<1>4. \A i \in 1 .. n + len : i \in 1 .. n \/ \E j \in 1 .. len : i = n + j
  <2>1. ASSUME NEW i \in 1 .. n + len, i \notin 1 .. n PROVE i - n \in 1 .. len /\ i = n + (i - n)
    BY <1>1, <1>2, <2>1
  <2> QED
    BY <2>1
<1>5. \A i \in 1 .. Len(v) : v[i].at \leq Len(Bytes(v[i].kind))
  <2>1. ASSUME NEW i \in 1 .. n PROVE v[i].at \leq Len(Bytes(v[i].kind))
    BY <1>3 DEF WireOK
  <2>2. ASSUME NEW j \in 1 .. len PROVE v[n + j].at \leq Len(Bytes(v[n + j].kind))
    <3>1. v[n + j].kind = kind /\ v[n + j].at = j
      BY <1>1, <1>3
    <3>2. j \leq len
      BY <1>1
    <3> QED
      BY <1>1, <3>1, <3>2
  <2> QED
    BY <1>3, <1>4, <2>1, <2>2
<1>6. Joined(v, h)
  <2>1. ASSUME NEW i \in 1 .. n
        PROVE  HalfBefore(v, h, i) = HalfBefore(w, h, i) /\ (i > 1 => v[i - 1] = w[i - 1])
    BY <1>2, <1>3 DEF HalfBefore
  <2>2. ASSUME NEW i \in 1 .. n
        PROVE  IF HalfBefore(v, h, i) = "none" THEN v[i].at = 1
               ELSE v[i].kind = HalfBefore(v, h, i) /\ v[i].at > 1 /\ (i > 1 => v[i].at = v[i - 1].at + 1)
    BY <1>3, <2>1 DEF WireOK, Joined
  <2>3. ASSUME NEW j \in 1 .. len
        PROVE  IF HalfBefore(v, h, n + j) = "none" THEN v[n + j].at = 1
               ELSE /\ v[n + j].kind = HalfBefore(v, h, n + j) /\ v[n + j].at > 1
                    /\ n + j > 1 => v[n + j].at = v[n + j - 1].at + 1
    <3>1. v[n + j].kind = kind /\ v[n + j].at = j
      BY <1>1, <1>3
    <3>2. CASE j = 1
      <4>1. CASE n = 0
        BY <3>1, <3>2, <4>1 DEF WireOK, HalfBefore
      <4>2. CASE n # 0
        <5>1. HalfBefore(v, h, n + j) = HalfOf(w[n].kind, w[n].at)
          BY <1>2, <1>3, <3>2, <4>2 DEF HalfBefore
        <5>2. Ends(w[n])
          BY <4>2 DEF WireOK
        <5> QED
          BY <3>1, <3>2, <5>1, <5>2 DEF Ends, HalfOf
      <4> QED
        BY <4>1, <4>2
    <3>3. CASE j # 1
      <4>1. j - 1 \in 1 .. len /\ n + j # 1 /\ n + j - 1 = n + (j - 1) /\ j \in Nat
        BY <1>1, <1>2, <3>3
      <4>2. v[n + j - 1].kind = kind /\ v[n + j - 1].at = j - 1
        BY <1>1, <1>3, <4>1, ZenonT(60)
      <4>3. j - 1 # len /\ j > 1 /\ (j - 1) + 1 = j
        BY <1>1, <3>3
      <4>4. HalfBefore(v, h, n + j) = kind
        BY <1>1, <4>1, <4>2, <4>3 DEF HalfBefore, HalfOf
      <4>5. v[n + j].at = v[n + j - 1].at + 1
        BY <3>1, <4>2, <4>3
      <4>6. kind # "none"
        BY NoneIsNoKind
      <4>7. v[n + j].at > 1
        BY <3>1, <4>3
      <4>8. ~(HalfBefore(v, h, n + j) = "none") /\ v[n + j].kind = HalfBefore(v, h, n + j)
        BY <3>1, <4>4, <4>6
      <4> QED
        BY <4>5, <4>7, <4>8
    <3> QED
      BY <3>2, <3>3
  <2>4. ASSUME NEW i \in 1 .. Len(v)
        PROVE  IF HalfBefore(v, h, i) = "none" THEN v[i].at = 1
               ELSE v[i].kind = HalfBefore(v, h, i) /\ v[i].at > 1 /\ (i > 1 => v[i].at = v[i - 1].at + 1)
    <3>1. CASE i \in 1 .. n
      BY <2>2, <3>1
    <3>2. CASE i \notin 1 .. n
      <4>1. PICK j \in 1 .. len : i = n + j
        BY <1>3, <1>4, <3>2
      <4>2. n + j > 1 <=> i > 1
        BY <4>1
      <4> QED
        BY <2>3, <4>1
    <3> QED
      BY <3>1, <3>2
  <2> QED
    BY <2>4 DEF Joined
<1>7. Len(v) # 0 /\ Ends(v[Len(v)])
  <2>1. len \in 1 .. len /\ Len(v) # 0
    BY <1>1, <1>2, <1>3
  <2>2. v[n + len].kind = kind /\ v[n + len].at = len
    BY <1>1, <1>3, <2>1
  <2> QED
    BY <1>1, <1>3, <2>1, <2>2 DEF Ends
<1>8. ASSUME NEW i \in 1 .. Len(v), v[i].kind = "escape" PROVE ~Pasting(paste, v, i - 1)
  <2>1. CASE i \in 1 .. n
    <3>1. w[i].kind = "escape" /\ i - 1 \in Nat /\ \A k \in 1 .. i - 1 : w[k] = v[k]
      BY <1>2, <1>3, <1>8, <2>1
    <3>2. ~Pasting(paste, w, i - 1)
      BY <2>1, <3>1 DEF WireOK
    <3> QED
      BY <3>1, <3>2, PastingSame
  <2>2. ASSUME NEW j \in 1 .. len, i = n + j PROVE ~Pasting(paste, v, i - 1)
    <3>1. kind = "escape"
      BY <1>1, <1>3, <1>8, <2>2
    <3>2. len = 1
      BY <3>1 DEF len, LengthOf
    <3>3. i - 1 = n
      BY <1>2, <2>2, <3>2
    <3>4. Pasting(paste, w, n) <=> Pasting(paste, v, n)
      BY <1>2, <1>3, PastingSame
    <3> QED
      BY <3>1, <3>3, <3>4
  <2> QED
    BY <1>3, <1>4, <2>1, <2>2
<1>9. h # "none" => n # 0
  BY DEF WireOK
<1>10. WireOK(v, h, paste)
  BY <1>3, <1>5, <1>6, <1>7, <1>8 DEF WireOK
<1>11. h # "none" => v[1] = w[1]
  BY <1>2, <1>3, <1>9
<1> QED
  BY <1>10, <1>11 DEF v, s

\* The first bytes less.
LEMMA WireShrinks ==
  ASSUME NEW w, NEW h, NEW paste, WireOK(w, h, paste), NEW n \in 1 .. Len(w),
         NEW now, now <=> Pasting(paste, w, n)
  PROVE  LET v == SubSeq(w, n + 1, Len(w))
             k == HalfOf(w[n].kind, w[n].at)
         IN WireOK(v, k, now) /\ (k # "none" => v[1].at = w[n].at + 1)
<1> DEFINE v == SubSeq(w, n + 1, Len(w))
           k == HalfOf(w[n].kind, w[n].at)
           len == Len(w) - n
<1>1. w \in Seq(WireBytes) /\ len \in Nat /\ n \in Nat /\ n # 0
  BY DEF WireOK
<1>2. /\ v \in Seq(WireBytes) /\ Len(v) = len
      /\ \A i \in 1 .. len : v[i] = w[n + i]
  BY <1>1
<1> HIDE DEF v
<1>3. \A i \in 1 .. len : n + i \in 1 .. Len(w)
  BY <1>1
<1>4. \A i \in 1 .. Len(v) : v[i].at \leq Len(Bytes(v[i].kind))
  BY <1>2, <1>3 DEF WireOK
<1>5. ASSUME NEW i \in 1 .. len PROVE HalfBefore(v, k, i) = HalfBefore(w, h, n + i)
  <2>1. CASE i = 1
    BY <1>1, <2>1 DEF HalfBefore
  <2>2. CASE i # 1
    <3>1. i - 1 \in 1 .. len /\ n + (i - 1) = (n + i) - 1 /\ n + i # 1
      BY <1>1, <2>2
    <3>2. v[i - 1] = w[(n + i) - 1]
      BY <1>2, <3>1
    <3> QED
      BY <2>2, <3>1, <3>2 DEF HalfBefore
  <2> QED
    BY <2>1, <2>2
<1>6. ASSUME NEW i \in 1 .. len
      PROVE  IF HalfBefore(v, k, i) = "none" THEN v[i].at = 1
             ELSE v[i].kind = HalfBefore(v, k, i) /\ v[i].at > 1 /\ (i > 1 => v[i].at = v[i - 1].at + 1)
  <2>1. IF HalfBefore(w, h, n + i) = "none" THEN w[n + i].at = 1
        ELSE /\ w[n + i].kind = HalfBefore(w, h, n + i) /\ w[n + i].at > 1
             /\ n + i > 1 => w[n + i].at = w[n + i - 1].at + 1
    BY <1>3 DEF WireOK, Joined
  <2>2. n + i > 1 /\ (i > 1 => i - 1 \in 1 .. len /\ n + (i - 1) = n + i - 1)
    BY <1>1
  <2>3. i > 1 => v[i - 1] = w[n + i - 1]
    BY <1>2, <2>2
  <2> QED
    BY <1>2, <1>5, <2>1, <2>2, <2>3
<1>7. Joined(v, k)
  BY <1>2, <1>6 DEF Joined
<1>8. IF Len(v) = 0 THEN k = "none" ELSE Ends(v[Len(v)])
  <2>1. CASE len = 0
    <3>1. n = Len(w) /\ Ends(w[n])
      BY <1>1, <2>1 DEF WireOK
    <3> QED
      BY <1>2, <2>1, <3>1 DEF Ends, HalfOf
  <2>2. CASE len # 0
    <3>1. len \in 1 .. len /\ n + len = Len(w) /\ Ends(w[Len(w)])
      BY <1>1, <2>2 DEF WireOK
    <3> QED
      BY <1>2, <2>2, <3>1
  <2> QED
    BY <2>1, <2>2
<1>9. ASSUME NEW i \in 1 .. Len(v), v[i].kind = "escape" PROVE ~Pasting(now, v, i - 1)
  <2>1. i - 1 \in 0 .. len /\ i \in 1 .. len /\ (n + i) - 1 = n + (i - 1)
    BY <1>1, <1>2
  <2>2. w[n + i].kind = "escape"
    BY <1>2, <1>9, <2>1
  <2>3. ~Pasting(paste, w, n + i - 1)
    BY <1>3, <2>1, <2>2 DEF WireOK
  <2>4. \A m \in 0 .. len : Pasting(now, v, m) <=> Pasting(paste, w, n + m)
    <3>1. n \in Nat /\ len \in Nat /\ (now <=> Pasting(paste, w, n)) /\ LaterBytes(v, w, n, len)
      BY <1>1, <1>2 DEF LaterBytes
    <3> HIDE DEF len
    <3>2. SamePaste(now, v, paste, w, n, len)
      BY <3>1, PastingShift
    <3> QED
      BY <3>2 DEF SamePaste
  <2> QED
    BY <2>1, <2>3, <2>4
<1>10. WireOK(v, k, now)
  BY <1>2, <1>4, <1>7, <1>8, <1>9 DEF WireOK
<1>11. k # "none" => v[1].at = w[n].at + 1
  <2>1. ASSUME k # "none" PROVE 1 \in 1 .. len
    BY <1>1, <1>2, <1>8, <2>1
  <2>2. n + 1 > 1 /\ n + 1 - 1 = n /\ n + 1 # 1
    BY <1>1
  <2>3. ASSUME k # "none" PROVE v[1].at = w[n].at + 1
    <3>1. HalfBefore(w, h, n + 1) = k
      BY <2>2 DEF HalfBefore
    <3>2. n + 1 \in 1 .. Len(w) /\ v[1] = w[n + 1]
      BY <1>2, <1>3, <2>1, <2>3
    <3>3. w[n + 1].at = w[n + 1 - 1].at + 1
      BY <2>2, <2>3, <3>1, <3>2 DEF WireOK, Joined
    <3> QED
      BY <2>2, <3>2, <3>3
  <2> QED
    BY <2>3
<1> QED
  BY <1>10, <1>11 DEF v

\* One more byte of the wire: the key it belongs to, and where the harness stands with it.
LEMMA WireStep ==
  ASSUME NEW w, NEW h, NEW paste, WireOK(w, h, paste), NEW i \in 1 .. Len(w)
  PROVE  /\ w[i].kind \in AllKinds /\ w[i].at \in 1 .. Len(Bytes(w[i].kind))
         /\ w[i].kind = "escape" => ~Pasting(paste, w, i - 1)
         /\ HalfBefore(w, h, i) = IF w[i].at = 1 THEN "none" ELSE w[i].kind
         /\ HalfBefore(w, h, i) # "none" /\ i > 1 => w[i - 1].at = w[i].at - 1
<1>1. w[i] \in WireBytes /\ w[i].at \leq Len(Bytes(w[i].kind))
  BY DEF WireOK
<1>2. w[i].kind \in AllKinds /\ w[i].at \in 1 .. 4
  BY <1>1 DEF WireBytes
<1>3. Len(Bytes(w[i].kind)) \in 1 .. 4
  BY <1>2, KeyLength, KeyTable
<1>4. w[i].kind = "escape" => ~Pasting(paste, w, i - 1)
  BY DEF WireOK
<1>5. IF HalfBefore(w, h, i) = "none" THEN w[i].at = 1
      ELSE w[i].kind = HalfBefore(w, h, i) /\ w[i].at > 1 /\ (i > 1 => w[i].at = w[i - 1].at + 1)
  BY DEF WireOK, Joined
<1>6. i > 1 => w[i - 1] \in WireBytes
  BY DEF WireOK
<1>7. i > 1 => w[i - 1].at \in 1 .. 4
  BY <1>6 DEF WireBytes
<1> QED
  BY <1>1, <1>2, <1>3, <1>4, <1>5, <1>7

\* What the gate and the line are after i bytes of the wire.
Along(g, m, w, h, l, i) ==
  /\ g \in GateStates /\ m \in LineStates
  /\ InStep(g, m, HalfBefore(w, h, i + 1), IF i = 0 THEN w[1].at - 1 ELSE w[i].at)
  /\ Idle(g, m, HalfBefore(w, h, i + 1), l, h)
  /\ m.paste <=> Pasting(l.paste, w, i)

LEMMA AlongStep ==
  ASSUME NEW w, NEW h, NEW l, WireOK(w, h, l.paste), NEW i \in 1 .. Len(w),
         NEW g, NEW x, Along(g, x, w, h, l, i - 1), NEW m \in LinesOf(x, w[i].kind, w[i].at)
  PROVE  Along(ObserveByte(g, Byte(w[i])), m, w, h, l, i)
<1> DEFINE kind == w[i].kind
           j == w[i].at
           k == HalfBefore(w, h, i)
           f == ObserveByte(g, Byte(w[i]))
<1>1. /\ kind \in AllKinds /\ j \in 1 .. Len(Bytes(kind))
      /\ kind = "escape" => ~Pasting(l.paste, w, i - 1)
      /\ k = IF j = 1 THEN "none" ELSE kind
      /\ k # "none" /\ i > 1 => w[i - 1].at = j - 1
  BY WireStep
<1>2. Len(w) \in Nat /\ i \in Nat /\ i # 0 /\ (i - 1) + 1 = i /\ (i - 1 = 0 <=> i = 1) /\ (i # 1 => i > 1)
  BY DEF WireOK
<1>3. HalfBefore(w, h, i + 1) = HalfOf(kind, j)
  BY <1>2 DEF HalfBefore
<1>4. Byte(w[i]) = Bytes(kind)[j]
  BY DEF Byte
<1>5. /\ g \in GateStates /\ x \in LineStates /\ Idle(g, x, k, l, h)
      /\ x.paste <=> Pasting(l.paste, w, i - 1)
      /\ InStep(g, x, k, IF i - 1 = 0 THEN w[1].at - 1 ELSE w[i - 1].at)
  BY <1>2 DEF Along
<1>6. InStep(g, x, k, j - 1)
  <2>1. CASE k = "none"
    BY <1>5, <2>1 DEF InStep
  <2>2. CASE k # "none"
    BY <1>1, <1>2, <1>5, <2>2
  <2> QED
    BY <2>1, <2>2
<1>7. Follows(f, m, kind, j, l, h)
  <2>1. kind = "escape" => ~x.paste
    BY <1>1, <1>5
  <2> HIDE DEF kind, j, k, f
  <2>2. Follows(ObserveByte(g, Bytes(kind)[j]), m, kind, j, l, h)
    BY <1>1, <1>5, <1>6, <2>1, ByteStep DEF kind, j
  <2> QED
    BY <1>4, <2>2 DEF f
<1>8. m.paste <=> Marks(w[i], "paste-on") \/ (x.paste /\ ~Marks(w[i], "paste-off"))
  <2>1. CASE Ends(w[i])
    <3>1. m \in Pressed(x, kind)
      BY <2>1 DEF LinesOf, Ends
    <3>2. /\ kind \in Silent => m = x
          /\ kind \notin Silent => IF kind \in {"paste-on", "paste-off"} THEN m.paste <=> kind = "paste-on"
                                   ELSE m.paste <=> x.paste
      BY <1>1, <1>5, <3>1, PressedIs
    <3> QED
      BY <2>1, <3>2 DEF Marks, Silent
  <2>2. CASE ~Ends(w[i])
    <3>1. m = x
      BY <2>2 DEF LinesOf, Ends
    <3> QED
      BY <2>2, <3>1 DEF Marks
  <2> QED
    BY <2>1, <2>2
<1>9. m.paste <=> Pasting(l.paste, w, i)
  BY <1>2, <1>5, <1>8, PastingStep
<1> QED
  BY <1>2, <1>3, <1>7, <1>9 DEF Follows, Along

LEMMA ChunkStep ==
  ASSUME NEW w, NEW h, NEW l \in LineStates, WireOK(w, h, l.paste), NEW n \in 1 .. Len(w),
         NEW g \in GateStates, ~g.here, ~g.active, InStep(g, l, h, w[1].at - 1),
         NEW chunk, Len(chunk) = n, \A i \in 1 .. n : chunk[i] = w[i],
         NEW bytes, Len(bytes) = n, \A i \in 1 .. n : bytes[i] = Byte(w[i]),
         NEW m \in LinesAfter(l, chunk)
  PROVE  Along(Observed(g, bytes), m, w, h, l, n)
<1>1. n \in Nat /\ n # 0
  BY DEF WireOK
<1>2. PICK gates : GatesFrom(gates, g, bytes, n) /\ Observed(g, bytes) = gates[n]
  BY <1>1, ObservedIs
<1>3. PICK lines : LinesFrom(lines, l, chunk, n) /\ LinesAfter(l, chunk) = lines[n]
  BY <1>1, LinesAre
<1> DEFINE Holds(i) == \A x \in lines[i] : Along(gates[i], x, w, h, l, i)
           T == {i \in 0 .. n : ~Holds(i)}
<1>4. Holds(0)
  <2>1. HalfBefore(w, h, 0 + 1) = h
    BY DEF HalfBefore
  <2>2. Idle(g, l, h, l, h)
    BY DEF Idle
  <2>3. Pasting(l.paste, w, 0) <=> l.paste
    BY DEF Pasting
  <2>4. Along(g, l, w, h, l, 0)
    BY <2>1, <2>2, <2>3 DEF Along
  <2> QED
    BY <1>2, <1>3, <2>4 DEF LinesFrom, GatesFrom
<1>5. ASSUME NEW i \in 1 .. n, Holds(i - 1) PROVE Holds(i)
  <2>1. i \in 1 .. Len(w) /\ chunk[i] = w[i] /\ bytes[i] = Byte(w[i])
    BY <1>1 DEF WireOK
  <2>2. gates[i] = ObserveByte(gates[i - 1], Byte(w[i]))
    BY <1>2, <2>1 DEF GatesFrom
  <2>3. ASSUME NEW y \in lines[i] PROVE \E x \in lines[i - 1] : y \in LinesOf(x, w[i].kind, w[i].at)
    <3>1. y \in LinesNext(lines[i - 1], w[i])
      BY <1>3, <2>1, <2>3 DEF LinesFrom
    <3> QED
      BY <3>1, LinesNextAre
  <2>4. ASSUME NEW y \in lines[i] PROVE Along(gates[i], y, w, h, l, i)
    <3>1. PICK x \in lines[i - 1] : y \in LinesOf(x, w[i].kind, w[i].at)
      BY <2>3, <2>4
    <3>2. Along(gates[i - 1], x, w, h, l, i - 1)
      BY <1>5
    <3>3. Along(ObserveByte(gates[i - 1], Byte(w[i])), y, w, h, l, i)
      BY <2>1, <3>1, <3>2, AlongStep
    <3> QED
      BY <2>2, <3>3
  <2> QED
    BY <2>4
<1> HIDE DEF Holds
<1>6. ASSUME NEW i \in T, \A j \in T : i \leq j PROVE FALSE
  <2>1. i \in 1 .. n /\ i - 1 \in 0 .. n /\ i - 1 \notin T
    BY <1>1, <1>4, <1>6
  <2> QED
    BY <1>5, <1>6, <2>1
<1>7. T = {}
  <2>1. T \in SUBSET Nat
    BY <1>1
  <2> HIDE DEF T
  <2> QED
    BY <1>6, <2>1, LeastOf
<1>8. Holds(n)
  BY <1>1, <1>7
<1> QED
  BY <1>2, <1>3, <1>8 DEF Holds

\* What a clean gate knows of the harness.
LEMMA CleanGate ==
  ASSUME NEW g, NEW l, NEW k, NEW j, InStep(g, l, k, j), ~g.dirty
  PROVE  k = "none" /\ Clean(l) /\ g.esc = <<>>
<1>1. k = "none" /\ BetweenKeys(g, l)
  BY DEF InStep, WithinKey
<1>2. g.esc = <<>> /\ Agrees(g, l, g.dirty, g.prev)
  BY <1>1 DEF BetweenKeys
<1> QED
  BY <1>1, <1>2 DEF Agrees, Clean

\* The next chunk begins with nothing of this one counted.
LEMMA StartedIs ==
  ASSUME NEW g \in GateStates
  PROVE  /\ Started(g) \in GateStates /\ ~Started(g).here /\ ~Started(g).active /\ Started(g).dirty = g.dirty
         /\ \A l, k, j : InStep(g, l, k, j) => InStep(Started(g), l, k, j)
<1> DEFINE s == Started(g)
<1>1. /\ s \in GateStates /\ ~s.here /\ ~s.active
      /\ s.dirty = g.dirty /\ s.guard = g.guard /\ s.paste = g.paste /\ s.kitty = g.kitty
      /\ s.esc = g.esc /\ s.mouse = g.mouse /\ s.before = g.before /\ s.prev = g.prev
      /\ s.prevBefore = g.prevBefore
  BY DEF Started, GateStates, Gates
<1> HIDE DEF s
<1>2. ASSUME NEW l, NEW k, NEW j, InStep(g, l, k, j) PROVE InStep(s, l, k, j)
  <2>1. CASE k = "none"
    BY <1>1, <1>2, <2>1 DEF InStep, BetweenKeys, Agrees
  <2>2. CASE k # "none"
    BY <1>1, <1>2, <2>2 DEF InStep, WithinKey, Agrees
  <2> QED
    BY <2>1, <2>2
<1> QED
  BY <1>1, <1>2 DEF s

\* The bytes that forward reads.
ReadOf(w, n) == [i \in 1 .. n |-> Byte(SubSeq(w, 1, n)[i])]
LEMMA ReadOfIs ==
  ASSUME NEW w \in Seq(WireBytes), NEW n \in 1 .. Len(w)
  PROVE  /\ Len(SubSeq(w, 1, n)) = n /\ \A i \in 1 .. n : SubSeq(w, 1, n)[i] = w[i]
         /\ Len(ReadOf(w, n)) = n /\ \A i \in 1 .. n : ReadOf(w, n)[i] = Byte(w[i])
<1>1. Len(SubSeq(w, 1, n)) = n /\ \A i \in 1 .. n : SubSeq(w, 1, n)[i] = w[i]
  OBVIOUS
<1> DEFINE B(i) == Byte(SubSeq(w, 1, n)[i])
           S == {B(i) : i \in 1 .. n}
           f == [i \in 1 .. n |-> B(i)]
<1>2. n \in Nat /\ Len(f) = n
  <2>1. n \in Nat /\ \A i \in 1 .. n : B(i) \in S
    OBVIOUS
  <2> HIDE DEF B, S
  <2>2. f \in Seq(S)
    BY <2>1
  <2> QED
    BY <2>1, <2>2
<1>3. \A i \in 1 .. n : f[i] = Byte(w[i])
  BY <1>1
<1> QED
  BY <1>1, <1>2, <1>3 DEF ReadOf

\* A chunk that the gate observes.
LEMMA ReadStep ==
  ASSUME NEW w, NEW h, NEW l \in LineStates, WireOK(w, h, l.paste), NEW n \in 1 .. Len(w),
         NEW g \in GateStates, ~g.here, ~g.active, InStep(g, l, h, w[1].at - 1),
         NEW m \in LinesAfter(l, SubSeq(w, 1, n))
  PROVE  LET seen == Observed(g, ReadOf(w, n))
             k == HalfOf(w[n].kind, w[n].at)
             v == SubSeq(w, n + 1, Len(w))
         IN /\ seen \in GateStates /\ m \in LineStates
            /\ WireOK(v, k, m.paste) /\ InStep(seen, m, k, v[1].at - 1)
            /\ ~seen.dirty /\ ~seen.active => Clean(l) /\ h \in {"none", "mouse"}
<1> DEFINE seen == Observed(g, ReadOf(w, n))
           k == HalfOf(w[n].kind, w[n].at)
           v == SubSeq(w, n + 1, Len(w))
<1>1. w \in Seq(WireBytes) /\ n \in Nat /\ n # 0 /\ n + 1 # 1
  BY DEF WireOK
<1>2. Along(seen, m, w, h, l, n)
  <2> DEFINE chunk == SubSeq(w, 1, n)
             bytes == ReadOf(w, n)
  <2>1. /\ Len(chunk) = n /\ \A i \in 1 .. n : chunk[i] = w[i]
        /\ Len(bytes) = n /\ \A i \in 1 .. n : bytes[i] = Byte(w[i])
    BY <1>1, ReadOfIs
  <2>2. m \in LinesAfter(l, chunk)
    OBVIOUS
  <2> HIDE DEF chunk, bytes
  <2>3. Along(Observed(g, bytes), m, w, h, l, n)
    BY <2>1, <2>2, ChunkStep
  <2> QED
    BY <2>3 DEF bytes
<1>3. HalfBefore(w, h, n + 1) = k
  <2>1. (n + 1) - 1 = n
    BY <1>1
  <2> QED
    BY <1>1, <2>1 DEF HalfBefore
<1> HIDE DEF seen
<1>4. /\ seen \in GateStates /\ m \in LineStates
      /\ InStep(seen, m, k, w[n].at) /\ Idle(seen, m, k, l, h)
      /\ m.paste <=> Pasting(l.paste, w, n)
  BY <1>1, <1>2, <1>3 DEF Along
<1>5. WireOK(v, k, m.paste) /\ (k # "none" => v[1].at = w[n].at + 1)
  BY <1>4, WireShrinks
<1>6. InStep(seen, m, k, v[1].at - 1)
  <2>1. CASE k = "none"
    BY <1>4, <2>1 DEF InStep
  <2>2. CASE k # "none"
    <3>1. w[n] \in WireBytes
      BY <1>1
    <3>2. w[n].at \in 1 .. 4
      BY <3>1 DEF WireBytes
    <3> HIDE DEF k, v
    <3>3. v[1].at - 1 = w[n].at
      BY <1>5, <2>2, <3>2
    <3> QED
      BY <1>4, <3>3
  <2> QED
    BY <2>1, <2>2
<1>7. ASSUME ~seen.dirty, ~seen.active PROVE Clean(l) /\ h \in {"none", "mouse"}
  <2>1. k = "none" /\ Clean(m) /\ seen.esc = <<>>
    BY <1>4, <1>7, CleanGate
  <2>2. <<>> # <<"esc">>
    OBVIOUS
  <2>3. m = l /\ (h \in {"none", "mouse"} \/ k = h)
    BY <1>4, <1>7, <2>1, <2>2 DEF Idle
  <2> QED
    BY <2>1, <2>3
<1> QED
  BY <1>4, <1>5, <1>6, <1>7 DEF seen

-----------------------------------------------------------------------------
(* A chunk that forward does not show to the gate. *)

\* The bytes that tell a key.
LEMMA ByteTells ==
  ASSUME NEW kind \in AllKinds, NEW j \in 1 .. Len(Bytes(kind))
  PROVE  LET byte == Bytes(kind)[j]
         IN /\ byte = "esc" => j = 1
            /\ byte = "[" => j = 2
            /\ byte = "I" => j = 3 /\ kind = "focus"
            /\ byte = "?" => j = 3 /\ kind = "reply"
            /\ byte = "c" => j = 4 /\ kind = "reply"
<1>1. Len(Bytes(kind)) = LengthOf(kind) /\ LengthOf(kind) \in 1 .. 4
  BY KeyLength, KeyTable
<1>2. j \in {1, 2, 3, 4}
  BY <1>1
<1>3. CASE j = 1
  <2>1. Bytes(kind)[1] = IF kind \in Plain THEN PlainByteOf(kind) ELSE "esc"
    BY KeyAt
  <2> QED
    BY <1>3, <2>1 DEF PlainByteOf
<1>4. CASE j = 2
  <2>1. Bytes(kind)[2] = IF kind = "alt-enter" THEN "cr" ELSE "["
    BY <1>1, <1>4, KeyAt
  <2> QED
    BY <1>4, <2>1
<1>5. CASE j = 3
  <2>1. Bytes(kind)[3] = ThirdOf(kind)
    BY <1>1, <1>5, KeyAt
  <2> QED
    BY <1>5, <2>1 DEF ThirdOf
<1>6. CASE j = 4
  <2>1. Bytes(kind)[4] = FourthOf(kind)
    BY <1>1, <1>6, KeyAt
  <2>2. kind \in {"reply", "mouse", "kitty-esc", "paste-on", "paste-off"}
    BY <1>1, <1>6 DEF LengthOf, AllKinds, Plain
  <2> QED
    BY <1>6, <2>1, <2>2 DEF FourthOf
<1> QED
  BY <1>2, <1>3, <1>4, <1>5, <1>6

\* A byte that is not the first of its key follows another of that key.
LEMMA SameKey ==
  ASSUME NEW w, NEW h, NEW paste, WireOK(w, h, paste), NEW i \in 1 .. Len(w), i > 1, w[i].at # 1
  PROVE  w[i - 1].kind = w[i].kind
<1>1. HalfBefore(w, h, i) = w[i].kind /\ w[i].kind # "none"
  BY WireStep, NoneIsNoKind
<1>2. i # 1
  BY DEF WireOK
<1> QED
  BY <1>1, <1>2 DEF HalfBefore, HalfOf

\* Four bytes at most, the last of which belongs to a report, are all of it.
LEMMA ReportAt ==
  ASSUME NEW w, NEW h, NEW paste, WireOK(w, h, paste), NEW a \in Nat,
         a + 3 \in 1 .. Len(w), Byte(w[a + 1]) = "esc", Byte(w[a + 2]) = "[",
         \/ Byte(w[a + 3]) = "I"
         \/ Byte(w[a + 3]) = "?" /\ a + 4 \in 1 .. Len(w) /\ Byte(w[a + 4]) = "c"
  PROVE  /\ w[a + 1].at = 1
         /\ \A i \in 1 .. 3 : w[a + i].kind \in Silent
         /\ Byte(w[a + 3]) = "I" => Ends(w[a + 3])
         /\ Byte(w[a + 3]) = "?" => w[a + 4].kind \in Silent /\ Ends(w[a + 4])
<1>1. \A i \in 1 .. Len(w) : /\ w[i].kind \in AllKinds /\ w[i].at \in 1 .. Len(Bytes(w[i].kind))
                             /\ Byte(w[i]) = Bytes(w[i].kind)[w[i].at]
  BY WireStep DEF Byte
<1>2. /\ a + 1 \in 1 .. Len(w) /\ a + 2 \in 1 .. Len(w) /\ a + 2 > 1 /\ a + 3 > 1
      /\ (a + 2) - 1 = a + 1 /\ (a + 3) - 1 = a + 2
  BY DEF WireOK
<1>3. w[a + 1].at = 1
  <2>1. /\ w[a + 1].kind \in AllKinds /\ w[a + 1].at \in 1 .. Len(Bytes(w[a + 1].kind))
        /\ Bytes(w[a + 1].kind)[w[a + 1].at] = "esc"
    BY <1>1, <1>2
  <2> QED
    BY <2>1, ByteTells
<1>4. w[a + 2].at = 2
  <2>1. /\ w[a + 2].kind \in AllKinds /\ w[a + 2].at \in 1 .. Len(Bytes(w[a + 2].kind))
        /\ Bytes(w[a + 2].kind)[w[a + 2].at] = "["
    BY <1>1, <1>2
  <2> QED
    BY <2>1, ByteTells
<1>5. /\ w[a + 3].at = 3
      /\ Byte(w[a + 3]) = "I" => w[a + 3].kind = "focus"
      /\ Byte(w[a + 3]) = "?" => w[a + 3].kind = "reply"
  <2>1. /\ w[a + 3].kind \in AllKinds /\ w[a + 3].at \in 1 .. Len(Bytes(w[a + 3].kind))
        /\ Byte(w[a + 3]) = Bytes(w[a + 3].kind)[w[a + 3].at]
    BY <1>1
  <2> QED
    BY <2>1, ByteTells
<1>6. w[(a + 3) - 1].kind = w[a + 3].kind
  BY <1>2, <1>5, SameKey
<1>7. w[(a + 2) - 1].kind = w[a + 2].kind
  BY <1>2, <1>4, SameKey
<1>8. Byte(w[a + 3]) = "?" => w[a + 4].kind = "reply" /\ w[a + 4].at = 4
  BY <1>1, ByteTells
<1>9. w[a + 1].kind \in Silent /\ w[a + 2].kind \in Silent /\ w[a + 3].kind \in Silent
  BY <1>2, <1>5, <1>6, <1>7 DEF Silent
<1>10. \A i \in 1 .. 3 : i = 1 \/ i = 2 \/ i = 3
  OBVIOUS
<1>11. Byte(w[a + 3]) = "I" => Ends(w[a + 3])
  BY <1>5, KeyBytes, TupleAt DEF Ends
<1>12. Byte(w[a + 3]) = "?" => w[a + 4].kind \in Silent /\ Ends(w[a + 4])
  <2>1. Len(Bytes("reply")) = 4
    <3>1. Bytes("reply") = <<"esc", "[", "?", "c">>
      BY KeyBytes
    <3> QED
      BY <3>1, TupleAt
  <2> QED
    BY <1>8, <2>1 DEF Ends, Silent
<1> QED
  BY <1>3, <1>9, <1>10, <1>11, <1>12

\* Reports leave the line alone.
LEMMA SilentChunk ==
  ASSUME NEW l, NEW n \in Nat, NEW chunk, Len(chunk) = n, \A i \in 1 .. n : chunk[i].kind \in Silent,
         NEW m \in LinesAfter(l, chunk)
  PROVE  m = l
<1>1. PICK lines : LinesFrom(lines, l, chunk, n) /\ LinesAfter(l, chunk) = lines[n]
  BY LinesAre
<1> DEFINE T == {i \in 0 .. n : ~(\A x \in lines[i] : x = l)}
<1>2. ASSUME NEW i \in T, \A j \in T : i \leq j PROVE FALSE
  <2>1. CASE i = 0
    BY <1>1, <2>1 DEF LinesFrom
  <2>2. CASE i # 0
    <3>1. i \in 1 .. n /\ i - 1 \in 0 .. n /\ i - 1 \notin T
      BY <1>2, <2>2
    <3>2. \A x \in lines[i - 1] : x = l
      BY <3>1
    <3>3. ASSUME NEW y \in lines[i] PROVE y = l
      <4>1. y \in LinesNext(lines[i - 1], chunk[i])
        BY <1>1, <3>1, <3>3 DEF LinesFrom
      <4>2. PICK x \in lines[i - 1] : y \in LinesOf(x, chunk[i].kind, chunk[i].at)
        BY <4>1, LinesNextAre
      <4>3. x = l /\ chunk[i].kind \in Silent
        BY <3>1, <3>2, <4>2
      <4> QED
        BY <4>2, <4>3 DEF LinesOf, Pressed
    <3> QED
      BY <3>3
  <2> QED
    BY <2>1, <2>2
<1>3. T = {}
  <2>1. T \in SUBSET Nat
    OBVIOUS
  <2> HIDE DEF T
  <2> QED
    BY <1>2, <2>1, LeastOf
<1> QED
  BY <1>1, <1>3

\* What is ignored: reports, the whole of them.
LEMMA IgnoredBytes ==
  ASSUME NEW w, NEW h, NEW paste, WireOK(w, h, paste), NEW n \in 1 .. Len(w), Ignored(ReadOf(w, n))
  PROVE  h = "none" /\ Ends(w[n]) /\ \A i \in 1 .. n : w[i].kind \in Silent
<1> DEFINE bytes == ReadOf(w, n)
<1>1. /\ w \in Seq(WireBytes) /\ n \in Nat /\ 0 \in Nat /\ 4 \in Nat
      /\ Len(bytes) = n /\ \A i \in 1 .. n : bytes[i] = Byte(w[i])
  BY ReadOfIs DEF WireOK
<1>2. bytes = Bytes("focus") \/ bytes = Bytes("reply") \/ bytes = Bytes("reply") \o Bytes("reply")
  BY DEF Ignored
<1> HIDE DEF bytes
<1>3. w[1].at = 1 => h = "none"
  <2>1. 1 \in 1 .. Len(w)
    BY <1>1
  <2>2. HalfBefore(w, h, 1) = IF w[1].at = 1 THEN "none" ELSE w[1].kind
    BY <2>1, WireStep
  <2> QED
    BY <2>2 DEF HalfBefore
<1>4. \A i \in 1 .. 3 : 0 + i = i
  OBVIOUS
<1>5. CASE bytes = Bytes("focus")
  <2>1. bytes = <<"esc", "[", "I">>
    BY <1>5, KeyBytes
  <2>2. Len(bytes) = 3 /\ bytes[1] = "esc" /\ bytes[2] = "[" /\ bytes[3] = "I"
    BY <2>1, TupleAt
  <2>3. n = 3 /\ Byte(w[0 + 1]) = "esc" /\ Byte(w[0 + 2]) = "[" /\ Byte(w[0 + 3]) = "I" /\ 0 + 3 \in 1 .. Len(w)
    BY <1>1, <2>2
  <2>4. w[0 + 1].at = 1 /\ (\A i \in 1 .. 3 : w[0 + i].kind \in Silent) /\ Ends(w[0 + 3])
    BY <1>1, <2>3, ReportAt
  <2> QED
    BY <1>3, <1>4, <2>3, <2>4
<1>6. CASE bytes = Bytes("reply")
  <2>1. bytes = <<"esc", "[", "?", "c">>
    BY <1>6, KeyBytes
  <2>2. Len(bytes) = 4 /\ bytes[1] = "esc" /\ bytes[2] = "[" /\ bytes[3] = "?" /\ bytes[4] = "c"
    BY <2>1, TupleAt
  <2>3. /\ n = 4 /\ Byte(w[0 + 1]) = "esc" /\ Byte(w[0 + 2]) = "[" /\ Byte(w[0 + 3]) = "?" /\ Byte(w[0 + 4]) = "c"
        /\ 0 + 3 \in 1 .. Len(w) /\ 0 + 4 \in 1 .. Len(w)
    BY <1>1, <2>2
  <2>4. /\ w[0 + 1].at = 1 /\ (\A i \in 1 .. 3 : w[0 + i].kind \in Silent)
        /\ w[0 + 4].kind \in Silent /\ Ends(w[0 + 4])
    BY <1>1, <2>3, ReportAt
  <2>5. \A i \in 1 .. 4 : i \in 1 .. 3 \/ i = 4
    OBVIOUS
  <2> QED
    BY <1>3, <1>4, <2>3, <2>4, <2>5
<1>7. CASE bytes = Bytes("reply") \o Bytes("reply")
  <2>1. /\ Len(bytes) = 8 /\ bytes[1] = "esc" /\ bytes[2] = "[" /\ bytes[3] = "?" /\ bytes[4] = "c"
        /\ bytes[5] = "esc" /\ bytes[6] = "[" /\ bytes[7] = "?" /\ bytes[8] = "c"
    <3> DEFINE r == <<"esc", "[", "?", "c">>
    <3>1. bytes = r \o r
      BY <1>7, KeyBytes
    <3>2. r \in Seq({"esc", "[", "?", "c"})
      OBVIOUS
    <3>3. Len(r) = 4 /\ r[1] = "esc" /\ r[2] = "[" /\ r[3] = "?" /\ r[4] = "c"
      BY TupleAt
    <3> HIDE DEF r
    <3>4. Len(r \o r) = 8 /\ \A i \in 1 .. 4 : (r \o r)[i] = r[i] /\ (r \o r)[4 + i] = r[i]
      <4>1. \A S : \A t \in Seq(S) :
              /\ Len(t \o t) = Len(t) + Len(t)
              /\ \A i \in 1 .. Len(t) : (t \o t)[i] = t[i] /\ (t \o t)[Len(t) + i] = t[i]
        OBVIOUS
      <4>2. /\ Len(r \o r) = Len(r) + Len(r)
            /\ \A i \in 1 .. Len(r) : (r \o r)[i] = r[i] /\ (r \o r)[Len(r) + i] = r[i]
        BY <3>2, <4>1
      <4> QED
        BY <3>3, <4>2
    <3>5. /\ (r \o r)[1] = r[1] /\ (r \o r)[2] = r[2] /\ (r \o r)[3] = r[3] /\ (r \o r)[4] = r[4]
          /\ (r \o r)[5] = r[1] /\ (r \o r)[6] = r[2] /\ (r \o r)[7] = r[3] /\ (r \o r)[8] = r[4]
      BY <3>4
    <3> QED
      BY <3>1, <3>3, <3>4, <3>5
  <2>2. /\ n = 8 /\ Byte(w[0 + 1]) = "esc" /\ Byte(w[0 + 2]) = "[" /\ Byte(w[0 + 3]) = "?" /\ Byte(w[0 + 4]) = "c"
        /\ 0 + 3 \in 1 .. Len(w) /\ 0 + 4 \in 1 .. Len(w)
    BY <1>1, <2>1
  <2>3. /\ Byte(w[4 + 1]) = "esc" /\ Byte(w[4 + 2]) = "[" /\ Byte(w[4 + 3]) = "?" /\ Byte(w[4 + 4]) = "c"
        /\ 4 + 3 \in 1 .. Len(w) /\ 4 + 4 \in 1 .. Len(w)
    BY <1>1, <2>1
  <2>4. w[0 + 1].at = 1 /\ (\A i \in 1 .. 3 : w[0 + i].kind \in Silent) /\ w[0 + 4].kind \in Silent
    BY <1>1, <2>2, ReportAt
  <2>5. (\A i \in 1 .. 3 : w[4 + i].kind \in Silent) /\ w[4 + 4].kind \in Silent /\ Ends(w[4 + 4])
    BY <1>1, <2>3, ReportAt
  <2>6. \A i \in 1 .. 8 : i \in 1 .. 3 \/ i = 4 \/ (i - 4 \in 1 .. 3 /\ i = 4 + (i - 4)) \/ i = 8
    OBVIOUS
  <2>7. \A i \in 1 .. 8 : w[i].kind \in Silent
    BY <1>4, <2>4, <2>5, <2>6
  <2> QED
    BY <1>3, <2>2, <2>4, <2>5, <2>7
<1> QED
  BY <1>2, <1>5, <1>6, <1>7

LEMMA IgnoredStep ==
  ASSUME NEW w, NEW h, NEW l, WireOK(w, h, l.paste), NEW n \in 1 .. Len(w),
         Ignored(ReadOf(w, n)), NEW m \in LinesAfter(l, SubSeq(w, 1, n))
  PROVE  LET k == HalfOf(w[n].kind, w[n].at)
         IN m = l /\ h = "none" /\ k = "none" /\ WireOK(SubSeq(w, n + 1, Len(w)), k, m.paste)
<1> DEFINE k == HalfOf(w[n].kind, w[n].at)
<1>1. h = "none" /\ Ends(w[n]) /\ \A i \in 1 .. n : w[i].kind \in Silent
  BY IgnoredBytes
<1>2. k = "none"
  BY <1>1 DEF Ends, HalfOf
<1>3. m = l
  <2> DEFINE chunk == SubSeq(w, 1, n)
  <2>1. n \in Nat /\ Len(chunk) = n /\ \A i \in 1 .. n : chunk[i].kind \in Silent
    BY <1>1, ReadOfIs DEF WireOK
  <2>2. m \in LinesAfter(l, chunk)
    OBVIOUS
  <2> HIDE DEF chunk
  <2> QED
    BY <2>1, <2>2, SilentChunk
<1>4. m.paste <=> Pasting(l.paste, w, n)
  <2>1. \A i \in 1 .. n : ~Marks(w[i], "paste-on") /\ ~Marks(w[i], "paste-off")
    BY <1>1 DEF Marks, Silent
  <2> QED
    BY <1>3, <2>1 DEF Pasting
<1> QED
  BY <1>1, <1>2, <1>3, <1>4, WireShrinks

-----------------------------------------------------------------------------
(* The keyboard. *)

\* The gate is in step with the harness wherever the reads cut what the
\* terminal sends, as long as somebody reads it.
GateInv ==
  /\ gate \in GateStates /\ ~gate.here /\ ~gate.active
  /\ line \in LineStates
  /\ disposed => ~timer
  /\ ~disposed => WireOK(wire, half, line.paste) /\ InStep(gate, line, half, wire[1].at - 1)

LEMMA GateInvInit == GateInit => GateInv
<1> SUFFICES ASSUME GateInit PROVE GateInv
  OBVIOUS
<1>1. gate \in GateStates /\ ~gate.here /\ ~gate.active
  BY DEF GateInit, GateStates, Gates, HeldBytes
<1>2. /\ line \in LineStates /\ ~line.text /\ ~line.menu /\ ~line.slash /\ ~line.paste /\ ~line.esc
  BY DEF GateInit, EmptyLine, LineStates
<1>3. gate.esc = <<>> /\ ~gate.mouse /\ ~gate.paste /\ ~gate.guard
  BY DEF GateInit
<1>4. WireOK(<<>>, "none", line.paste)
  BY DEF WireOK, Joined
<1>5. InStep(gate, line, "none", wire[1].at - 1)
  BY <1>2, <1>3 DEF InStep, BetweenKeys, Agrees
<1> QED
  BY <1>1, <1>2, <1>4, <1>5 DEF GateInv, GateInit

\* A read of n bytes.
LEMMA ForwardIs ==
  ASSUME GateInv, NEW n \in 1 .. Len(wire), Forward(n)
  PROVE  /\ GateInv'
         /\ used' # used => Clean(line) /\ half \in {"none", "mouse"}
<1> DEFINE bytes == ReadOf(wire, n)
           seen == Observed(gate, bytes)
           chunk == SubSeq(wire, 1, n)
           k == HalfOf(wire[n].kind, wire[n].at)
           v == SubSeq(wire, n + 1, Len(wire))
<1>1. ~disposed /\ disposed' = disposed /\ wire' = v /\ line' \in LinesAfter(line, chunk)
  BY DEF Forward
<1>2. /\ WireOK(wire, half, line.paste) /\ InStep(gate, line, half, wire[1].at - 1)
      /\ gate \in GateStates /\ ~gate.here /\ ~gate.active /\ line \in LineStates
  BY <1>1 DEF GateInv
<1>3. chunk[n] = wire[n]
  <2>1. wire \in Seq(WireBytes) /\ n \in 1 .. n
    BY <1>2 DEF WireOK
  <2> QED
    BY <2>1, ReadOfIs
<1>4. half' = k
  BY <1>3 DEF Forward, Ends, HalfOf
<1>5. IF Ignored(bytes) THEN UNCHANGED <<gate, fresh, timer, pending, used>>
      ELSE /\ gate' = Started(seen)
           /\ fresh' = (fresh \/ seen.active)
           /\ ScheduleQuiet(pending, gate'.dirty, fresh')
  BY DEF Forward, ReadOf
<1>6. CASE Ignored(bytes)
  <2>1. line' = line /\ half = "none" /\ k = "none" /\ WireOK(v, k, line'.paste)
    BY <1>1, <1>2, <1>6, IgnoredStep
  <2>2. InStep(gate, line, half', v[1].at - 1)
    BY <1>2, <1>4, <2>1 DEF InStep
  <2>3. UNCHANGED <<gate, timer, used>>
    BY <1>5, <1>6
  <2> QED
    BY <1>1, <1>2, <1>4, <2>1, <2>2, <2>3 DEF GateInv
<1>7. CASE ~Ignored(bytes)
  <2>1. /\ seen \in GateStates /\ line' \in LineStates
        /\ WireOK(v, k, line'.paste) /\ InStep(seen, line', k, v[1].at - 1)
        /\ ~seen.dirty /\ ~seen.active => Clean(line) /\ half \in {"none", "mouse"}
    BY <1>1, <1>2, ReadStep
  <2>2. gate' = Started(seen) /\ (fresh' <=> fresh \/ seen.active) /\ ScheduleQuiet(pending, gate'.dirty, fresh')
    BY <1>5, <1>7
  <2> HIDE DEF seen, v, k
  <2>3. gate' \in GateStates /\ ~gate'.here /\ ~gate'.active /\ gate'.dirty = seen.dirty
    BY <2>1, <2>2, StartedIs
  <2>4. InStep(gate', line', k, v[1].at - 1)
    BY <2>1, <2>2, StartedIs
  <2>5. GateInv'
    BY <1>1, <1>4, <2>1, <2>3, <2>4 DEF GateInv
  <2>6. ASSUME used' # used PROVE ~gate'.dirty /\ ~fresh'
    BY <2>2, <2>6 DEF ScheduleQuiet, TryInject
  <2> QED
    BY <2>1, <2>2, <2>3, <2>5, <2>6
<1> QED
  BY <1>6, <1>7

LEMMA TypesIs ==
  ASSUME GateInv, NEW kind \in Kinds, Types(kind)
  PROVE  GateInv' /\ used' = used
<1>1. /\ ~disposed /\ wire' = wire \o Sent(kind)
      /\ UNCHANGED <<gate, used, timer, disposed, line, half>>
      /\ kind \in Silent \cup
           (IF PastingAfter(Len(wire)) THEN {"text", "backslash", "enter", "paste-off"} ELSE Kinds \ {"paste-off"})
  BY DEF Types
<1>2. WireOK(wire, half, line.paste) /\ InStep(gate, line, half, wire[1].at - 1)
  BY <1>1 DEF GateInv
<1>3. kind \in AllKinds
  BY KindsAssumption DEF AllKinds
<1>4. PastingAfter(Len(wire)) <=> Pasting(line.paste, wire, Len(wire))
  BY DEF PastingAfter, Pasting
<1>5. kind = "escape" => ~Pasting(line.paste, wire, Len(wire))
  BY <1>1, <1>4 DEF Silent
<1>6. WireOK(wire', half, line.paste) /\ (half # "none" => wire'[1] = wire[1])
  BY <1>1, <1>2, <1>3, <1>5, WireGrows
<1>7. InStep(gate, line, half, wire'[1].at - 1)
  BY <1>2, <1>6 DEF InStep
<1> QED
  BY <1>1, <1>6, <1>7 DEF GateInv

LEMMA GateStep ==
  ASSUME GateInv, [GateNext]_keyboard
  PROVE  /\ GateInv'
         /\ used' # used => Clean(line) /\ half \in {"none", "mouse"}
<1>1. ASSUME ~disposed, ~gate.dirty PROVE Clean(line) /\ half \in {"none", "mouse"}
  <2>1. InStep(gate, line, half, wire[1].at - 1)
    BY <1>1 DEF GateInv
  <2> QED
    BY <1>1, <2>1, CleanGate
<1>2. ASSUME UNCHANGED <<gate, line, half, wire, disposed>>, disposed => ~timer' PROVE GateInv'
  BY <1>2 DEF GateInv
<1>3. CASE \E kind \in Kinds : Types(kind)
  BY <1>3, TypesIs
<1>4. CASE \E n \in 1 .. Len(wire) : Forward(n)
  BY <1>4, ForwardIs
<1>5. CASE QuietPasses
  BY <1>2, <1>5 DEF QuietPasses, GateInv
<1>6. CASE TimerFires
  <2>1. timer /\ ~disposed /\ TryInject(pending, gate.dirty) /\ UNCHANGED <<gate, disposed, wire, line, half>>
    BY <1>6 DEF TimerFires, GateInv
  <2>2. used' # used => ~gate.dirty
    BY <2>1 DEF TryInject
  <2> QED
    BY <1>1, <1>2, <2>1, <2>2
<1>7. CASE \E content \in {"empty", "name", "unprintable"} : HookWrites(content)
  BY <1>2, <1>7 DEF HookWrites, GateInv
<1>8. CASE WatcherReads
  <2>1. ~disposed /\ UNCHANGED <<gate, disposed, wire, line, half>>
    BY <1>8 DEF WatcherReads
  <2>2. used' # used => ~gate.dirty
    BY <1>8 DEF WatcherReads, ScheduleQuiet, TryInject
  <2> QED
    BY <1>1, <1>2, <2>1, <2>2
<1>9. CASE Dispose
  BY <1>9 DEF Dispose, GateInv
<1>10. CASE UNCHANGED keyboard
  BY <1>2, <1>10 DEF keyboard, GateInv
<1> QED
  BY <1>3, <1>4, <1>5, <1>6, <1>7, <1>8, <1>9, <1>10 DEF GateNext

\* codedeck types its command only into an empty line of the harness: with no
\* text of the user, no menu, no paste and no half of a key, wherever the
\* reads have cut the keys and reports (createInputGate, startPtySession).
THEOREM CleanInjection == GateSpec => InjectsOnCleanLine
<1>1. GateInit => GateInv
  BY GateInvInit
<1>2. GateInv /\ [GateNext]_keyboard => GateInv'
  BY GateStep
<1>3. GateInv /\ [GateNext]_keyboard => [used' # used => Clean(line) /\ half \in {"none", "mouse"}]_keyboard
  BY GateStep
<1> QED
  BY <1>1, <1>2, <1>3, PTL DEF GateSpec, InjectsOnCleanLine

-----------------------------------------------------------------------------
(* The setup wizard: its screens and its answers. *)

WizardScreens ==
  [kind : {"role", "effort", "mode", "sandbox", "autocompact"}, about : Roles \cup {Unset}]
    \cup [kind : {"parameter"}, about : 1 .. 4]
WizardRows == ModelIds \cup Efforts \cup {"preset", "custom", "value", "typed", NoRow}
WizardAnswers ==
  [screen : WizardScreens, kind : {"picked", "skipped", "aborted"}, item : WizardRows]

WizardTypes ==
  /\ screens \in Seq(WizardScreens) /\ results \in Seq(WizardAnswers)
  /\ row \in WizardRows /\ confirming = asked

\* A role has one screen, which it leaves with its answer.
ScreensOnce ==
  /\ \A j, k \in DOMAIN screens :
       screens[j] = screens[k] /\ screens[j].kind = "role" => j = k
  /\ \A i \in DOMAIN results, j \in DOMAIN screens :
       screens[j].kind = "role" => results[i].screen # screens[j]
  /\ \A i, k \in DOMAIN results :
       results[i].screen = results[k].screen /\ results[i].screen.kind = "role" => i = k

\* The screen of an effort comes right behind the pick of its model, and its
\* answer right behind that answer.
PicksRole(answer, r) == answer.screen = Screen("role", r) /\ answer.kind = "picked"
EffortFollows ==
  \A j \in DOMAIN screens : screens[j].kind = "effort" =>
    j = 1 /\ results # <<>> /\ PicksRole(results[Len(results)], screens[j].about)
EffortBelongs ==
  \A i \in DOMAIN results : results[i].screen.kind = "effort" =>
    i > 1 /\ PicksRole(results[i - 1], results[i].screen.about)

OffTwice ==
  \A i \in DOMAIN results :
    results[i].screen.kind = "role" /\ results[i].kind = "picked" /\ results[i].item \in Off =>
      <<results[i].screen, results[i].item>> \in twice

AnswersInv == ScreensOnce /\ EffortFollows /\ EffortBelongs /\ OffTwice

LEMMA ConcatIs ==
  ASSUME NEW S, NEW a \in Seq(S), NEW b \in Seq(S)
  PROVE  /\ a \o b \in Seq(S) /\ Len(a \o b) = Len(a) + Len(b)
         /\ DOMAIN (a \o b) = 1 .. Len(a) + Len(b)
         /\ \A j \in 1 .. Len(a) + Len(b) : (a \o b)[j] = IF j \leq Len(a) THEN a[j] ELSE b[j - Len(a)]
  OBVIOUS

\* An answer replaces the first screen by its follow-up, if it has one.
LEMMA Behind ==
  ASSUME NEW S, NEW f \in Seq(S), Len(f) \leq 1, NEW s \in Seq(S), s # <<>>
  PROVE  /\ f \o Tail(s) \in Seq(S)
         /\ \A j \in DOMAIN (f \o Tail(s)) :
              \/ j = 1 /\ Len(f) = 1 /\ (f \o Tail(s))[j] = f[1]
              \/ /\ j + 1 - Len(f) \in DOMAIN s /\ j + 1 - Len(f) # 1
                 /\ (f \o Tail(s))[j] = s[j + 1 - Len(f)]
<1> DEFINE t == Tail(s)
<1>1. t \in Seq(S) /\ Len(t) = Len(s) - 1 /\ \A k \in 1 .. Len(t) : t[k] = s[k + 1]
  OBVIOUS
<1>2. Len(f) \in Nat /\ Len(s) \in Nat /\ DOMAIN s = 1 .. Len(s)
  OBVIOUS
<1> HIDE DEF t
<1>3. /\ f \o t \in Seq(S) /\ Len(f \o t) = Len(f) + Len(t) /\ DOMAIN (f \o t) = 1 .. Len(f) + Len(t)
      /\ \A j \in 1 .. Len(f) + Len(t) : (f \o t)[j] = IF j \leq Len(f) THEN f[j] ELSE t[j - Len(f)]
  BY <1>1, ConcatIs
<1>4. ASSUME NEW j \in DOMAIN (f \o t)
      PROVE  \/ j = 1 /\ Len(f) = 1 /\ (f \o t)[j] = f[1]
             \/ /\ j + 1 - Len(f) \in DOMAIN s /\ j + 1 - Len(f) # 1
                /\ (f \o t)[j] = s[j + 1 - Len(f)]
  <2>1. CASE j \leq Len(f)
    <3>1. j = 1 /\ Len(f) = 1
      <4>1. \A a, b \in Nat : \A i \in 1 .. a + b : a \leq 1 /\ i \leq a => i = 1 /\ a = 1
        OBVIOUS
      <4>2. j \in 1 .. Len(f) + Len(t) /\ Len(t) \in Nat
        BY <1>1, <1>3
      <4> QED BY <1>2, <2>1, <4>1, <4>2
    <3> QED BY <1>1, <1>3, <2>1, <3>1
  <2>2. CASE ~(j \leq Len(f))
    <3>1. j - Len(f) \in 1 .. Len(t) /\ (f \o t)[j] = t[j - Len(f)]
      BY <1>1, <1>2, <1>3, <2>2
    <3>2. t[j - Len(f)] = s[j - Len(f) + 1] /\ j - Len(f) + 1 = j + 1 - Len(f)
      BY <1>1, <1>2, <3>1
    <3> QED BY <1>1, <1>2, <3>1, <3>2
  <2> QED BY <2>1, <2>2
<1> QED BY <1>3, <1>4 DEF t

LEMMA FollowupsAre ==
  ASSUME NEW s \in WizardScreens, NEW a
  PROVE  /\ Followups(s, a) \in Seq(WizardScreens) /\ Len(Followups(s, a)) \leq 1
         /\ Len(Followups(s, a)) = 1 =>
              /\ Followups(s, a)[1].kind # "role"
              /\ Followups(s, a)[1].kind = "effort" =>
                   s.kind = "role" /\ a \in ModelIds /\ Followups(s, a)[1].about = s.about
<1>1. CASE s.kind = "role" /\ a \in ModelIds \ NoEffort
  <2>1. Followups(s, a) = <<Screen("effort", s.about)>>
    BY <1>1 DEF Followups
  <2>2. Screen("effort", s.about) \in WizardScreens
    BY <1>1 DEF Screen, WizardScreens
  <2> QED BY <1>1, <2>1, <2>2 DEF Screen
<1>2. CASE s.kind = "mode" /\ a = "custom"
  <2>1. Followups(s, a) = <<Parameter(1)>>
    BY <1>2 DEF Followups
  <2>2. Parameter(1) \in WizardScreens /\ Parameter(1).kind = "parameter"
    BY DEF Parameter, Screen, WizardScreens
  <2> QED BY <2>1, <2>2
<1>3. CASE s.kind = "parameter"
  <2>1. s.about \in 1 .. 4
    BY <1>3 DEF WizardScreens
  <2>2. \A n \in 1 .. 4 : Parameter(n) \in WizardScreens /\ Parameter(n).kind = "parameter"
    BY DEF Parameter, Screen, WizardScreens
  <2>3. \/ Followups(s, a) = <<>>
        \/ Followups(s, a) = <<Parameter(4)>>
        \/ s.about < 4 /\ Followups(s, a) = <<Parameter(s.about + 1)>>
    BY <1>3, <2>1 DEF Followups
  <2>4. ASSUME NEW n \in 1 .. 4, Followups(s, a) = <<Parameter(n)>>
        PROVE  /\ Followups(s, a) \in Seq(WizardScreens) /\ Len(Followups(s, a)) = 1
               /\ Followups(s, a)[1].kind = "parameter"
    BY <2>2, <2>4
  <2>5. \/ Followups(s, a) = <<>>
        \/ \E n \in 1 .. 4 : Followups(s, a) = <<Parameter(n)>>
    BY <2>1, <2>3
  <2>6. CASE Followups(s, a) = <<>>
    BY <2>6
  <2>7. CASE \E n \in 1 .. 4 : Followups(s, a) = <<Parameter(n)>>
    BY <2>4, <2>7
  <2> QED BY <2>5, <2>6, <2>7
<1>4. CASE /\ ~(s.kind = "role" /\ a \in ModelIds \ NoEffort)
           /\ ~(s.kind = "mode" /\ a = "custom")
           /\ s.kind # "parameter"
  <2>1. Followups(s, a) = <<>>
    BY <1>4 DEF Followups
  <2> QED BY <2>1
<1> QED BY <1>1, <1>2, <1>3, <1>4

LEMMA FirstRowsAre ==
  ASSUME NEW s \in WizardScreens
  PROVE  FirstRows(s) \subseteq WizardRows
<1>1. s.kind # "role" => (CHOOSE r \in InList(s) : TRUE) \in WizardRows
  <2>1. s.kind = "effort" => InList(s) = Efforts
    BY DEF InList
  <2>2. s.kind # "role" /\ s.kind # "effort" => InList(s) \in {{"preset", "custom"}, {"value"}}
    BY DEF InList
  <2>3. s.kind # "role" => InList(s) # {} /\ InList(s) \subseteq WizardRows
    BY <2>1, <2>2, WizardAssumption DEF WizardAssumption, WizardRows
  <2> QED BY <2>3
<1> QED BY <1>1 DEF FirstRows, WizardRows

LEMMA RowsAre == ASSUME NEW s PROVE Rows(s) \subseteq WizardRows
BY DEF Rows, InList, Typed, WizardRows, ModelIds

-----------------------------------------------------------------------------
(* The screens at first. *)

LEMMA ScreensFirst ==
  /\ ScreensAtFirst \in Seq(WizardScreens)
  /\ ScreensAtFirst # <<>>
  /\ \A j \in DOMAIN ScreensAtFirst : ScreensAtFirst[j].kind # "effort"
  /\ \A j, k \in DOMAIN ScreensAtFirst :
       ScreensAtFirst[j] = ScreensAtFirst[k] /\ ScreensAtFirst[j].kind = "role" => j = k
<1> DEFINE rest == <<Screen("mode", Unset), Screen("sandbox", Unset), Screen("autocompact", Unset)>>
           n == Len(RoleOrder)
           roles == RoleScreens
<1>1. n \in Nat /\ DOMAIN RoleOrder = 1 .. n /\ \A i \in 1 .. n : RoleOrder[i] \in Roles
  BY WizardAssumption DEF WizardAssumption
<1>2. /\ roles = [i \in 1 .. n |-> Screen("role", RoleOrder[i])]
      /\ \A i \in 1 .. n : Screen("role", RoleOrder[i]) \in WizardScreens
  BY <1>1 DEF RoleScreens, Screen, WizardScreens
<1>3. roles \in Seq(WizardScreens) /\ Len(roles) = n /\ \A i \in 1 .. n : roles[i] = Screen("role", RoleOrder[i])
  BY <1>1, <1>2
<1>4. /\ Screen("mode", Unset) \in WizardScreens /\ Screen("sandbox", Unset) \in WizardScreens
      /\ Screen("autocompact", Unset) \in WizardScreens
  BY DEF Screen, WizardScreens
<1>5. /\ rest \in Seq(WizardScreens) /\ Len(rest) = 3
      /\ \A i \in 1 .. 3 : rest[i].kind \in {"mode", "sandbox", "autocompact"}
  BY <1>4 DEF Screen
<1> DEFINE every == roles \o rest
<1> HIDE DEF roles, rest, n
<1>6. /\ every \in Seq(WizardScreens) /\ Len(every) = Len(roles) + Len(rest)
      /\ DOMAIN every = 1 .. Len(roles) + Len(rest)
      /\ \A j \in 1 .. Len(roles) + Len(rest) :
           every[j] = IF j \leq Len(roles) THEN roles[j] ELSE rest[j - Len(roles)]
  <2>1. roles \in Seq(WizardScreens) /\ rest \in Seq(WizardScreens)
    BY <1>3, <1>5
  <2> QED BY <2>1, ConcatIs
<1> HIDE DEF every
<1>7. /\ Len(every) = n + 3 /\ DOMAIN every = 1 .. n + 3
      /\ \A j \in 1 .. n + 3 : every[j] = IF j \leq n THEN roles[j] ELSE rest[j - n]
  BY <1>3, <1>5, <1>6
<1>8. \A j \in 1 .. n + 3 :
        \/ j \in 1 .. n /\ every[j] = Screen("role", RoleOrder[j])
        \/ every[j].kind \in {"mode", "sandbox", "autocompact"}
  <2> SUFFICES ASSUME NEW j \in 1 .. n + 3
               PROVE  \/ j \in 1 .. n /\ every[j] = Screen("role", RoleOrder[j])
                      \/ every[j].kind \in {"mode", "sandbox", "autocompact"}
    OBVIOUS
  <2>1. CASE j \leq n
    BY <1>1, <1>3, <1>7, <2>1
  <2>2. CASE ~(j \leq n)
    <3>1. j - n \in 1 .. 3 /\ every[j] = rest[j - n]
      BY <1>1, <1>7, <2>2
    <3> QED BY <1>5, <3>1
  <2> QED BY <2>1, <2>2
<1>9. ASSUME NEW j \in 1 .. n + 3 PROVE every[j].kind # "effort"
  <2>1. \A x : Screen("role", x).kind = "role"
    BY DEF Screen
  <2> QED BY <1>8, <2>1
<1>10. ASSUME NEW j \in 1 .. n + 3, NEW k \in 1 .. n + 3, every[j] = every[k], every[j].kind = "role"
       PROVE  j = k
  <2>1. /\ j \in 1 .. n /\ every[j] = Screen("role", RoleOrder[j])
        /\ k \in 1 .. n /\ every[k] = Screen("role", RoleOrder[k])
    BY <1>8, <1>10
  <2>2. every[j].about = RoleOrder[j] /\ every[k].about = RoleOrder[k]
    BY <2>1 DEF Screen
  <2>3. RoleOrder[j] = RoleOrder[k]
    BY <1>10, <2>2
  <2> QED BY <1>1, <2>1, <2>3, WizardAssumption DEF WizardAssumption
<1>11. ScreensAtFirst = every
  BY DEF ScreensAtFirst, every, roles, rest
<1>12. every # <<>>
  BY <1>1, <1>7
<1> QED BY <1>6, <1>7, <1>9, <1>10, <1>11, <1>12

-----------------------------------------------------------------------------
(* The keys. *)

LEMMA WizardInitially == WizardInit => WizardTypes /\ AnswersInv
<1> SUFFICES ASSUME WizardInit PROVE WizardTypes /\ AnswersInv
  OBVIOUS
<1>1. screens = ScreensAtFirst /\ results = <<>> /\ confirming = asked /\ row \in FirstRows(Head(ScreensAtFirst))
  BY DEF WizardInit
<1>2. Head(ScreensAtFirst) \in WizardScreens
  BY ScreensFirst
<1>3. row \in WizardRows
  BY <1>1, <1>2, FirstRowsAre
<1>4. results \in Seq(WizardAnswers) /\ DOMAIN results = {}
  BY <1>1
<1>5. WizardTypes
  BY <1>1, <1>3, <1>4, ScreensFirst DEF WizardTypes
<1>6. ScreensOnce
  BY <1>1, <1>4, ScreensFirst DEF ScreensOnce
<1>7. EffortFollows /\ EffortBelongs /\ OffTwice
  BY <1>1, <1>4, ScreensFirst DEF EffortFollows, EffortBelongs, OffTwice
<1> QED BY <1>5, <1>6, <1>7 DEF AnswersInv

\* Where the next screens come from: the follow-up of an answer, or behind it.
LEMMA NextScreens ==
  ASSUME WizardTypes, screens # <<>>, NEW kind, NEW item, Answer(kind, item)
  PROVE  /\ screens' \in Seq(WizardScreens)
         /\ \E d \in {0, 1} : \A j \in DOMAIN screens' :
              \/ /\ j = 1 /\ screens'[1].kind # "role"
                 /\ screens'[1].kind = "effort" =>
                      Here.kind = "role" /\ kind = "picked" /\ screens'[1].about = Here.about
              \/ j + 1 - d \in DOMAIN screens /\ j + 1 - d # 1 /\ screens'[j] = screens[j + 1 - d]
<1> DEFINE a == IF kind = "picked" THEN item ELSE NoRow
           f == Followups(Here, a)
<1>1. screens \in Seq(WizardScreens) /\ Here \in WizardScreens
  BY DEF WizardTypes, Here
<1>2. CASE kind = "aborted"
  <2>1. screens' = <<>>
    BY <1>2 DEF Answer
  <2> QED BY <2>1
<1>3. CASE kind # "aborted"
  <2>1. screens' = f \o Tail(screens)
    BY <1>3 DEF Answer
  <2>2. /\ f \in Seq(WizardScreens) /\ Len(f) \leq 1
        /\ Len(f) = 1 => /\ f[1].kind # "role"
                         /\ f[1].kind = "effort" =>
                              Here.kind = "role" /\ a \in ModelIds /\ f[1].about = Here.about
    BY <1>1, FollowupsAre
  <2>3. a \in ModelIds => kind = "picked"
    BY WizardAssumption DEF WizardAssumption
  <2> HIDE DEF f, a
  <2>4. /\ screens' \in Seq(WizardScreens)
        /\ \A j \in DOMAIN screens' :
             \/ j = 1 /\ Len(f) = 1 /\ screens'[j] = f[1]
             \/ /\ j + 1 - Len(f) \in DOMAIN screens /\ j + 1 - Len(f) # 1
                /\ screens'[j] = screens[j + 1 - Len(f)]
    BY <1>1, <2>1, <2>2, Behind
  <2>5. Len(f) \in {0, 1}
    <3>1. Len(f) \in Nat /\ Len(f) \leq 1
      BY <2>2
    <3>2. \A n \in Nat : n \leq 1 => n \in {0, 1}
      OBVIOUS
    <3> QED BY <3>1, <3>2
  <2>6. ASSUME NEW j \in DOMAIN screens'
        PROVE  \/ /\ j = 1 /\ screens'[1].kind # "role"
                  /\ screens'[1].kind = "effort" =>
                       Here.kind = "role" /\ kind = "picked" /\ screens'[1].about = Here.about
               \/ /\ j + 1 - Len(f) \in DOMAIN screens /\ j + 1 - Len(f) # 1
                  /\ screens'[j] = screens[j + 1 - Len(f)]
    BY <2>2, <2>3, <2>4
  <2> QED BY <2>4, <2>5, <2>6
<1> QED BY <1>2, <1>3

\* The answers grow by the one of this screen, or do not.
LEMMA NextAnswers ==
  ASSUME WizardTypes, screens # <<>>, NEW kind \in {"picked", "skipped", "aborted"},
         NEW item \in WizardRows, Answer(kind, item)
  PROVE  /\ results' \in Seq(WizardAnswers)
         /\ DOMAIN results \subseteq DOMAIN results'
         /\ \A i \in DOMAIN results : results'[i] = results[i]
         /\ \A i \in DOMAIN results' \ DOMAIN results :
              /\ i = Len(results) + 1 /\ i = Len(results')
              /\ results'[i].screen = Here /\ results'[i].kind = kind /\ results'[i].item = item
         /\ Here.kind \in {"role", "effort"} =>
              Len(results') = Len(results) + 1 /\ Len(results') \in DOMAIN results' \ DOMAIN results
<1> DEFINE new == [screen |-> Here, kind |-> kind, item |-> item]
<1>1. results \in Seq(WizardAnswers) /\ Here \in WizardScreens
  BY DEF WizardTypes, Here
<1>2. new \in WizardAnswers /\ new.screen = Here /\ new.kind = kind /\ new.item = item
  BY <1>1 DEF WizardAnswers
<1>3. \/ results' = Append(results, new)
      \/ results' = results /\ Here.kind \notin {"role", "effort"}
  BY DEF Answer
<1> HIDE DEF new
<1>4. CASE results' = Append(results, new)
  <2>1. /\ results' \in Seq(WizardAnswers) /\ Len(results) \in Nat /\ Len(results') = Len(results) + 1
        /\ DOMAIN results = 1 .. Len(results) /\ DOMAIN results' = 1 .. Len(results) + 1
        /\ results'[Len(results) + 1] = new
        /\ \A i \in 1 .. Len(results) : results'[i] = results[i]
    BY <1>1, <1>2, <1>4
  <2> QED BY <1>2, <2>1
<1>5. CASE results' = results /\ Here.kind \notin {"role", "effort"}
  BY <1>1, <1>5
<1> QED BY <1>3, <1>4, <1>5

LEMMA AnswerKeeps ==
  ASSUME WizardTypes, AnswersInv, screens # <<>>, NEW kind \in {"picked", "skipped", "aborted"},
         NEW item \in WizardRows, Answer(kind, item), twice \subseteq twice',
         Here.kind = "role" /\ kind = "picked" /\ item \in Off => <<Here, item>> \in twice'
  PROVE  AnswersInv'
<1>1. PICK d \in {0, 1} : \A j \in DOMAIN screens' :
        \/ /\ j = 1 /\ screens'[1].kind # "role"
           /\ screens'[1].kind = "effort" =>
                Here.kind = "role" /\ kind = "picked" /\ screens'[1].about = Here.about
        \/ j + 1 - d \in DOMAIN screens /\ j + 1 - d # 1 /\ screens'[j] = screens[j + 1 - d]
  BY NextScreens
<1>2. /\ screens \in Seq(WizardScreens) /\ screens' \in Seq(WizardScreens)
      /\ results \in Seq(WizardAnswers) /\ results' \in Seq(WizardAnswers)
  BY NextScreens, NextAnswers DEF WizardTypes
<1>3. /\ 1 \in DOMAIN screens /\ Here = screens[1] /\ Here \in WizardScreens
      /\ DOMAIN screens' = 1 .. Len(screens') /\ Len(screens') \in Nat
      /\ DOMAIN results = 1 .. Len(results) /\ Len(results) \in Nat
  BY <1>2 DEF Here
<1>4. /\ DOMAIN results \subseteq DOMAIN results' /\ \A i \in DOMAIN results : results'[i] = results[i]
      /\ \A i \in DOMAIN results' \ DOMAIN results :
           /\ i = Len(results) + 1 /\ i = Len(results')
           /\ results'[i].screen = Here /\ results'[i].kind = kind /\ results'[i].item = item
      /\ Here.kind \in {"role", "effort"} =>
           Len(results') = Len(results) + 1 /\ Len(results') \in DOMAIN results' \ DOMAIN results
  BY NextAnswers
\* The screens of the roles are among those behind this one.
<1>5. ASSUME NEW j \in DOMAIN screens', screens'[j].kind = "role"
      PROVE  j + 1 - d \in DOMAIN screens /\ j + 1 - d # 1 /\ screens'[j] = screens[j + 1 - d]
  BY <1>1, <1>5
<1>6. ASSUME NEW j \in DOMAIN screens', NEW k \in DOMAIN screens',
             screens'[j] = screens'[k], screens'[j].kind = "role"
      PROVE  j = k
  <2>1. j + 1 - d = k + 1 - d
    BY <1>5, <1>6 DEF AnswersInv, ScreensOnce
  <2> QED BY <1>3, <2>1
<1>7. ASSUME NEW i \in DOMAIN results', NEW j \in DOMAIN screens', screens'[j].kind = "role"
      PROVE  results'[i].screen # screens'[j]
  <2>1. PICK k \in DOMAIN screens : k # 1 /\ screens'[j] = screens[k]
    BY <1>5, <1>7
  <2>2. CASE i \in DOMAIN results
    BY <1>4, <1>7, <2>1, <2>2 DEF AnswersInv, ScreensOnce
  <2>3. CASE i \notin DOMAIN results
    BY <1>3, <1>4, <1>7, <2>1, <2>3 DEF AnswersInv, ScreensOnce
  <2> QED BY <2>2, <2>3
<1>8. ASSUME NEW i \in DOMAIN results', NEW k \in DOMAIN results',
             results'[i].screen = results'[k].screen, results'[i].screen.kind = "role"
      PROVE  i = k
  <2>1. ASSUME NEW m \in DOMAIN results, results[m].screen.kind = "role" PROVE results[m].screen # Here
    BY <1>3, <2>1 DEF AnswersInv, ScreensOnce
  <2>2. CASE i \in DOMAIN results /\ k \in DOMAIN results
    BY <1>4, <1>8, <2>2 DEF AnswersInv, ScreensOnce
  <2>3. CASE i \in DOMAIN results /\ k \notin DOMAIN results
    BY <1>4, <1>8, <2>1, <2>3
  <2>4. CASE i \notin DOMAIN results /\ k \in DOMAIN results
    BY <1>4, <1>8, <2>1, <2>4
  <2>5. CASE i \notin DOMAIN results /\ k \notin DOMAIN results
    BY <1>4, <2>5
  <2> QED BY <2>2, <2>3, <2>4, <2>5
<1>9. ScreensOnce'
  BY <1>6, <1>7, <1>8 DEF ScreensOnce
<1>10. EffortFollows'
  <2> SUFFICES ASSUME NEW j \in DOMAIN screens', screens'[j].kind = "effort"
               PROVE  j = 1 /\ results' # <<>> /\ PicksRole(results'[Len(results')], screens'[j].about)
    BY DEF EffortFollows, PicksRole
  <2>1. ~(j + 1 - d \in DOMAIN screens /\ j + 1 - d # 1 /\ screens'[j] = screens[j + 1 - d])
    BY DEF AnswersInv, EffortFollows
  <2>2. j = 1 /\ Here.kind = "role" /\ kind = "picked" /\ screens'[1].about = Here.about
    BY <1>1, <2>1
  <2>3. /\ Len(results') = Len(results) + 1 /\ results'[Len(results')].screen = Here
        /\ results'[Len(results')].kind = "picked"
    BY <1>4, <2>2
  <2>4. Here = Screen("role", Here.about)
    BY <1>3, <2>2 DEF Screen, WizardScreens
  <2>5. results' # <<>>
    BY <1>3, <2>3
  <2> QED BY <2>2, <2>3, <2>4, <2>5 DEF PicksRole
<1>11. EffortBelongs'
  <2> SUFFICES ASSUME NEW i \in DOMAIN results', results'[i].screen.kind = "effort"
               PROVE  i > 1 /\ PicksRole(results'[i - 1], results'[i].screen.about)
    BY DEF EffortBelongs, PicksRole
  <2>1. CASE i \in DOMAIN results
    <3>1. i > 1 /\ PicksRole(results[i - 1], results[i].screen.about)
      BY <1>4, <2>1 DEF AnswersInv, EffortBelongs
    <3>2. i - 1 \in DOMAIN results
      BY <1>3, <2>1, <3>1
    <3> QED BY <1>4, <2>1, <3>1, <3>2
  <2>2. CASE i \notin DOMAIN results
    <3>1. Here.kind = "effort" /\ i = Len(results) + 1 /\ results'[i].screen = Here
      BY <1>4, <2>2
    <3>2. results # <<>> /\ PicksRole(results[Len(results)], Here.about)
      BY <1>3, <3>1 DEF AnswersInv, EffortFollows
    <3>3. Len(results) \in DOMAIN results /\ i - 1 = Len(results) /\ i > 1
      BY <1>2, <1>3, <3>1, <3>2
    <3> QED BY <1>4, <3>1, <3>2, <3>3
  <2> QED BY <2>1, <2>2
<1>12. OffTwice'
  <2> SUFFICES ASSUME NEW i \in DOMAIN results', results'[i].screen.kind = "role",
                      results'[i].kind = "picked", results'[i].item \in Off
               PROVE  <<results'[i].screen, results'[i].item>> \in twice'
    BY DEF OffTwice
  <2>1. CASE i \in DOMAIN results
    BY <1>4, <2>1 DEF AnswersInv, OffTwice
  <2>2. CASE i \notin DOMAIN results
    BY <1>4, <2>2
  <2> QED BY <2>1, <2>2
<1> QED BY <1>9, <1>10, <1>11, <1>12 DEF AnswersInv

LEMMA WizardStep == WizardTypes /\ AnswersInv /\ [WizardNext]_wizardVars => WizardTypes' /\ AnswersInv'
<1> SUFFICES ASSUME WizardTypes, AnswersInv, [WizardNext]_wizardVars PROVE WizardTypes' /\ AnswersInv'
  OBVIOUS
<1>0. ASSUME UNCHANGED <<screens, results, twice>> PROVE AnswersInv'
  BY <1>0 DEF AnswersInv, ScreensOnce, EffortFollows, EffortBelongs, OffTwice
<1>1. CASE Presses
  <2>1. UNCHANGED <<screens, results, twice>> /\ confirming' = NoRow /\ asked' = NoRow /\ row' \in Rows(Here)
    BY <1>1 DEF Presses, Moves
  <2>2. row' \in WizardRows
    BY <2>1, RowsAre
  <2> QED BY <1>0, <2>1, <2>2 DEF WizardTypes
<1>2. CASE Pastes
  BY <1>0, <1>2 DEF Pastes, WizardTypes
<1>3. CASE AsksAgain
  BY <1>0, <1>3 DEF AsksAgain, WizardTypes
<1>4. CASE Finishes
  BY <1>0, <1>4 DEF Finishes, WizardTypes
<1>5. ASSUME NEW kind \in {"picked", "skipped", "aborted"}, NEW item \in WizardRows, screens # <<>>,
             Answer(kind, item), twice \subseteq twice',
             Here.kind = "role" /\ kind = "picked" /\ item \in Off => <<Here, item>> \in twice'
      PROVE  WizardTypes' /\ AnswersInv'
  <2>1. screens' \in Seq(WizardScreens) /\ results' \in Seq(WizardAnswers)
    BY <1>5, NextScreens, NextAnswers
  <2>2. confirming' = asked' /\ row' \in (IF screens' = <<>> THEN {NoRow} ELSE FirstRows(Head(screens')))
    BY <1>5 DEF Answer
  <2>3. row' \in WizardRows
    <3>1. CASE screens' = <<>>
      BY <2>2, <3>1 DEF WizardRows
    <3>2. CASE screens' # <<>>
      <4>1. Head(screens') \in WizardScreens
        BY <2>1, <3>2
      <4> QED BY <2>2, <3>2, <4>1, FirstRowsAre
    <3> QED BY <3>1, <3>2
  <2> QED BY <1>5, <2>1, <2>2, <2>3, AnswerKeeps DEF WizardTypes
<1>6. NoRow \in WizardRows
  BY DEF WizardRows
<1>7. CASE Picks
  <2>1. /\ screens # <<>> /\ Answer("picked", row) /\ row \in WizardRows /\ row # NoRow
        /\ Accepted(Here, row, confirming) /\ confirming = asked
        /\ twice' = IF asked = row THEN twice \cup {<<Here, row>>} ELSE twice
    BY <1>7 DEF Picks, Running, WizardTypes
  <2>2. ASSUME Here.kind = "role", row \in Off PROVE <<Here, row>> \in twice'
    <3>1. row \notin InList(Here)
      BY <2>2, WizardAssumption DEF WizardAssumption, InList
    <3> QED BY <2>1, <3>1 DEF Accepted
  <2>3. twice \subseteq twice'
    BY <2>1
  <2> QED BY <1>5, <2>1, <2>2, <2>3
<1>8. CASE Skips \/ Aborts
  BY <1>5, <1>6, <1>8 DEF Skips, Aborts, Running
<1>9. CASE UNCHANGED wizardVars
  BY <1>0, <1>9 DEF wizardVars, WizardTypes
<1> QED BY <1>1, <1>2, <1>3, <1>4, <1>7, <1>8, <1>9 DEF WizardNext

\* What is saved for a role.
SavedRole(r) ==
  \/ bindings'[r] = bindings[r]
  \/ \E i \in DOMAIN results :
        /\ results[i].screen = Screen("role", r) /\ results[i].kind = "picked"
        /\ results[i].item = bindings'[r].model
        /\ bindings'[r].effort # Unset =>
              /\ i + 1 \in DOMAIN results
              /\ results[i + 1].screen = Screen("effort", r)
              /\ results[i + 1].item = bindings'[r].effort
        /\ bindings'[r].model \in Off => <<results[i].screen, bindings'[r].model>> \in twice

LEMMA AnswersAre ==
  ASSUME NEW kind, NEW about, NEW x \in Answers(kind, about)
  PROVE  \E i \in DOMAIN results :
           results[i].screen = Screen(kind, about) /\ results[i].kind = "picked" /\ results[i].item = x
BY DEF Answers

\* A role's answer, and with it the answer of its effort.
LEMMA RoleSaved ==
  ASSUME WizardTypes, AnswersInv, NEW r \in Roles, bindings'[r] = WithEffort(r, Collected(r))
  PROVE  SavedRole(r)
<1>1. results \in Seq(WizardAnswers) /\ DOMAIN results = 1 .. Len(results) /\ Len(results) \in Nat
  BY DEF WizardTypes
<1>2. /\ Screen("role", r).kind = "role" /\ Screen("effort", r).kind = "effort"
      /\ Screen("effort", r).about = r
  BY DEF Screen
\* The answer of an effort follows a pick of the role.
<1>3. ASSUME NEW k \in DOMAIN results, results[k].screen = Screen("effort", r)
      PROVE  /\ k - 1 \in DOMAIN results /\ results[k - 1].screen = Screen("role", r)
             /\ results[k - 1].kind = "picked"
  BY <1>1, <1>2, <1>3 DEF AnswersInv, EffortBelongs, PicksRole
<1>4. CASE Answers("role", r) = {}
  <2>1. Answers("effort", r) = {}
    <3> SUFFICES ASSUME NEW e \in Answers("effort", r) PROVE FALSE
      OBVIOUS
    <3>1. PICK k \in DOMAIN results : results[k].screen = Screen("effort", r)
      BY AnswersAre
    <3> QED BY <1>3, <1>4, <3>1 DEF Answers
  <2> QED BY <1>4, <2>1 DEF Collected, WithEffort, SavedRole
<1>5. CASE Answers("role", r) # {}
  <2> DEFINE m == CHOOSE x \in Answers("role", r) : TRUE
             e == CHOOSE x \in Answers("effort", r) : TRUE
  <2>1. m \in Answers("role", r)
    BY <1>5
  <2>2. Collected(r) = Binding(m, Unset)
    BY <1>5 DEF Collected
  <2>3. Binding(m, Unset).model = m /\ Binding(m, Unset).effort = Unset
        /\ Binding(m, e).model = m /\ Binding(m, e).effort = e
    BY DEF Binding
  <2>4. \/ bindings'[r] = Binding(m, Unset)
        \/ Answers("effort", r) # {} /\ bindings'[r] = Binding(m, e)
    BY <2>2, <2>3 DEF WithEffort
  <2>5. Answers("effort", r) # {} => e \in Answers("effort", r)
    OBVIOUS
  <2> HIDE DEF m, e
  <2>6. PICK i \in DOMAIN results :
          results[i].screen = Screen("role", r) /\ results[i].kind = "picked" /\ results[i].item = m
    BY <2>1, AnswersAre
  <2>7. m \in Off => <<results[i].screen, m>> \in twice
    BY <1>2, <2>6 DEF AnswersInv, OffTwice
  <2>8. bindings'[r].model = m
    BY <2>3, <2>4
  <2>9. bindings'[r].effort # Unset =>
          /\ i + 1 \in DOMAIN results /\ results[i + 1].screen = Screen("effort", r)
          /\ results[i + 1].item = bindings'[r].effort
    <3> SUFFICES ASSUME bindings'[r].effort # Unset
                 PROVE  /\ i + 1 \in DOMAIN results /\ results[i + 1].screen = Screen("effort", r)
                        /\ results[i + 1].item = bindings'[r].effort
      OBVIOUS
    <3>1. e \in Answers("effort", r) /\ bindings'[r].effort = e
      BY <2>3, <2>4, <2>5
    <3>2. PICK k \in DOMAIN results : results[k].screen = Screen("effort", r) /\ results[k].item = e
      BY <3>1, AnswersAre
    <3>3. k - 1 \in DOMAIN results /\ results[k - 1].screen = Screen("role", r)
      BY <1>3, <3>2
    <3>4. k - 1 = i
      BY <1>2, <2>6, <3>3 DEF AnswersInv, ScreensOnce
    <3>5. k = i + 1
      BY <1>1, <3>2, <3>4
    <3> QED BY <3>1, <3>2, <3>5
  <2> QED BY <2>6, <2>7, <2>8, <2>9 DEF SavedRole
<1> QED BY <1>4, <1>5

LEMMA SavesAnswers ==
  ASSUME WizardTypes, AnswersInv, [WizardNext]_wizardVars, phase' # phase, NEW r \in Roles
  PROVE  SavedRole(r)
<1>1. Finishes
  BY DEF WizardNext, Presses, Pastes, Picks, AsksAgain, Skips, Aborts, Answer, wizardVars
<1>2. CASE phase' = "saved"
  <2>1. bindings' = [q \in Roles |-> WithEffort(q, Collected(q))]
    BY <1>1, <1>2 DEF Finishes
  <2>2. bindings'[r] = WithEffort(r, Collected(r))
    BY <2>1
  <2> QED BY <2>2, RoleSaved
<1>3. CASE phase' # "saved"
  BY <1>1, <1>3 DEF Finishes, SavedRole
<1> QED BY <1>2, <1>3

\* The wizard saves what was answered (runModelSetupWizard, collectSelections,
\* applyKey): for any roles, models, efforts and keys, in any order, a binding
\* that changes is a pick of its own screen with the effort picked behind it,
\* and a model outside of the catalog was asked for twice.
THEOREM WizardSavesAnswers == WizardSpec => SavedAsAnswered
<1>1. WizardTypes /\ AnswersInv /\ [WizardNext]_wizardVars =>
        [phase' # phase => \A r \in Roles : SavedRole(r)]_wizardVars
  BY SavesAnswers
<1> QED BY <1>1, WizardInitially, WizardStep, PTL DEF WizardSpec, SavedAsAnswered, SavedRole
=============================================================================
