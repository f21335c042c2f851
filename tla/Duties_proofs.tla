---------------------------- MODULE Duties_proofs ----------------------------
(***************************************************************************)
(* Two duties of the daemon, as in MCDuties.                               *)
(*                                                                         *)
(* The rows, for any number of sessions, creates and claims: no two        *)
(* creates hold one id, the shutdown marks every session that there is,    *)
(* and the board tells of the living, whoever has used it in between.      *)
(*                                                                         *)
(* killTree, for any number of children that start others and ignore       *)
(* SIGTERM: what its tests and signals still guarantee although processes  *)
(* die, and pids are given away, between any two of its system calls.      *)
(***************************************************************************)
EXTENDS Board, KillTree, TLAPS

-----------------------------------------------------------------------------
(* The rows and the creates. *)

Statuses == {"none"} \cup Active \cup Ended

RowsOK ==
  /\ daemon \in {"up", "draining", "down"}
  /\ rows \in [Ids -> Statuses]

\* A create has an id while it waits, and only then.
CallsOK ==
  /\ reserved \subseteq Ids
  /\ DOMAIN call = Calls
  /\ \A c \in Calls : call[c].at \in {"idle", "git", "tree"}
  /\ \A c \in Calls : IF Waiting(c) THEN call[c].id \in Ids ELSE call[c].id = None

LEMMA RowsInit == Init => RowsOK /\ CallsOK
BY DEF Init, RowsOK, CallsOK, Statuses, Active, Ended, Idle, Waiting

LEMMA Inserting ==
  ASSUME NEW c \in Calls, RowsOK, CallsOK, Waiting(c), Inserts(c)
  PROVE  /\ rows' \in [Ids -> Statuses]
         /\ \A s \in Ids : rows'[s] = rows[s] \/ (s = call[c].id /\ rows'[s] = "starting")
BY DEF Inserts, RowsOK, CallsOK, Statuses, Active

LEMMA Returning ==
  ASSUME NEW c \in Calls, CallsOK, Returns(c)
  PROVE  /\ CallsOK'
         /\ ~Waiting(c)' /\ call'[c].id = None
         /\ \A d \in Calls \ {c} : call'[d] = call[d]
         /\ reserved' = reserved \ {call[c].id}
BY DEF Returns, CallsOK, Idle, Waiting

LEMMA Moving ==
  ASSUME NEW s \in Ids, NEW status \in Ended \cup {"working"}, RowsOK, Moves(s, status)
  PROVE  /\ rows' \in [Ids -> Statuses]
         /\ rows[s] # "none" /\ rows'[s] = status
         /\ \A t \in Ids \ {s} : rows'[t] = rows[t]
BY DEF Moves, RowsOK, Statuses, Active

\* A use of the board changes nothing but the board.
LEMMA Using ==
  ASSUME NEW name, \/ \E g \in Globs : Add(name, g)
                   \/ \E n \in 1..MaxClaims : Release(name, n)
                   \/ Query(name)
  PROVE  UNCHANGED <<daemon, rows, creation>>
BY DEF Add, Release, Query, creation

LEMMA RowsStep == RowsOK /\ CallsOK /\ [Next]_vars => RowsOK' /\ CallsOK'
<1> SUFFICES ASSUME RowsOK, CallsOK, [Next]_vars PROVE RowsOK' /\ CallsOK'
  OBVIOUS
<1>1. ASSUME NEW c \in Calls, CreateBegins(c) PROVE RowsOK' /\ CallsOK'
  <2>1. PICK id \in Unused :
          /\ reserved' = reserved \cup {id}
          /\ call' = [call EXCEPT ![c] = [at |-> "git", id |-> id]]
    BY <1>1 DEF CreateBegins
  <2>2. CallsOK'
    BY <2>1 DEF CallsOK, Waiting, Unused
  <2> QED
    BY <1>1, <2>2 DEF CreateBegins, RowsOK
<1>2. ASSUME NEW c \in Calls, GitAnswers(c) PROVE RowsOK' /\ CallsOK'
  <2>1. Waiting(c) /\ UNCHANGED daemon
    BY <1>2 DEF GitAnswers, Waiting
  <2>2. CASE Returns(c) /\ UNCHANGED rows
    BY <2>1, <2>2, Returning DEF RowsOK
  <2>3. CASE call' = [call EXCEPT ![c].at = "tree"] /\ UNCHANGED <<rows, reserved>>
    BY <2>1, <2>3 DEF RowsOK, CallsOK, Waiting
  <2>4. CASE Inserts(c)
    BY <2>1, <2>4, Returning, Inserting DEF RowsOK, Inserts
  <2> QED
    BY <1>2, <2>2, <2>3, <2>4 DEF GitAnswers
<1>3. ASSUME NEW c \in Calls, TreeAnswers(c) PROVE RowsOK' /\ CallsOK'
  <2>1. Waiting(c) /\ UNCHANGED daemon
    BY <1>3 DEF TreeAnswers, Waiting
  <2>2. CASE Returns(c) /\ UNCHANGED rows
    BY <2>1, <2>2, Returning DEF RowsOK
  <2>3. CASE Inserts(c)
    BY <2>1, <2>3, Returning, Inserting DEF RowsOK, Inserts
  <2> QED
    BY <1>3, <2>2, <2>3 DEF TreeAnswers
<1>4. ASSUME NEW s \in Ids, NEW status \in Ended \cup {"working"}, Moves(s, status)
      PROVE  RowsOK' /\ CallsOK'
  BY <1>4, Moving DEF Moves, RowsOK, CallsOK, Waiting, creation
<1>5. CASE Shutdown
  <2>1. rows' \in [Ids -> Statuses]
    BY <1>5 DEF Shutdown, RowsOK, Statuses, Ended
  <2> QED
    BY <1>5, <2>1 DEF Shutdown, RowsOK, CallsOK, Waiting, creation
<1>6. CASE Dies
  BY <1>6 DEF Dies, RowsOK, CallsOK, Waiting, Idle
<1>7. CASE Boots \/ UNCHANGED vars
  BY <1>7 DEF Boots, RowsOK, CallsOK, Waiting, creation, vars
<1>8. ASSUME NEW name \in Names, \/ \E g \in Globs : Add(name, g)
                                 \/ \E n \in 1..MaxClaims : Release(name, n)
                                 \/ Query(name)
      PROVE  RowsOK' /\ CallsOK'
  <2>1. UNCHANGED <<daemon, rows, creation>>
    BY <1>8, Using
  <2> QED
    BY <2>1 DEF RowsOK, CallsOK, Waiting, creation
<1>9. CASE \E name \in Names : \/ \E g \in Globs : Add(name, g)
                               \/ \E n \in 1..MaxClaims : Release(name, n)
                               \/ Query(name)
  BY <1>8, <1>9
<1>10. CASE \E c \in Calls : CreateBegins(c) \/ GitAnswers(c) \/ TreeAnswers(c)
  BY <1>1, <1>2, <1>3, <1>10
<1>11. CASE \E s \in Ids : \E status \in Ended \cup {"working"} : Moves(s, status)
  BY <1>4, <1>11
<1> QED
  BY <1>5, <1>6, <1>7, <1>9, <1>10, <1>11 DEF Next
-----------------------------------------------------------------------------
(* Ids and the shutdown. *)

\* A create that returns gives up its id, which no other create has.
LEMMA OwnAfterReturn ==
  ASSUME NEW c \in Calls, CallsOK, IdIsOwn, Waiting(c), Returns(c),
         \A s \in Existing' : s \in Existing \/ s = call[c].id
  PROVE  IdIsOwn'
<1> SUFFICES ASSUME NEW d \in Calls, Waiting(d)'
             PROVE  /\ call'[d].id \in reserved' \ Existing'
                    /\ \A e \in Calls \ {d} : call'[e].id # call'[d].id
  BY DEF IdIsOwn
<1>1. d # c /\ call'[d] = call[d] /\ Waiting(d)
  BY Returning DEF Waiting
<1>2. /\ call[d].id \in reserved \ Existing
      /\ \A e \in Calls \ {d} : call[e].id # call[d].id
  BY <1>1 DEF IdIsOwn
<1>3. call[d].id \in Ids /\ call'[c].id = None
  BY <1>1, Returning DEF CallsOK
<1> QED
  BY <1>1, <1>2, <1>3, Returning, BoardAssumption

LEMMA OwnStep == RowsOK /\ CallsOK /\ IdIsOwn /\ [Next]_vars => IdIsOwn'
<1> SUFFICES ASSUME RowsOK, CallsOK, IdIsOwn, [Next]_vars PROVE IdIsOwn'
  OBVIOUS
<1>1. ASSUME NEW c \in Calls, CreateBegins(c) PROVE IdIsOwn'
  <2>1. PICK id \in Unused :
          /\ reserved' = reserved \cup {id}
          /\ call' = [call EXCEPT ![c] = [at |-> "git", id |-> id]]
    BY <1>1 DEF CreateBegins
  <2>2. UNCHANGED rows
    BY <1>1 DEF CreateBegins
  <2>3. \A d \in Calls : call[d].id # id
    BY <2>1, BoardAssumption DEF IdIsOwn, CallsOK, Unused
  <2> QED
    BY <2>1, <2>2, <2>3 DEF IdIsOwn, CallsOK, Unused, Existing, Waiting
<1>2. ASSUME NEW c \in Calls, Waiting(c), Inserts(c) PROVE IdIsOwn'
  <2>1. \A s \in Existing' : s \in Existing \/ s = call[c].id
    BY <1>2, Inserting DEF Existing
  <2> QED
    BY <1>2, <2>1, OwnAfterReturn DEF Inserts
<1>3. ASSUME NEW c \in Calls, Waiting(c), Returns(c), UNCHANGED rows PROVE IdIsOwn'
  BY <1>3, OwnAfterReturn DEF Existing
<1>4. ASSUME NEW c \in Calls, GitAnswers(c) \/ TreeAnswers(c) PROVE IdIsOwn'
  <2>1. Waiting(c)
    BY <1>4 DEF GitAnswers, TreeAnswers, Waiting
  <2>2. CASE call' = [call EXCEPT ![c].at = "tree"] /\ UNCHANGED <<rows, reserved>>
    BY <2>1, <2>2 DEF IdIsOwn, CallsOK, Existing, Waiting
  <2> QED
    BY <1>2, <1>3, <1>4, <2>1, <2>2 DEF GitAnswers, TreeAnswers
<1>5. ASSUME NEW s \in Ids, NEW status \in Ended \cup {"working"}, Moves(s, status) PROVE IdIsOwn'
  <2>1. Existing' = Existing
    BY <1>5, Moving DEF Existing, Ended
  <2> QED
    BY <1>5, <2>1 DEF Moves, creation, IdIsOwn, Waiting
<1>6. CASE Shutdown
  <2>1. Existing' \subseteq Existing
    BY <1>6 DEF Shutdown, Existing, Active
  <2> QED
    BY <1>6, <2>1 DEF Shutdown, creation, IdIsOwn, Waiting
<1>7. CASE Dies
  BY <1>7 DEF Dies, IdIsOwn, Waiting, Idle
<1>8. CASE Boots \/ UNCHANGED vars
  BY <1>8 DEF Boots, vars, creation, IdIsOwn, Waiting, Existing
<1>9. ASSUME NEW name \in Names, \/ \E g \in Globs : Add(name, g)
                                 \/ \E n \in 1..MaxClaims : Release(name, n)
                                 \/ Query(name)
      PROVE  IdIsOwn'
  BY <1>9, Using DEF creation, IdIsOwn, Waiting, Existing
<1>10. CASE \E name \in Names : \/ \E g \in Globs : Add(name, g)
                                \/ \E n \in 1..MaxClaims : Release(name, n)
                                \/ Query(name)
  BY <1>9, <1>10
<1> QED
  BY <1>1, <1>4, <1>5, <1>6, <1>7, <1>8, <1>10 DEF Next

\* However many creates overlap, with whatever answers of git and failing
\* inserts: an id is one create's until its row exists.
THEOREM IdsAreOwn == Spec => []IdIsOwn
<1>1. Init => IdIsOwn
  BY DEF Init, IdIsOwn, Waiting, Idle
<1> QED
  BY <1>1, RowsInit, RowsStep, OwnStep, PTL DEF Spec

LEMMA MarkedStep == RowsOK /\ DrainedIsMarked /\ [Next]_vars => DrainedIsMarked'
<1> SUFFICES ASSUME RowsOK, DrainedIsMarked, [Next]_vars PROVE DrainedIsMarked'
  OBVIOUS
<1>1. ASSUME NEW c \in Calls, CreateBegins(c) \/ GitAnswers(c) \/ TreeAnswers(c) PROVE DrainedIsMarked'
  BY <1>1 DEF CreateBegins, GitAnswers, TreeAnswers, Refused, Returns, DrainedIsMarked
<1>2. ASSUME NEW s \in Ids, NEW status \in Ended \cup {"working"}, Moves(s, status) PROVE DrainedIsMarked'
  BY <1>2 DEF Moves, DrainedIsMarked
<1>3. CASE Shutdown
  BY <1>3 DEF Shutdown, DrainedIsMarked, Active
<1>4. CASE Dies \/ Boots \/ UNCHANGED vars
  BY <1>4 DEF Dies, Boots, vars, DrainedIsMarked
<1>5. ASSUME NEW name \in Names, \/ \E g \in Globs : Add(name, g)
                                 \/ \E n \in 1..MaxClaims : Release(name, n)
                                 \/ Query(name)
      PROVE  DrainedIsMarked'
  BY <1>5, Using DEF DrainedIsMarked
<1>6. CASE \E name \in Names : \/ \E g \in Globs : Add(name, g)
                               \/ \E n \in 1..MaxClaims : Release(name, n)
                               \/ Query(name)
  BY <1>5, <1>6
<1> QED
  BY <1>1, <1>2, <1>3, <1>4, <1>6 DEF Next

\* A create that was waiting for git when the shutdown began adds no session
\* behind it.
THEOREM NoRowBehindTheDrain == Spec => []DrainedIsMarked
<1>1. Init => DrainedIsMarked
  BY DEF Init, DrainedIsMarked
<1> QED
  BY <1>1, RowsInit, RowsStep, MarkedStep, PTL DEF Spec
-----------------------------------------------------------------------------
(* The board. *)

Claim == [owner : Ids, glob : Globs, active : BOOLEAN]

\* Claims are made of sessions that exist; those that are held are active, of
\* living sessions.
ClaimsOK ==
  /\ claims \in Seq(Claim)
  /\ \A n \in 1..Len(claims) : rows[claims[n].owner] # "none"
  /\ held \subseteq 1..Len(claims)
  /\ \A n \in held : claims[n].active /\ rows[claims[n].owner] \in Active

\* Tidying keeps every claim but marks those of ended sessions.
LEMMA Tidying ==
  ASSUME claims \in Seq(Claim)
  PROVE  /\ Tidy \in Seq(Claim) /\ Len(Tidy) = Len(claims)
         /\ \A n \in 1..Len(claims) :
              /\ Tidy[n].owner = claims[n].owner /\ Tidy[n].glob = claims[n].glob
              /\ Tidy[n].active <=> claims[n].active /\ ~Terminal(rows[claims[n].owner])
<1>1. \A n \in 1..Len(claims) : claims[n] \in Claim
  OBVIOUS
<1>2. \A n \in 1..Len(claims) :
        /\ Tidy[n] \in Claim
        /\ Tidy[n].owner = claims[n].owner /\ Tidy[n].glob = claims[n].glob
        /\ Tidy[n].active <=> claims[n].active /\ ~Terminal(rows[claims[n].owner])
  <2> SUFFICES ASSUME NEW n \in 1..Len(claims)
               PROVE  /\ Tidy[n] \in Claim
                      /\ Tidy[n].owner = claims[n].owner /\ Tidy[n].glob = claims[n].glob
                      /\ Tidy[n].active <=> claims[n].active /\ ~Terminal(rows[claims[n].owner])
    OBVIOUS
  <2>1. Tidy[n] = [claims[n] EXCEPT !.active = claims[n].active /\ ~Stale(claims[n])]
    BY DEF Tidy
  <2> QED
    BY <1>1, <2>1 DEF Claim, Stale
<1> QED
  BY <1>2 DEF Tidy

\* What is named exists.
LEMMA Finding == ASSUME NEW name, NEW s \in Find(name) PROVE s \in Ids /\ rows[s] # "none"
BY DEF Find, Named, Existing

LEMMA TidyOK ==
  ASSUME RowsOK, ClaimsOK, claims' = Tidy, UNCHANGED <<rows, held>>
  PROVE  ClaimsOK'
BY Tidying DEF RowsOK, ClaimsOK, Active, Ended, Terminal

LEMMA AddOK ==
  ASSUME NEW name, NEW g \in Globs, RowsOK, ClaimsOK, Add(name, g)
  PROVE  ClaimsOK'
<1>1. PICK s \in Find(name) :
        /\ claims' = IF Same(s, g) # {} THEN Tidy
                     ELSE Append(Tidy, [owner |-> s, glob |-> g, active |-> TRUE])
        /\ held' = IF Terminal(rows[s]) THEN held
                   ELSE held \cup (IF Same(s, g) # {} THEN Same(s, g) ELSE {Len(claims) + 1})
  BY DEF Add
<1>2. s \in Ids /\ rows[s] # "none" /\ UNCHANGED rows
  BY <1>1, Finding DEF Add
<1>3. claims \in Seq(Claim)
  BY DEF ClaimsOK
<1>4. \A n \in held : n \in 1..Len(claims) /\ Tidy[n].active /\ rows[Tidy[n].owner] \in Active
  BY <1>3, Tidying DEF ClaimsOK, Active, Ended, Terminal
<1>5. ~Terminal(rows[s]) => rows[s] \in Active
  BY <1>2 DEF RowsOK, Statuses, Terminal
<1>6. \A n \in 1..Len(Tidy) : rows[Tidy[n].owner] # "none"
  BY <1>3, Tidying DEF ClaimsOK
<1>7. CASE Same(s, g) # {}
  <2>1. \A n \in Same(s, g) : n \in 1..Len(claims) /\ Tidy[n].active /\ Tidy[n].owner = s
    BY DEF Same
  <2>2. claims' = Tidy /\ held' \subseteq held \cup Same(s, g)
    BY <1>1, <1>7
  <2>3. Terminal(rows[s]) => held' = held
    BY <1>1
  <2> QED
    BY <1>2, <1>3, <1>4, <1>5, <1>6, <2>1, <2>2, <2>3, Tidying DEF ClaimsOK
<1>8. CASE Same(s, g) = {}
  <2> DEFINE new == [owner |-> s, glob |-> g, active |-> TRUE]
  <2>1. claims' = Append(Tidy, new) /\ held' \subseteq held \cup {Len(claims) + 1}
    BY <1>1, <1>8
  <2>2. new \in Claim /\ new.owner = s /\ new.active
    BY <1>2 DEF Claim
  <2>3. Terminal(rows[s]) => held' = held
    BY <1>1
  <2> HIDE DEF new
  <2>4. /\ claims' \in Seq(Claim) /\ Len(claims') = Len(claims) + 1
        /\ \A n \in 1..Len(claims) : claims'[n] = Tidy[n]
        /\ claims'[Len(claims) + 1] = new
    BY <1>3, <2>1, <2>2, Tidying
  <2> QED
    BY <1>2, <1>3, <1>4, <1>5, <1>6, <2>1, <2>2, <2>3, <2>4, Tidying DEF ClaimsOK
<1> QED
  BY <1>7, <1>8

LEMMA ReleaseOK ==
  ASSUME NEW name, NEW n \in 1..MaxClaims, RowsOK, ClaimsOK, Release(name, n)
  PROVE  ClaimsOK'
<1>1. claims' = [Tidy EXCEPT ![n].active = FALSE] /\ held' = held \ {n} /\ UNCHANGED rows
  BY DEF Release
<1>2. claims \in Seq(Claim) /\ n \in 1..Len(claims)
  BY DEF ClaimsOK, Release
<1>3. Tidy \in Seq(Claim) /\ Tidy[n] \in Claim
  BY <1>2, Tidying
<1>4. /\ claims' \in Seq(Claim) /\ Len(claims') = Len(claims)
      /\ \A k \in 1..Len(claims) : claims'[k].owner = claims[k].owner
      /\ \A k \in 1..Len(claims) : k # n => claims'[k] = Tidy[k]
  <2>1. [Tidy[n] EXCEPT !.active = FALSE] \in Claim /\ [Tidy[n] EXCEPT !.active = FALSE].owner = Tidy[n].owner
    BY <1>3 DEF Claim
  <2>2. claims' = [Tidy EXCEPT ![n] = [Tidy[n] EXCEPT !.active = FALSE]]
    BY <1>1
  <2> QED
    BY <1>2, <1>3, <2>1, <2>2, Tidying
<1>5. \A k \in held' : k \in 1..Len(claims) /\ claims'[k].active /\ rows[claims'[k].owner] \in Active
  <2> SUFFICES ASSUME NEW k \in held'
               PROVE  k \in 1..Len(claims) /\ claims'[k].active /\ rows[claims'[k].owner] \in Active
    OBVIOUS
  <2>1. k \in held /\ k # n /\ k \in 1..Len(claims)
    BY <1>1 DEF ClaimsOK
  <2>2. claims[k].active /\ rows[claims[k].owner] \in Active
    BY <2>1 DEF ClaimsOK
  <2>3. Tidy[k].active
    BY <1>2, <2>1, <2>2, Tidying DEF Active, Ended, Terminal
  <2> QED
    BY <1>4, <2>1, <2>2, <2>3
<1> QED
  BY <1>1, <1>2, <1>4, <1>5 DEF ClaimsOK

LEMMA Owners == ASSUME ClaimsOK PROVE \A n \in 1..Len(claims) : claims[n].owner \in Ids
<1>1. \A n \in 1..Len(claims) : claims[n] \in Claim
  BY DEF ClaimsOK
<1> QED
  BY <1>1 DEF Claim

LEMMA RowsMove ==
  ASSUME ClaimsOK, UNCHANGED claims, held' \subseteq held,
         \A s \in Ids : rows[s] # "none" => rows'[s] # "none",
         \A n \in held' : rows'[claims[n].owner] \in Active
  PROVE  ClaimsOK'
<1>1. \A n \in 1..Len(claims) : claims[n].owner \in Ids
  BY Owners
<1> QED
  BY <1>1 DEF ClaimsOK

LEMMA ClaimsStep == RowsOK /\ CallsOK /\ ClaimsOK /\ [Next]_vars => ClaimsOK'
<1> SUFFICES ASSUME RowsOK, CallsOK, ClaimsOK, [Next]_vars PROVE ClaimsOK'
  OBVIOUS
<1>0. \A n \in held : claims[n].owner \in Ids /\ rows[claims[n].owner] \in Active
  BY Owners DEF ClaimsOK
<1>1. ASSUME NEW c \in Calls, Waiting(c), Inserts(c), UNCHANGED board PROVE ClaimsOK'
  BY <1>0, <1>1, Inserting, RowsMove DEF board, Active
<1>2. ASSUME UNCHANGED <<rows, board>> PROVE ClaimsOK'
  BY <1>2 DEF board, ClaimsOK
<1>3. ASSUME NEW c \in Calls, CreateBegins(c) \/ GitAnswers(c) \/ TreeAnswers(c) PROVE ClaimsOK'
  <2>1. UNCHANGED board
    BY <1>3 DEF CreateBegins, GitAnswers, TreeAnswers
  <2>2. UNCHANGED rows \/ (Waiting(c) /\ Inserts(c))
    BY <1>3 DEF CreateBegins, GitAnswers, TreeAnswers, Waiting
  <2> QED
    BY <1>1, <1>2, <2>1, <2>2
<1>4. ASSUME NEW s \in Ids, NEW status \in Ended \cup {"working"}, Moves(s, status) PROVE ClaimsOK'
  <2>1. \A n \in held' : n \in held /\ (Terminal(status) => claims[n].owner # s)
    BY <1>4 DEF Moves, Owned, ClaimsOK
  <2>2. ~Terminal(status) => status \in Active
    BY DEF Terminal, Active
  <2>3. UNCHANGED claims /\ status # "none"
    BY <1>4 DEF Moves, Ended
  <2> QED
    BY <1>0, <1>4, <2>1, <2>2, <2>3, Moving, RowsMove
<1>5. CASE Shutdown
  BY <1>5, RowsMove DEF Shutdown
<1>6. CASE Dies \/ Boots \/ UNCHANGED vars
  BY <1>2, <1>6 DEF Dies, Boots, vars
<1>7. ASSUME NEW name \in Names, \/ \E g \in Globs : Add(name, g)
                                 \/ \E n \in 1..MaxClaims : Release(name, n)
                                 \/ Query(name)
      PROVE  ClaimsOK'
  <2>1. CASE Query(name)
    BY <2>1, TidyOK DEF Query
  <2> QED
    BY <1>7, <2>1, AddOK, ReleaseOK
<1>8. CASE \E name \in Names : \/ \E g \in Globs : Add(name, g)
                               \/ \E n \in 1..MaxClaims : Release(name, n)
                               \/ Query(name)
  BY <1>7, <1>8
<1> QED
  BY <1>3, <1>4, <1>5, <1>6, <1>8 DEF Next

LEMMA Telling == RowsOK /\ ClaimsOK => BoardTells
<1> SUFFICES ASSUME RowsOK, ClaimsOK, NEW p \in Paths
             PROVE  /\ {n \in held : p \in claims[n].glob} \subseteq Answer(p)
                    /\ \A n \in Answer(p) : rows[claims[n].owner] \in Active
  BY DEF BoardTells
<1>1. claims \in Seq(Claim)
  BY DEF ClaimsOK
<1>2. {n \in held : p \in claims[n].glob} \subseteq Answer(p)
  BY <1>1, Tidying DEF ClaimsOK, Answer, Active, Ended, Terminal
<1>3. ASSUME NEW n \in Answer(p) PROVE rows[claims[n].owner] \in Active
  <2>1. n \in 1..Len(claims) /\ Tidy[n].active
    BY <1>3 DEF Answer
  <2>2. claims[n].owner \in Ids /\ rows[claims[n].owner] # "none"
    BY <2>1, Owners DEF ClaimsOK
  <2>3. ~Terminal(rows[claims[n].owner])
    BY <1>1, <2>1, Tidying
  <2> QED
    BY <2>2, <2>3 DEF RowsOK, Statuses, Terminal
<1> QED
  BY <1>2, <1>3

\* For any sessions and globs, and whoever asks when: every claim that its
\* session has not given up is told of, and none of a session that has ended.
THEOREM BoardIsTrue == Spec => []BoardTells
<1>1. Init => ClaimsOK
  BY DEF Init, ClaimsOK, Claim
<1> QED
  BY <1>1, RowsInit, RowsStep, ClaimsStep, Telling, PTL DEF Spec

-----------------------------------------------------------------------------
(* The process table and who has been signalled. *)

KillTypes ==
  /\ known \in BOOLEAN /\ signaled \in BOOLEAN
  /\ ours \subseteq {Leader} \cup Children
  /\ stranger \in {"none", "member", "leader"}
  /\ pc \in {"start", "test", "group", "identify", "pid", "poll", "sleep", "last",
             "escalate", "settle", "done"}
  /\ sig \in {"none", "TERM", "KILL"} /\ (pc # "start" => sig # "none")
  /\ (pc = "escalate" => sig = "KILL")

\* The kernel gives nobody the pid of a group that has a member.
PidHeld == ours # {} => stranger = "none"

\* From the test to the signal killTree does not sleep, so a pid that has
\* passed the test is still the harness's, or nobody's.
PidTested == known /\ pc = "pid" => stranger = "none"

\* The group has been signalled, or is empty, before killTree waits for it;
\* where the group is not tried any more it is empty.
Reached ==
  /\ pc \in {"poll", "sleep", "last"} => signaled \/ ours = {}
  /\ pc \in {"identify", "pid", "settle", "done"} => ours = {}
  /\ pc \in {"test", "group"} /\ sig = "KILL" => ours = {}

KillInv == KillTypes /\ PidHeld /\ PidTested /\ Reached /\ RecycledPidSpared

LEMMA KillInitially == KillInit => KillInv
BY DEF KillInit, KillInv, KillTypes, PidHeld, PidTested, Reached, RecycledPidSpared

\* Processes die, start others and reuse the pid.
LEMMA TableSteps ==
  ASSUME KillInv, \/ \E p \in ours : Exits(p)
                  \/ \E p \in Children : Forks(p)
                  \/ StrangerMoves
  PROVE  KillInv'
<1> USE DEF KillInv, KillTypes, PidHeld, PidTested, Reached, RecycledPidSpared
<1>1. ASSUME NEW p \in ours, Exits(p) PROVE KillInv'
  BY <1>1 DEF Exits
<1>2. ASSUME NEW p \in Children, Forks(p) PROVE KillInv'
  BY <1>2 DEF Forks
<1>3. CASE StrangerMoves
  BY <1>3 DEF StrangerMoves, Asleep
<1> QED
  BY <1>1, <1>2, <1>3

LEMMA KillSteps == ASSUME KillInv, KillTreeStep PROVE KillInv'
<1> USE DEF KillInv, KillTypes, PidHeld, PidTested, Reached, RecycledPidSpared
<1>1. CASE Begins
  BY <1>1 DEF Begins, Goes, table
<1>2. CASE SignalTests
  BY <1>2 DEF SignalTests, Goes, table, CanSignalGroup, Matches, ProcessAlive,
              ProcessGroupAlive, Unsent
<1>3. CASE SignalGroup
  <2>1. CASE ProcessGroupAlive
    <3>1. ours' = (IF sig = "KILL" THEN {} ELSE ours) /\ pc' = Sent
      BY <1>3, <2>1 DEF SignalGroup, Ends
    <3>2. hit' \in {hit, hit \cup {stranger}} /\ (hit' # hit => stranger = "leader")
      BY <1>3, <2>1 DEF SignalGroup, Hits
    <3>3. (signaled' <=> signaled \/ sig = "TERM") /\ signaled' \in BOOLEAN
      BY <1>3, <2>1 DEF SignalGroup
    <3>4. UNCHANGED <<known, stranger, sig>>
      BY <1>3 DEF SignalGroup
    <3> QED
      BY <1>3, <3>1, <3>2, <3>3, <3>4 DEF SignalGroup, Sent
  <2>2. CASE ~ProcessGroupAlive
    BY <1>3, <2>2 DEF SignalGroup, ProcessGroupAlive, Unsent
  <2> QED
    BY <2>1, <2>2
<1>4. CASE SignalIdentifies
  BY <1>4 DEF SignalIdentifies, Goes, table, Matches, Unsent
<1>5. CASE SignalPid
  <2>1. ours = {} /\ ours' = {}
    BY <1>5 DEF SignalPid, Ends
  <2>2. hit' \in {hit, hit \cup {stranger}} /\ (hit' # hit => stranger # "none")
    BY <1>5 DEF SignalPid, Hits
  <2> QED
    BY <1>5, <2>1, <2>2 DEF SignalPid, Sent, Unsent
<1>6. CASE Polls
  BY <1>6 DEF Polls, table
<1>7. CASE Wakes
  BY <1>7 DEF Wakes, Goes, table
<1>8. CASE Escalates
  BY <1>8 DEF Escalates, Goes, table, MayEscalate, ProcessAlive, ProcessGroupAlive, Matches
<1>9. CASE Settles
  BY <1>9 DEF Settles, Goes, table
<1> QED
  BY <1>1, <1>2, <1>3, <1>4, <1>5, <1>6, <1>7, <1>8, <1>9 DEF KillTreeStep

LEMMA KillStep == KillInv /\ [KillNext]_killing => KillInv'
<1> SUFFICES ASSUME KillInv, [KillNext]_killing PROVE KillInv'
  OBVIOUS
<1>1. CASE UNCHANGED killing
  BY <1>1 DEF killing, table, KillInv, KillTypes, PidHeld, PidTested, Reached, RecycledPidSpared
<1> QED
  BY <1>1, TableSteps, KillSteps DEF KillNext

\* Whatever the harness starts and whenever it dies: with its start time known
\* no process that has its pid and leads no group is signalled.
THEOREM MembersAreSpared == KillSpec => []RecycledPidSpared
<1>1. KillInv => RecycledPidSpared
  BY DEF KillInv
<1> QED
  BY <1>1, KillInitially, KillStep, PTL DEF KillSpec

\* When killTree has returned, no process of the group is left, and none can
\* come: whoever waited for it has the directory for itself.
THEOREM GroupIsGone == KillSpec => []NothingSurvives
<1>1. KillInv => NothingSurvives
  BY DEF KillInv, Reached, NothingSurvives
<1> QED
  BY <1>1, KillInitially, KillStep, PTL DEF KillSpec
==============================================================================
