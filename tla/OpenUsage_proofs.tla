-------------------------- MODULE OpenUsage_proofs --------------------------
(***************************************************************************)
(* The accounting of open sessions for any rows, conversations and heads,  *)
(* whatever fails and however often the daemon goes down: no conversation  *)
(* is counted for more than it used, a boot counts what it finds not       *)
(* counted, no link of an ended row is forgotten, and what the rows are    *)
(* attributed of a conversation adds up to what was counted of it.         *)
(***************************************************************************)
EXTENDS OpenUsage, FiniteSetTheorems, TLAPS

-----------------------------------------------------------------------------
(* Sums over a finite set. *)

\* The fold behind a sum takes elements out of the set as CHOOSE has them.
Pick(s) == CHOOSE x \in s : TRUE
Folds(g, f, S) ==
  g = [s \in SUBSET S |-> IF s = {} THEN 0 ELSE f[Pick(s)] + g[s \ {Pick(s)}]]

\* A set of subsets of a finite set has a smallest one: what is shown of it
\* for all subsets by contradiction takes the place of an induction.
LEMMA Smallest ==
  ASSUME NEW S, IsFiniteSet(S), NEW T \in SUBSET SUBSET S, T # {}
  PROVE  \E s \in T : \A t \in SUBSET s : t # s => t \notin T
<1>1. IsWellFoundedOn(StrictSubsetOrdering(S), SUBSET S)
  BY FS_StrictSubsetOrderingWellFounded, FS_FiniteSubsetsOfFinite
<1>2. PICK s \in T : \A t \in T : <<t, s>> \notin StrictSubsetOrdering(S)
  BY <1>1, WFMin
<1>3. ASSUME NEW t \in SUBSET s, t # s, t \in T PROVE FALSE
  <2>1. <<t, s>> \in (SUBSET S) \X (SUBSET S)
    BY <1>3
  <2> QED
    BY <1>2, <1>3, <2>1 DEF StrictSubsetOrdering
<1> QED
  BY <1>2, <1>3

LEMMA Picks == ASSUME NEW s, s # {} PROVE Pick(s) \in s
BY DEF Pick

LEMMA FoldAt ==
  ASSUME NEW S, NEW f, NEW g, Folds(g, f, S), NEW t \in SUBSET S
  PROVE  g[t] = IF t = {} THEN 0 ELSE f[Pick(t)] + g[t \ {Pick(t)}]
BY DEF Folds

\* Two folds of a function agree where both are defined.
LEMMA FoldsAgree ==
  ASSUME NEW S, IsFiniteSet(S), NEW s \in SUBSET S, NEW u \in SUBSET S, NEW f,
         NEW g, NEW h, Folds(g, f, s), Folds(h, f, u),
         NEW t \in SUBSET s, t \subseteq u
  PROVE  g[t] = h[t]
<1> DEFINE Bad == {r \in SUBSET S : r \subseteq s /\ r \subseteq u /\ g[r] # h[r]}
<1>1. ASSUME NEW r \in Bad, \A q \in SUBSET r : q # r => q \notin Bad
      PROVE  FALSE
  <2>1. /\ g[r] = IF r = {} THEN 0 ELSE f[Pick(r)] + g[r \ {Pick(r)}]
        /\ h[r] = IF r = {} THEN 0 ELSE f[Pick(r)] + h[r \ {Pick(r)}]
    BY DEF Folds
  <2>2. r # {}
    BY <2>1
  <2>3. r \ {Pick(r)} \notin Bad
    BY <1>1, <2>2, Picks
  <2> QED
    BY <2>1, <2>2, <2>3
<1>2. Bad = {}
  <2>1. Bad \in SUBSET SUBSET S
    OBVIOUS
  <2> HIDE DEF Bad
  <2> QED
    BY <1>1, <2>1, Smallest
<1> QED
  BY <1>2

\* There is one: the recursion goes down to smaller sets.
LEMMA FoldExists ==
  ASSUME NEW S, IsFiniteSet(S), NEW f
  PROVE  \E g : Folds(g, f, S)
<1> DEFINE Bad == {s \in SUBSET S : ~ \E g : Folds(g, f, s)}
<1>1. ASSUME NEW s \in Bad, \A t \in SUBSET s : t # s => t \notin Bad
      PROVE  FALSE
  <2> DEFINE sol(t) == CHOOSE g : Folds(g, f, t)
             next(t) == t \ {Pick(t)}
             h == [t \in SUBSET s |-> IF t = {} THEN 0 ELSE f[Pick(t)] + sol(next(t))[next(t)]]
  <2>1. ASSUME NEW t \in SUBSET s, t # s PROVE Folds(sol(t), f, t)
    BY <1>1, <2>1
  <2>2. ASSUME NEW t \in SUBSET s, t # {} PROVE next(t) \in SUBSET s /\ next(t) # s
    BY <2>2, Picks
  <2>3. ASSUME NEW t \in SUBSET s, t # s PROVE sol(t)[t] = h[t]
    <3>1. sol(t)[t] = IF t = {} THEN 0 ELSE f[Pick(t)] + sol(t)[next(t)]
      <4>1. Folds(sol(t), f, t) /\ t \in SUBSET t
        BY <2>1, <2>3
      <4> HIDE DEF sol
      <4> QED
        BY <4>1, FoldAt
    <3>2. CASE t = {}
      BY <3>1, <3>2
    <3>3. CASE t # {}
      <4>1. Folds(sol(next(t)), f, next(t)) /\ Folds(sol(t), f, t)
        <5> HIDE DEF sol, next
        <5> QED
          BY <2>1, <2>2, <2>3, <3>3
      <4>2. sol(next(t))[next(t)] = sol(t)[next(t)]
        <5> HIDE DEF sol
        <5>1. next(t) \in SUBSET S /\ t \in SUBSET S /\ next(t) \in SUBSET t
          OBVIOUS
        <5> HIDE DEF next
        <5> QED
          BY <4>1, <5>1, FoldsAgree
      <4> QED
        BY <3>1, <3>3, <4>2
    <3> QED
      BY <3>2, <3>3
  <2>4. \A t \in SUBSET s : h[t] = IF t = {} THEN 0 ELSE f[Pick(t)] + h[next(t)]
    <3> SUFFICES ASSUME NEW t \in SUBSET s
                 PROVE  h[t] = IF t = {} THEN 0 ELSE f[Pick(t)] + h[next(t)]
      OBVIOUS
    <3>1. t # {} => sol(next(t))[next(t)] = h[next(t)]
      BY <2>2, <2>3
    <3>2. h[t] = IF t = {} THEN 0 ELSE f[Pick(t)] + sol(next(t))[next(t)]
      <4> HIDE DEF sol, next
      <4> QED
        OBVIOUS
    <3> HIDE DEF sol, next, h
    <3> QED
      BY <3>1, <3>2
  <2>5. Folds(h, f, s)
    <3>1. h = [t \in SUBSET s |-> h[t]]
      OBVIOUS
    <3> HIDE DEF h
    <3> QED
      BY <2>4, <3>1 DEF Folds
  <2> QED
    BY <2>5
<1>2. Bad = {}
  <2>1. Bad \in SUBSET SUBSET S
    OBVIOUS
  <2> HIDE DEF Bad
  <2> QED
    BY <1>1, <2>1, Smallest
<1> QED
  BY <1>2

\* The sum of the values of f.
Total(f, S) == MapThenSumSet(LAMBDA r : f[r], S)

LEMMA SumFolds ==
  ASSUME NEW S, IsFiniteSet(S), NEW f
  PROVE  \E g : Folds(g, f, S) /\ Total(f, S) = g[S]
<1> DEFINE it == CHOOSE g : g = [s \in SUBSET S |-> IF s = {} THEN 0 ELSE f[Pick(s)] + g[s \ {Pick(s)}]]
<1>1. Folds(it, f, S)
  <2>1. PICK g : Folds(g, f, S)
    BY FoldExists
  <2>2. g = [s \in SUBSET S |-> IF s = {} THEN 0 ELSE f[Pick(s)] + g[s \ {Pick(s)}]]
    BY <2>1 DEF Folds
  <2>3. it = [s \in SUBSET S |-> IF s = {} THEN 0 ELSE f[Pick(s)] + it[s \ {Pick(s)}]]
    BY <2>2, Zenon
  <2> HIDE DEF it
  <2> QED
    BY <2>3 DEF Folds
<1>2. Total(f, S) = it[S]
  BY DEF Total, MapThenSumSet, MapThenFoldSet, Pick
<1> QED
  BY <1>1, <1>2
\* A sum follows a change of one of its terms.
LEMMA SumRaised ==
  ASSUME NEW S, IsFiniteSet(S), NEW f \in [S -> Int], NEW k \in S, NEW d \in Int
  PROVE  Total([f EXCEPT ![k] = @ + d], S) = Total(f, S) + d
<1> DEFINE e == [f EXCEPT ![k] = @ + d]
<1>1. PICK g : Folds(g, f, S) /\ Total(f, S) = g[S]
  BY SumFolds
<1>2. PICK h : Folds(h, e, S) /\ Total(e, S) = h[S]
  <2> HIDE DEF e
  <2> QED
    BY SumFolds
<1> DEFINE Raised(s) == g[s] \in Int /\ h[s] = g[s] + (IF k \in s THEN d ELSE 0)
           Bad == {s \in SUBSET S : ~ Raised(s)}
<1>3. ASSUME NEW s \in Bad, \A t \in SUBSET s : t # s => t \notin Bad
      PROVE  FALSE
  <2>1. /\ g[s] = IF s = {} THEN 0 ELSE f[Pick(s)] + g[s \ {Pick(s)}]
        /\ h[s] = IF s = {} THEN 0 ELSE e[Pick(s)] + h[s \ {Pick(s)}]
    <3>1. s \in SUBSET S
      OBVIOUS
    <3> HIDE DEF e, Bad
    <3>2. g[s] = IF s = {} THEN 0 ELSE f[Pick(s)] + g[s \ {Pick(s)}]
      BY <1>1, <3>1, FoldAt
    <3>3. h[s] = IF s = {} THEN 0 ELSE e[Pick(s)] + h[s \ {Pick(s)}]
      BY <1>2, <3>1, FoldAt
    <3> QED
      BY <3>2, <3>3
  <2>2. s # {}
    BY <2>1
  <2>3. Pick(s) \in s /\ s \ {Pick(s)} \in SUBSET s /\ s \ {Pick(s)} # s
    BY <2>2, Picks
  <2>4. Raised(s \ {Pick(s)})
    BY <1>3, <2>3
  <2>5. f[Pick(s)] \in Int /\ e[Pick(s)] = f[Pick(s)] + (IF Pick(s) = k THEN d ELSE 0)
    BY <2>3
  <2>6. k \in s <=> k = Pick(s) \/ k \in s \ {Pick(s)}
    BY <2>3
  <2> HIDE DEF e
  <2> QED
    BY <2>1, <2>2, <2>4, <2>5, <2>6
<1>4. Bad = {}
  <2>1. Bad \in SUBSET SUBSET S
    OBVIOUS
  <2> HIDE DEF Bad
  <2> QED
    BY <1>3, <2>1, Smallest
<1>5. Raised(S)
  BY <1>4
<1> QED
  BY <1>1, <1>2, <1>5

LEMMA SumOfZeros ==
  ASSUME NEW S, IsFiniteSet(S), NEW f, \A r \in S : f[r] = 0
  PROVE  Total(f, S) = 0
<1>1. PICK g : Folds(g, f, S) /\ Total(f, S) = g[S]
  BY SumFolds
<1> DEFINE Bad == {s \in SUBSET S : g[s] # 0}
<1>2. ASSUME NEW s \in Bad, \A t \in SUBSET s : t # s => t \notin Bad
      PROVE  FALSE
  <2>1. g[s] = IF s = {} THEN 0 ELSE f[Pick(s)] + g[s \ {Pick(s)}]
    BY <1>1, FoldAt
  <2>2. s # {}
    BY <2>1
  <2>3. Pick(s) \in s /\ s \ {Pick(s)} \in SUBSET s /\ s \ {Pick(s)} # s
    BY <2>2, Picks
  <2>4. g[s \ {Pick(s)}] = 0
    BY <1>2, <2>3
  <2> QED
    BY <2>1, <2>2, <2>3, <2>4
<1>3. Bad = {}
  <2>1. Bad \in SUBSET SUBSET S
    OBVIOUS
  <2> HIDE DEF Bad
  <2> QED
    BY <1>2, <2>1, Smallest
<1> QED
  BY <1>1, <1>3

\* The attributions of one source as a function of the rows.
Column(share, k) == [r \in Rows |-> share[r][k]]

LEMMA AttributedIsTotal ==
  ASSUME NEW share, NEW k
  PROVE  Attributed(share, k) = Total(Column(share, k), Rows)
<1> DEFINE f == Column(share, k)
           body(i) == [s \in SUBSET Rows |->
                         IF s = {} THEN 0 ELSE share[Pick(s)][k] + i[s \ {Pick(s)}]]
           it == CHOOSE i : i = body(i)
<1>1. PICK g : Folds(g, f, Rows) /\ Total(f, Rows) = g[Rows]
  <2> HIDE DEF f
  <2> QED
    BY SumFolds, RowsAssumption
<1>2. ASSUME NEW i PROVE i = body(i) <=> Folds(i, f, Rows)
  <2>1. \A s \in SUBSET Rows : s # {} => f[Pick(s)] = share[Pick(s)][k]
    BY Picks DEF Column
  <2> HIDE DEF f
  <2> QED
    BY <2>1 DEF Folds
<1>3. g = body(g)
  BY <1>1, <1>2
<1>4. it = body(it)
  <2> HIDE DEF body
  <2> QED
    BY <1>3, Zenon
<1>5. Folds(it, f, Rows)
  <2> HIDE DEF it, body, f
  <2> QED
    BY <1>2, <1>4
<1>6. it[Rows] = g[Rows]
  <2> HIDE DEF it, f
  <2> QED
    BY <1>1, <1>5, FoldsAgree, RowsAssumption
<1>7. Attributed(share, k) = it[Rows]
  BY DEF Attributed, MapThenSumSet, MapThenFoldSet, Pick
<1> HIDE DEF f, it
<1> QED
  BY <1>1, <1>6, <1>7 DEF f
-----------------------------------------------------------------------------
(* The ledger and the cursors. *)

Measure == Nat \cup {Null}

LEMMA Limits ==
  /\ MaxUsage \in Nat /\ Null \notin Nat /\ Usages \subseteq Nat
  /\ \A v \in Measure : OrZero(v) \in Nat /\ (v # Null => OrZero(v) = v)
BY BoundsAssumption DEF Usages, Null, OrZero, Measure

\* An observation raises the mark of its source to its value, if that is more.
LEMMA Observing ==
  ASSUME NEW L, NEW r, NEW k \in Natives, NEW v \in Measure,
         L.mark \in [Natives -> Measure]
  PROVE  /\ Observe(L, r, k, v).mark \in [Natives -> Measure]
         /\ \A n \in Natives : OrZero(L.mark[n]) <= OrZero(Observe(L, r, k, v).mark[n])
         /\ OrZero(v) <= OrZero(Observe(L, r, k, v).mark[k])
         /\ Observe(L, r, k, v).mark \in {L.mark, [L.mark EXCEPT ![k] = v]}
<1>1. CASE v = Null \/ ~Raises(L.mark[k], v)
  BY <1>1, Limits DEF Observe, Raises, OrZero, Null, Measure, Usages
<1>2. CASE v # Null /\ Raises(L.mark[k], v)
  <2>1. Observe(L, r, k, v).mark = [L.mark EXCEPT ![k] = v]
    BY <1>2 DEF Observe
  <2> QED
    BY <1>2, <2>1, Limits DEF Raises, OrZero, Null, Measure, Usages
<1> QED
  BY <1>1, <1>2

\* A cursor: it has counted no more than the messages that it knows, and m
\* that it has counted again.
Sound(c, m) ==
  /\ c.upto \in Nat /\ c.keys \in Nat /\ c.counted \in Nat
  /\ c.upto <= c.keys /\ c.counted <= c.keys + m

LEMMA Consuming ==
  ASSUME NEW c, NEW m \in Nat, Sound(c, m), NEW to \in Nat
  PROVE  /\ Again(c, to) \in Nat
         /\ Sound(Consume(c, to), m + Again(c, to))
         /\ Consume(c, to).keys \in {c.keys, to}
<1> DEFINE new == {i \in c.upto + 1..to : i > c.keys}
           old == {i \in c.upto + 1..to : i <= c.keys /\ i \in Keyless}
           all == {i \in c.upto + 1..to : i > c.keys \/ i \in Keyless}
<1>1. new = c.keys + 1..to
  BY DEF Sound
<1>2. IsFiniteSet(new) /\ Cardinality(new) = IF c.keys + 1 > to THEN 0 ELSE to - (c.keys + 1) + 1
  <2>1. c.keys + 1 \in Int /\ to \in Int
    BY DEF Sound
  <2> QED
    BY <1>1, <2>1, FS_Interval
<1>3. IsFiniteSet(old)
  <2>1. IsFiniteSet(c.upto + 1..to)
    <3>1. c.upto + 1 \in Int /\ to \in Int
      BY DEF Sound
    <3> QED
      BY <3>1, FS_Interval
  <2>2. old \subseteq c.upto + 1..to
    OBVIOUS
  <2> QED
    BY <2>1, <2>2, FS_Subset
<1>4. all = new \cup old /\ new \cap old = {}
  BY DEF Sound
<1>5. /\ Cardinality(new) \in Nat /\ Cardinality(old) \in Nat
      /\ Cardinality(all) = Cardinality(new) + Cardinality(old)
  <2> HIDE DEF new, old, all
  <2>1. Cardinality(all) = Cardinality(new) + Cardinality(old) - Cardinality(new \cap old)
    BY <1>2, <1>3, <1>4, FS_Union
  <2>2. Cardinality(new \cap old) = 0
    BY <1>4, FS_EmptySet
  <2>3. Cardinality(new) \in Nat /\ Cardinality(old) \in Nat
    BY <1>2, <1>3, FS_CardinalityType
  <2> QED
    BY <2>1, <2>2, <2>3
<1>6. /\ Again(c, to) = Cardinality(old)
      /\ Consume(c, to).upto = to
      /\ Consume(c, to).keys = (IF to > c.keys THEN to ELSE c.keys)
      /\ Consume(c, to).counted = c.counted + Cardinality(all)
  BY DEF Consume, Again
<1> HIDE DEF new, old, all
<1> QED
  BY <1>2, <1>5, <1>6 DEF Sound

LEMMA Resetting ==
  ASSUME NEW c, NEW m \in Nat, Sound(c, m) PROVE Sound(Reset(c), m) /\ Reset(c).keys = c.keys
BY DEF Sound, Reset
-----------------------------------------------------------------------------
(* The heads and the rows. *)

HeadOK ==
  /\ phase \in [Heads -> {"none", "adopted", "running", "closing", "gone"}]
  /\ rowOf \in [Heads -> Rows \cup {None}] /\ talk \in [Heads -> Natives \cup {None}]
  /\ \A h \in Heads : phase[h] \in {"adopted", "running", "closing"} => rowOf[h] \in Rows
  /\ \A h \in Heads : phase[h] = "running" => talk[h] \in Natives

LEMMA HeadOKStep == HeadOK /\ [Next]_vars => HeadOK'
<1> SUFFICES ASSUME HeadOK, [Next]_vars PROVE HeadOK'
  OBVIOUS
<1> USE DEF HeadOK, head, transcripts
<1>1. ASSUME NEW h \in Heads, NEW n \in Natives, Talk(h, n) PROVE HeadOK'
  BY <1>1, NamesAssumption DEF Talk
<1>2. ASSUME NEW h \in Heads, NEW saves \in BOOLEAN,
             WriteMessage(h) \/ Rewrite(h) \/ HeadEnds(h, saves)
      PROVE HeadOK'
  <2>1. CASE WriteMessage(h) \/ Rewrite(h)
    BY <2>1 DEF WriteMessage, Rewrite
  <2>2. CASE HeadEnds(h, saves)
    BY <2>2 DEF HeadEnds, Alive
  <2> QED
    BY <1>2, <2>1, <2>2
<1>3. ASSUME NEW h \in Heads, TerminalCloses(h) \/ LaunchFails(h) \/ Release(h) PROVE HeadOK'
  BY <1>3 DEF TerminalCloses, LaunchFails, Release, Leaves
<1>4. ASSUME NEW h \in Heads, NEW n \in Natives \cup {None}, Adopt(h, n) PROVE HeadOK'
  BY <1>4 DEF Adopt
<1>5. ASSUME NEW h \in Heads, Patch(h) \/ \E n \in Natives : LinkNative(h, n) PROVE HeadOK'
  BY <1>5 DEF Patch, LinkNative
<1>6. ASSUME NEW h \in Heads, NEW v \in Usages \cup {Null}, NEW w \in BOOLEAN, StatusLine(h, v, w)
      PROVE HeadOK'
  BY <1>6 DEF StatusLine
<1>7. CASE SweepStep
  BY <1>7 DEF SweepStep, SweepBegins, SweepEnds, Tidy
<1>8. CASE JobStep \/ \E j \in jobs : JobFails(j)
  BY <1>8 DEF JobStep, ReadTranscript, Reconcile, JobEnds, JobFails
<1>9. ASSUME NEW r \in Rows, Stop(r) PROVE HeadOK'
  BY <1>9 DEF Stop, Live, Alive
<1>10. ASSUME NEW h \in Heads, KillHead(h) PROVE HeadOK'
  BY <1>10 DEF KillHead, Alive
<1>11. CASE ShutdownBegins \/ Exit \/ Crash \/ Boot \/ UNCHANGED vars
  BY <1>11 DEF ShutdownBegins, Exit, Crash, Down, Boot, vars
<1>12. CASE HeadStep
  BY <1>1, <1>2, <1>3, <1>12 DEF HeadStep
<1>13. CASE RequestStep
  BY <1>3, <1>4, <1>5, <1>6, <1>13 DEF RequestStep
<1>14. CASE DaemonStep
  BY <1>9, <1>10, <1>11, <1>14 DEF DaemonStep
<1> QED
  BY <1>7, <1>8, <1>11, <1>12, <1>13, <1>14 DEF Next

RowOK ==
  /\ status \in [Rows -> {"none", "working"} \cup Ended]
  /\ links \in [Rows -> SUBSET Natives] /\ reconciled \in [Rows -> SUBSET Natives]
  /\ daemon \in {"up", "draining", "down"}

\* A reconciliation: of one row's links, one of which may have been read.
JobOK(j) ==
  /\ j.row \in Rows /\ j.left \subseteq Natives
  /\ j.read = NoRead \/ (j.read.native \in Natives /\ j.read.usage \in Nat)

JobsOK == \A j \in jobs : JobOK(j)

SweepOK ==
  /\ sweep = [n \in Natives |-> sweep[n]]
  /\ \A n \in Natives :
       /\ sweep[n].stage # "none" => sweep[n].row \in Rows
       /\ sweep[n].previous \subseteq Natives /\ sweep[n].size \in Nat

LEMMA NewJob ==
  ASSUME NEW r \in Rows, NEW via, NEW left \in SUBSET Natives, NEW read,
         read = NoRead \/ (read.native \in Natives /\ read.usage \in Nat)
  PROVE  JobOK(Job(r, via, left, read))
BY DEF JobOK, Job

\* What a status line or a superseding link asks for, are reconciliations.
LEMMA Asking ==
  ASSUME NEW r \in Rows, NEW ns \in SUBSET Natives
  PROVE  /\ \A j \in Queued(r, ns) : JobOK(j) /\ j.read = NoRead /\ j.via = "queue"
         /\ \A via : \A j \in Superseding(r, via, ns) : JobOK(j) /\ j.read = NoRead /\ j.via = via
BY DEF Queued, Superseding, JobOK, Job

LEMMA RowOKStep == HeadOK /\ RowOK /\ SweepOK /\ JobsOK /\ [Next]_vars => RowOK'
<1> SUFFICES ASSUME HeadOK, RowOK, SweepOK, JobsOK, [Next]_vars PROVE RowOK'
  OBVIOUS
<1> USE DEF RowOK, transcripts, head, rows, linkage, control, sweeps, history
<1>1. CASE HeadStep
  BY <1>1 DEF HeadStep, Talk, WriteMessage, Rewrite, HeadEnds, TerminalCloses, LaunchFails, Leaves, Alive
<1>2. ASSUME NEW h \in Heads, NEW n \in Natives \cup {None}, Adopt(h, n) PROVE RowOK'
  BY <1>2 DEF Adopt
<1>3. ASSUME NEW h \in Heads, Patch(h) PROVE RowOK'
  BY <1>3 DEF Patch
<1>4. ASSUME NEW h \in Heads, NEW n \in Natives, LinkNative(h, n) PROVE RowOK'
  BY <1>4 DEF LinkNative
<1>5. ASSUME NEW h \in Heads, Release(h) PROVE RowOK'
  BY <1>5, NamesAssumption DEF HeadOK, Release, Leaves, Released, Ended
<1>6. ASSUME NEW h \in Heads, NEW v \in Usages \cup {Null}, NEW w \in BOOLEAN, StatusLine(h, v, w)
      PROVE RowOK'
  <2>1. rowOf[h] \in Rows /\ talk[h] \in Natives
    BY <1>6 DEF StatusLine, Alive, HeadOK
  <2> QED
    BY <1>6, <2>1 DEF StatusLine
<1>7. ASSUME NEW n \in Natives, SweepBegins(n) PROVE RowOK'
  BY <1>7 DEF SweepBegins, SweepOver
<1>8. ASSUME NEW n \in Natives, SweepEnds(n) PROVE RowOK'
  BY <1>8 DEF SweepEnds, SweepOver
<1>9. ASSUME NEW n \in Natives, Tidy(n) PROVE RowOK'
  BY <1>9 DEF Tidy
<1>10. ASSUME NEW j \in jobs, NEW n \in Natives, ReadTranscript(j, n) PROVE RowOK'
  BY <1>10 DEF ReadTranscript
<1>11. ASSUME NEW j \in jobs, Reconcile(j) PROVE RowOK'
  <2>1. j.row \in Rows /\ j.read.native \in Natives
    BY <1>11 DEF Reconcile, JobsOK, JobOK
  <2> QED
    BY <1>11, <2>1 DEF Reconcile
<1>12. ASSUME NEW j \in jobs, JobEnds(j) \/ JobFails(j) PROVE RowOK'
  BY <1>12 DEF JobEnds, JobFails
<1>13. ASSUME NEW r \in Rows, Stop(r) PROVE RowOK'
  BY <1>13 DEF Stop, Ended
<1>14. CASE ShutdownBegins \/ \E h \in Heads : KillHead(h)
  BY <1>14 DEF ShutdownBegins, KillHead, Ended
<1>15. CASE Exit \/ Crash
  BY <1>15 DEF Exit, Crash, Down
<1>16. CASE Boot
  BY <1>16 DEF Boot, Recovered, Ended
<1>17. CASE UNCHANGED vars
  BY <1>17 DEF vars
<1>18. CASE RequestStep
  BY <1>2, <1>3, <1>4, <1>5, <1>6, <1>18 DEF RequestStep
<1>19. CASE SweepStep \/ JobStep
  BY <1>7, <1>8, <1>9, <1>10, <1>11, <1>12, <1>19 DEF SweepStep, JobStep
<1>20. CASE DaemonStep
  BY <1>13, <1>14, <1>15, <1>16, <1>20 DEF DaemonStep
<1> QED
  BY <1>1, <1>12, <1>17, <1>18, <1>19, <1>20 DEF Next

TranscriptOK == total \in [Natives -> Measure] /\ billed \in [Natives -> Measure]

LEMMA SweepOKStep == HeadOK /\ TranscriptOK /\ RowOK /\ SweepOK /\ [Next]_vars => SweepOK'
<1> SUFFICES ASSUME HeadOK, TranscriptOK, RowOK, SweepOK, [Next]_vars PROVE SweepOK'
  OBVIOUS
<1> USE DEF SweepOK, transcripts, head, rows, linkage, control, sweeps, history
<1>1. CASE HeadStep
  BY <1>1 DEF HeadStep, Talk, WriteMessage, Rewrite, HeadEnds, TerminalCloses, LaunchFails, Leaves, Alive
<1>2. ASSUME NEW h \in Heads, NEW n \in Natives \cup {None}, Adopt(h, n) PROVE SweepOK'
  BY <1>2 DEF Adopt
<1>3. ASSUME NEW h \in Heads, Patch(h) PROVE SweepOK'
  BY <1>3 DEF Patch
<1>4. ASSUME NEW h \in Heads, NEW n \in Natives, LinkNative(h, n) PROVE SweepOK'
  BY <1>4 DEF LinkNative
<1>5. ASSUME NEW h \in Heads, Release(h) PROVE SweepOK'
  BY <1>5 DEF Release
<1>6. ASSUME NEW h \in Heads, NEW v \in Usages \cup {Null}, NEW w \in BOOLEAN, StatusLine(h, v, w)
      PROVE SweepOK'
  <2>1. rowOf[h] \in Rows /\ talk[h] \in Natives
    BY <1>6 DEF StatusLine, Alive, HeadOK
  <2> QED
    BY <1>6, <2>1, Limits DEF StatusLine, Previous, RowOK, Usages
<1>7. ASSUME NEW n \in Natives, SweepBegins(n) PROVE SweepOK'
  BY <1>7, Limits DEF SweepBegins, SweepOver, NoSweep, Previous, RowOK, TranscriptOK, Measure, Usages
<1>8. ASSUME NEW n \in Natives, SweepEnds(n) PROVE SweepOK'
  <2>1. sweep' = [sweep EXCEPT ![n] = NoSweep]
    BY <1>8 DEF SweepEnds, SweepOver
  <2>2. NoSweep.stage = "none" /\ NoSweep.previous = {} /\ NoSweep.size \in Nat
    BY Limits DEF NoSweep, Usages
  <2>3. \A k \in Natives : sweep'[k] = IF k = n THEN NoSweep ELSE sweep[k]
    BY <2>1
  <2> QED
    BY <2>1, <2>2, <2>3
<1>9. ASSUME NEW n \in Natives, Tidy(n) PROVE SweepOK'
  BY <1>9 DEF Tidy
<1>10. ASSUME NEW j \in jobs, NEW n \in Natives, ReadTranscript(j, n) PROVE SweepOK'
  BY <1>10 DEF ReadTranscript
<1>11. ASSUME NEW j \in jobs, Reconcile(j) PROVE SweepOK'
  BY <1>11 DEF Reconcile
<1>12. ASSUME NEW j \in jobs, JobEnds(j) \/ JobFails(j) PROVE SweepOK'
  BY <1>12 DEF JobEnds, JobFails
<1>13. ASSUME NEW r \in Rows, Stop(r) PROVE SweepOK'
  BY <1>13 DEF Stop
<1>14. CASE ShutdownBegins \/ \E h \in Heads : KillHead(h)
  BY <1>14 DEF ShutdownBegins, KillHead
<1>15. CASE Exit \/ Crash
  BY <1>15, Limits DEF Exit, Crash, Down, NoSweep, Usages
<1>16. CASE Boot
  BY <1>16 DEF Boot
<1>17. CASE UNCHANGED vars
  BY <1>17 DEF vars
<1>18. CASE RequestStep
  BY <1>2, <1>3, <1>4, <1>5, <1>6, <1>18 DEF RequestStep
<1>19. CASE SweepStep \/ JobStep
  BY <1>7, <1>8, <1>9, <1>10, <1>11, <1>12, <1>19 DEF SweepStep, JobStep
<1>20. CASE DaemonStep
  BY <1>13, <1>14, <1>15, <1>16, <1>20 DEF DaemonStep
<1> QED
  BY <1>1, <1>12, <1>17, <1>18, <1>19, <1>20 DEF Next

LEMMA JobsOKStep == HeadOK /\ TranscriptOK /\ RowOK /\ SweepOK /\ JobsOK /\ [Next]_vars => JobsOK'
<1> SUFFICES ASSUME HeadOK, TranscriptOK, RowOK, SweepOK, JobsOK, [Next]_vars PROVE JobsOK'
  OBVIOUS
<1> USE DEF JobsOK, transcripts, head, rows, linkage, control, sweeps, history
<1>1. CASE HeadStep
  BY <1>1 DEF HeadStep, Talk, WriteMessage, Rewrite, HeadEnds, TerminalCloses, LaunchFails, Leaves, Alive
<1>2. ASSUME NEW h \in Heads, NEW n \in Natives \cup {None}, Adopt(h, n) PROVE JobsOK'
  BY <1>2 DEF Adopt
<1>3. ASSUME NEW h \in Heads, Patch(h) PROVE JobsOK'
  BY <1>3 DEF Patch
<1>4. ASSUME NEW h \in Heads, NEW n \in Natives, LinkNative(h, n) PROVE JobsOK'
  <2>1. rowOf[h] \in Rows
    BY <1>4 DEF LinkNative, HeadOK
  <2>2. Previous(rowOf[h], n) \in SUBSET Natives
    BY <2>1 DEF Previous, RowOK
  <2>3. jobs' \in {jobs, jobs \cup Superseding(rowOf[h], "link", Previous(rowOf[h], n))}
    BY <1>4 DEF LinkNative
  <2> QED
    BY <2>1, <2>2, <2>3, Asking
<1>5. ASSUME NEW h \in Heads, Release(h) PROVE JobsOK'
  <2>1. rowOf[h] \in Rows /\ Released(rowOf[h], talk[h]) \in SUBSET Natives
    BY <1>5, NamesAssumption DEF Release, Released, HeadOK, RowOK
  <2>2. jobs' \in {jobs, jobs \cup {Job(rowOf[h], "release", Released(rowOf[h], talk[h]), NoRead)}}
    BY <1>5 DEF Release
  <2> QED
    BY <2>1, <2>2, NewJob
<1>6. ASSUME NEW h \in Heads, NEW v \in Usages \cup {Null}, NEW w \in BOOLEAN, StatusLine(h, v, w)
      PROVE JobsOK'
  <2>1. rowOf[h] \in Rows
    BY <1>6 DEF StatusLine, Alive, HeadOK
  <2>2. PICK ns \in SUBSET Natives : jobs' \in {jobs, jobs \cup Queued(rowOf[h], ns)}
    BY <1>6, <2>1 DEF StatusLine, Previous, RowOK
  <2> QED
    BY <2>1, <2>2, Asking
<1>7. ASSUME NEW n \in Natives, SweepBegins(n) PROVE JobsOK'
  <2>1. sweep[n].row \in Rows /\ sweep[n].previous \in SUBSET Natives
    BY <1>7 DEF SweepBegins, SweepOK
  <2>2. jobs' \in {jobs, jobs \cup Queued(sweep[n].row, sweep[n].previous)}
    BY <1>7 DEF SweepBegins, SweepOver
  <2> QED
    BY <2>1, <2>2, Asking
<1>8. ASSUME NEW n \in Natives, SweepEnds(n) PROVE JobsOK'
  <2>1. sweep[n].row \in Rows /\ sweep[n].previous \in SUBSET Natives
    BY <1>8 DEF SweepEnds, SweepOK
  <2>2. jobs' = jobs \cup Queued(sweep[n].row, sweep[n].previous)
    BY <1>8 DEF SweepEnds, SweepOver
  <2> QED
    BY <2>1, <2>2, Asking
<1>9. ASSUME NEW n \in Natives, Tidy(n) PROVE JobsOK'
  BY <1>9 DEF Tidy
<1>10. ASSUME NEW j \in jobs, NEW n \in Natives, ReadTranscript(j, n) PROVE JobsOK'
  <2> DEFINE read == [native |-> n, usage |-> Reading(n)]
  <2>1. JobOK(j) /\ j.row \in Rows /\ j.left \ {n} \in SUBSET Natives
    BY DEF JobOK
  <2>2. CASE total[n] = Null
    <3>1. jobs' = (jobs \ {j}) \cup {Job(j.row, j.via, j.left \ {n}, NoRead)}
      BY <1>10, <2>2 DEF ReadTranscript
    <3> QED
      BY <2>1, <3>1, NewJob
  <2>3. CASE total[n] # Null
    <3>1. jobs' = (jobs \ {j}) \cup {Job(j.row, j.via, j.left \ {n}, read)}
      BY <1>10, <2>3 DEF ReadTranscript
    <3>2. read.native \in Natives /\ read.usage \in Nat
      BY <2>3 DEF Reading, TranscriptOK, Measure
    <3> QED
      BY <2>1, <3>1, <3>2, NewJob
  <2> QED
    BY <2>2, <2>3
<1>11. ASSUME NEW j \in jobs, Reconcile(j) PROVE JobsOK'
  <2>1. JobOK(j) /\ j.row \in Rows /\ j.left \in SUBSET Natives
    BY DEF JobOK
  <2>2. jobs' = (jobs \ {j}) \cup {Job(j.row, j.via, j.left, NoRead)}
    BY <1>11 DEF Reconcile
  <2> QED
    BY <2>1, <2>2, NewJob
<1>12. ASSUME NEW j \in jobs, JobEnds(j) \/ JobFails(j) PROVE JobsOK'
  BY <1>12 DEF JobEnds, JobFails
<1>13. ASSUME NEW r \in Rows, Stop(r) PROVE JobsOK'
  BY <1>13 DEF Stop
<1>14. CASE ShutdownBegins \/ \E h \in Heads : KillHead(h)
  BY <1>14 DEF ShutdownBegins, KillHead
<1>15. CASE Exit \/ Crash
  BY <1>15 DEF Exit, Crash, Down
<1>16. CASE Boot
  <2>1. \A r \in Rows : links[r] \in SUBSET Natives
    BY DEF RowOK
  <2>2. \A r \in Rows : JobOK(Job(r, "boot", links[r], NoRead))
    BY <2>1, NewJob
  <2> QED
    BY <1>16, <2>2 DEF Boot
<1>17. CASE UNCHANGED vars
  BY <1>17 DEF vars
<1>18. CASE RequestStep
  BY <1>2, <1>3, <1>4, <1>5, <1>6, <1>18 DEF RequestStep
<1>19. CASE SweepStep \/ JobStep
  BY <1>7, <1>8, <1>9, <1>10, <1>11, <1>12, <1>19 DEF SweepStep, JobStep
<1>20. CASE DaemonStep
  BY <1>13, <1>14, <1>15, <1>16, <1>20 DEF DaemonStep
<1> QED
  BY <1>1, <1>12, <1>17, <1>18, <1>19, <1>20 DEF Next

-----------------------------------------------------------------------------
(* No conversation is counted for more than its transcript holds. *)

Billed == \A n \in Natives : OrZero(billed[n]) <= OrZero(total[n])

\* Transcripts only grow, and a cost-state line is one of their totals.
LEMMA TranscriptStep ==
  HeadOK /\ TranscriptOK /\ Billed /\ [Next]_vars =>
    /\ TranscriptOK' /\ Billed'
    /\ \A n \in Natives : OrZero(total[n]) <= OrZero(total[n])'
<1> DEFINE Goal == /\ TranscriptOK' /\ Billed'
                   /\ \A n \in Natives : OrZero(total[n]) <= OrZero(total[n])'
<1> SUFFICES ASSUME HeadOK, TranscriptOK, Billed, [Next]_vars PROVE Goal
  OBVIOUS
<1>1. \A n \in Natives : OrZero(total[n]) \in Nat /\ OrZero(billed[n]) \in Nat
  BY Limits DEF TranscriptOK
<1>2. CASE UNCHANGED transcripts
  BY <1>1, <1>2, Limits DEF transcripts, TranscriptOK, Billed, Usages
<1>3. ASSUME NEW h \in Heads, WriteMessage(h) PROVE Goal
  <2>1. talk[h] \in Natives
    BY <1>3 DEF WriteMessage, Alive, HeadOK
  <2>2. /\ total' = [total EXCEPT ![talk[h]] = OrZero(@) + 1] /\ billed' = billed
        /\ OrZero(total[talk[h]]) < MaxUsage
    BY <1>3 DEF WriteMessage
  <2>3. OrZero(total[talk[h]]) + 1 \in Nat
    BY <1>1, <2>1, <2>2, Limits DEF Usages
  <2>4. TranscriptOK'
    BY <2>2, <2>3 DEF TranscriptOK, Measure
  <2>5. \A n \in Natives : OrZero(total[n]) <= OrZero(total'[n])
    BY <1>1, <2>1, <2>2, <2>3, Limits DEF TranscriptOK, Measure, Usages
  <2>6. Billed'
    <3>1. \A n \in Natives : OrZero(total'[n]) \in Nat
      BY <2>4, Limits DEF TranscriptOK
    <3> QED
      BY <1>1, <2>2, <2>5, <3>1 DEF Billed, Usages
  <2> QED
    BY <2>4, <2>5, <2>6
<1>4. ASSUME NEW h \in Heads, NEW saves \in BOOLEAN, HeadEnds(h, saves) PROVE Goal
  <2>1. talk[h] \in Natives
    BY <1>4 DEF HeadEnds, Alive, HeadOK
  <2>2. total' = total /\ billed' \in {billed, [billed EXCEPT ![talk[h]] = total[talk[h]]]}
    BY <1>4 DEF HeadEnds
  <2> QED
    BY <1>1, <2>1, <2>2 DEF TranscriptOK, Billed, Usages
<1>5. CASE HeadStep
  <2>1. PICK h \in Heads : \/ \E n \in Natives : Talk(h, n)
                           \/ WriteMessage(h) \/ Rewrite(h)
                           \/ \E saves \in BOOLEAN : HeadEnds(h, saves)
                           \/ TerminalCloses(h)
                           \/ LaunchFails(h)
    BY <1>5 DEF HeadStep
  <2>2. CASE \/ (\E n \in Natives : Talk(h, n)) \/ Rewrite(h)
             \/ TerminalCloses(h) \/ LaunchFails(h)
    BY <1>2, <2>2 DEF Talk, Rewrite, TerminalCloses, LaunchFails
  <2> QED
    BY <1>3, <1>4, <2>1, <2>2
<1>6. CASE RequestStep
  BY <1>2, <1>6, ZenonT(60) DEF RequestStep, Adopt, Patch, LinkNative, Release, StatusLine
<1>7. CASE SweepStep \/ JobStep \/ \E j \in jobs : JobFails(j)
  BY <1>2, <1>7 DEF SweepStep, JobStep, SweepBegins, SweepEnds, Tidy, ReadTranscript, Reconcile, JobEnds, JobFails
<1>8. CASE DaemonStep \/ UNCHANGED vars
  BY <1>2, <1>8 DEF DaemonStep, Stop, ShutdownBegins, KillHead, Exit, Crash, Down, Boot, vars
<1> QED
  BY <1>5, <1>6, <1>7, <1>8 DEF Next
Within ==
  /\ HeadOK /\ TranscriptOK /\ Billed /\ RowOK /\ SweepOK /\ JobsOK

Grown == \A n \in Natives : /\ OrZero(total[n]) \in Nat /\ OrZero(total[n])' \in Nat
                            /\ OrZero(total[n]) <= OrZero(total[n])'

LEMMA Growing == Within /\ [Next]_vars => Within' /\ Grown
<1> SUFFICES ASSUME Within, [Next]_vars PROVE Within' /\ Grown
  OBVIOUS
<1> USE DEF Within
<1>1. TranscriptOK' /\ Billed' /\ \A n \in Natives : OrZero(total[n]) <= OrZero(total[n])'
  BY TranscriptStep
<1>2. HeadOK' /\ RowOK' /\ SweepOK' /\ JobsOK'
  BY HeadOKStep, RowOKStep, SweepOKStep, JobsOKStep
<1>3. \A n \in Natives : OrZero(total[n]) \in Nat /\ OrZero(total[n])' \in Nat
  BY <1>1, Limits DEF TranscriptOK
<1> QED
  BY <1>1, <1>2, <1>3 DEF Grown

SweptOK == \A n \in Natives : sweep[n].size <= OrZero(total[n])

LEMMA SweptStep == Within /\ SweptOK /\ [Next]_vars => SweptOK'
<1> SUFFICES ASSUME Within, SweptOK, [Next]_vars PROVE SweptOK'
  OBVIOUS
<1> USE DEF Within
<1>1. Grown /\ \A n \in Natives : sweep[n].size \in Nat
  BY Growing DEF SweepOK
<1>2. ASSUME \A n \in Natives : sweep'[n].size \in {sweep[n].size, 0} PROVE SweptOK'
  BY <1>1, <1>2, Limits DEF SweptOK, Grown, Usages
<1>3. CASE UNCHANGED sweep
  BY <1>2, <1>3
<1>4. ASSUME NEW h \in Heads, NEW v \in Usages \cup {Null}, NEW w \in BOOLEAN, StatusLine(h, v, w)
      PROVE SweptOK'
  BY <1>2, <1>4 DEF StatusLine, SweepOK
<1>5. ASSUME NEW n \in Natives, SweepBegins(n) PROVE SweptOK'
  <2>1. CASE sweep' = [sweep EXCEPT ![n] = NoSweep]
    BY <1>2, <2>1 DEF NoSweep, SweepOK
  <2>2. CASE sweep' # [sweep EXCEPT ![n] = NoSweep]
    <3>1. /\ total[n] # Null /\ total' = total
          /\ sweep' = [sweep EXCEPT ![n] =
               [stage |-> "reading", row |-> sweep[n].row,
                previous |-> sweep[n].previous \cup Previous(sweep[n].row, n),
                size |-> total[n], fresh |-> moved[n]]]
      BY <1>5, <2>2 DEF SweepBegins, SweepOver, transcripts
    <3>2. total[n] = OrZero(total[n])
      BY <3>1 DEF OrZero
    <3> QED
      BY <1>1, <3>1, <3>2 DEF SweptOK, SweepOK, Grown, Usages
  <2> QED
    BY <2>1, <2>2
<1>6. ASSUME NEW n \in Natives, SweepEnds(n) PROVE SweptOK'
  <2>1. sweep' = [sweep EXCEPT ![n] = NoSweep]
    BY <1>6 DEF SweepEnds, SweepOver
  <2> QED
    BY <1>2, <2>1 DEF NoSweep, SweepOK
<1>7. CASE Exit \/ Crash
  <2>1. sweep' = [n \in Natives |-> NoSweep]
    BY <1>7 DEF Exit, Crash, Down
  <2> QED
    BY <1>2, <2>1 DEF NoSweep
<1>8. CASE HeadStep \/ JobStep \/ \E j \in jobs : JobFails(j)
  BY <1>3, <1>8 DEF HeadStep, Talk, WriteMessage, Rewrite, HeadEnds, TerminalCloses, LaunchFails,
    JobStep, ReadTranscript, Reconcile, JobEnds, JobFails, sweeps
<1>9. CASE RequestStep
  BY <1>3, <1>4, <1>9 DEF RequestStep, Adopt, Patch, LinkNative, Release, sweeps
<1>10. CASE SweepStep
  BY <1>3, <1>5, <1>6, <1>10 DEF SweepStep, Tidy
<1>11. CASE DaemonStep \/ UNCHANGED vars
  BY <1>3, <1>7, <1>11 DEF DaemonStep, Stop, ShutdownBegins, KillHead, Boot, vars, sweeps
<1> QED
  BY <1>8, <1>9, <1>10, <1>11 DEF Next

CursorOK ==
  /\ cursor = [n \in Natives |-> cursor[n]] /\ recounted \in [Natives -> Nat]
  /\ \A n \in Natives : Sound(cursor[n], recounted[n]) /\ cursor[n].keys <= OrZero(total[n])

\* What a sweep leaves in the cursor and observes, d messages once more.
Swept(n, c, d) ==
  /\ Sound(c, recounted[n] + d) /\ c.keys <= OrZero(total[n])
  /\ cursor' = [cursor EXCEPT ![n] = c]
  /\ ledger' = Observe(ledger, sweep[n].row, n, c.counted)
  /\ recounted' = [recounted EXCEPT ![n] = @ + d]

LEMMA Sweeping ==
  ASSUME Within, CursorOK, SweptOK, NEW n \in Natives, SweepEnds(n)
  PROVE  \/ cursor' = cursor /\ ledger' = ledger /\ recounted' = recounted
         \/ \E c, d : d \in Nat /\ Swept(n, c, d)
<1> DEFINE from == IF sweep[n].fresh THEN Reset(cursor[n]) ELSE cursor[n]
<1>1. Sound(from, recounted[n]) /\ from.keys <= OrZero(total[n])
  BY Resetting DEF CursorOK
<1>2. sweep[n].size \in Nat /\ sweep[n].size <= OrZero(total[n])
  BY DEF Within, SweepOK, SweptOK
<1>3. \/ cursor' = cursor /\ ledger' = ledger /\ recounted' = recounted
      \/ \E to \in from.upto..sweep[n].size :
           /\ cursor' = [cursor EXCEPT ![n] = Consume(from, to)]
           /\ ledger' = Observe(ledger, sweep[n].row, n, Consume(from, to).counted)
           /\ recounted' = [recounted EXCEPT ![n] = @ + Again(from, to)]
  BY DEF SweepEnds
<1>4. OrZero(total[n]) \in Nat /\ recounted[n] \in Nat
  BY Limits DEF Within, TranscriptOK, CursorOK
<1> HIDE DEF from
<1>5. ASSUME NEW to \in from.upto..sweep[n].size
      PROVE  /\ Again(from, to) \in Nat
             /\ Sound(Consume(from, to), recounted[n] + Again(from, to))
             /\ Consume(from, to).keys <= OrZero(total[n])
  <2>1. to \in Nat /\ to <= OrZero(total[n])
    BY <1>1, <1>2, <1>4, <1>5 DEF Sound
  <2> QED
    BY <1>1, <1>4, <2>1, Consuming
<1> QED
  BY <1>3, <1>5 DEF Swept

LEMMA CursorStep ==
  Within /\ SweptOK /\ CursorOK /\ [Next]_vars =>
    CursorOK' /\ \A n \in Natives : recounted[n] <= recounted'[n]
<1> DEFINE Goal == CursorOK' /\ \A n \in Natives : recounted[n] <= recounted'[n]
<1> SUFFICES ASSUME Within, SweptOK, CursorOK, [Next]_vars PROVE Goal
  OBVIOUS
<1>1. Grown /\ \A n \in Natives : recounted[n] \in Nat
  BY Growing DEF CursorOK
<1>2. \A m \in Nat : Sound(NoCursor, m) /\ NoCursor.keys = 0
  BY DEF Sound, NoCursor
<1>3. CASE UNCHANGED <<cursor, recounted>>
  BY <1>1, <1>3 DEF CursorOK, Sound, Grown
<1>4. ASSUME NEW n \in Natives, SweepEnds(n) PROVE Goal
  <2>1. total' = total
    BY <1>4 DEF SweepEnds, transcripts
  <2>2. ASSUME NEW c, NEW d \in Nat, Swept(n, c, d) PROVE Goal
    <3>1. /\ cursor' = [cursor EXCEPT ![n] = c] /\ recounted' = [recounted EXCEPT ![n] = @ + d]
          /\ Sound(c, recounted[n] + d) /\ c.keys <= OrZero(total[n])
      BY <2>2 DEF Swept
    <3>2. recounted' \in [Natives -> Nat] /\ \A k \in Natives : recounted[k] <= recounted'[k]
      BY <1>1, <3>1 DEF CursorOK
    <3>3. \A k \in Natives : Sound(cursor'[k], recounted'[k]) /\ cursor'[k].keys <= OrZero(total[k])
      BY <3>1 DEF CursorOK
    <3>4. cursor' = [k \in Natives |-> cursor'[k]]
      BY <3>1 DEF CursorOK
    <3> QED
      BY <2>1, <3>2, <3>3, <3>4 DEF CursorOK
  <2> QED
    BY <1>3, <1>4, <2>2, Sweeping
<1>5. ASSUME NEW n \in Natives, Tidy(n) PROVE Goal
  <2>1. total' = total /\ recounted' = recounted /\ cursor' \in {cursor, [cursor EXCEPT ![n] = NoCursor]}
    BY <1>5 DEF Tidy, transcripts, history
  <2> QED
    BY <1>1, <1>2, <2>1 DEF CursorOK, Grown
<1>6. CASE Exit \/ Crash
  <2>1. total' = total /\ recounted' = recounted /\ cursor' = [n \in Natives |-> NoCursor]
    BY <1>6 DEF Exit, Crash, Down, transcripts
  <2> QED
    BY <1>1, <1>2, <2>1 DEF CursorOK, Grown
<1>7. CASE HeadStep \/ RequestStep
  <2>1. UNCHANGED <<cursor, recounted>>
    BY <1>7, ZenonT(60) DEF HeadStep, Talk, WriteMessage, Rewrite, HeadEnds, TerminalCloses, LaunchFails,
      RequestStep, Adopt, Patch, LinkNative, Release, StatusLine, sweeps, history
  <2> QED
    BY <1>3, <2>1
<1>8. CASE SweepStep
  BY <1>3, <1>4, <1>5, <1>8 DEF SweepStep, SweepBegins, history
<1>9. CASE JobStep \/ \E j \in jobs : JobFails(j)
  BY <1>3, <1>9 DEF JobStep, ReadTranscript, Reconcile, JobEnds, JobFails, sweeps, history
<1>10. CASE DaemonStep \/ UNCHANGED vars
  BY <1>3, <1>6, <1>10 DEF DaemonStep, Stop, ShutdownBegins, KillHead, Boot, vars, sweeps, history
<1> QED
  BY <1>7, <1>8, <1>9, <1>10 DEF Next

ReadOK == \A j \in jobs : j.read = NoRead \/ j.read.usage <= OrZero(total[j.read.native])

LEMMA ReadStep == Within /\ ReadOK /\ [Next]_vars => ReadOK'
<1> SUFFICES ASSUME Within, ReadOK, [Next]_vars PROVE ReadOK'
  OBVIOUS
<1> USE DEF Within
<1>1. Grown /\ \A j \in jobs : JobOK(j)
  BY Growing DEF JobsOK
<1>2. ASSUME \A j \in jobs' : j.read = NoRead \/ j \in jobs PROVE ReadOK'
  <2> SUFFICES ASSUME NEW j \in jobs, j.read # NoRead
               PROVE  j.read.usage <= OrZero(total'[j.read.native])
    BY <1>2 DEF ReadOK
  <2>1. j.read.native \in Natives /\ j.read.usage \in Nat
    BY <1>1 DEF JobOK
  <2>2. j.read.usage <= OrZero(total[j.read.native])
    BY DEF ReadOK
  <2> QED
    BY <1>1, <2>1, <2>2 DEF Grown, Usages
<1>3. ASSUME NEW h \in Heads, NEW n \in Natives, LinkNative(h, n) PROVE ReadOK'
  BY <1>2, <1>3 DEF LinkNative, Superseding, Job
<1>4. ASSUME NEW h \in Heads, Release(h) PROVE ReadOK'
  BY <1>2, <1>4 DEF Release, Job
<1>5. ASSUME NEW h \in Heads, NEW v \in Usages \cup {Null}, NEW w \in BOOLEAN, StatusLine(h, v, w)
      PROVE ReadOK'
  BY <1>2, <1>5 DEF StatusLine, Queued, Job
<1>6. ASSUME NEW n \in Natives, SweepBegins(n) \/ SweepEnds(n) PROVE ReadOK'
  <2>1. jobs' \in {jobs, jobs \cup Queued(sweep[n].row, sweep[n].previous)}
    BY <1>6 DEF SweepBegins, SweepEnds, SweepOver
  <2> QED
    BY <1>2, <2>1 DEF Queued, Job
<1>7. ASSUME NEW j \in jobs, NEW n \in Natives, ReadTranscript(j, n) PROVE ReadOK'
  <2>1. CASE total[n] = Null
    BY <1>2, <1>7, <2>1 DEF ReadTranscript, Job
  <2>2. CASE total[n] # Null
    <3> DEFINE read == [native |-> n, usage |-> Reading(n)]
    <3>1. /\ jobs' = (jobs \ {j}) \cup {Job(j.row, j.via, j.left \ {n}, read)}
          /\ total' = total
      BY <1>7, <2>2 DEF ReadTranscript, transcripts
    <3>2. OrZero(total[n]) = total[n] /\ Reading(n) <= total[n]
      BY <1>1, <2>2 DEF Billed, Reading, OrZero, TranscriptOK, Measure, Grown, Usages
    <3> QED
      BY <3>1, <3>2 DEF ReadOK, Job
  <2> QED
    BY <2>1, <2>2
<1>8. ASSUME NEW j \in jobs, Reconcile(j) PROVE ReadOK'
  BY <1>2, <1>8 DEF Reconcile, Job
<1>9. CASE UNCHANGED jobs
  BY <1>2, <1>9
<1>10. CASE HeadStep
  BY <1>9, <1>10 DEF HeadStep, Talk, WriteMessage, Rewrite, HeadEnds, TerminalCloses, LaunchFails
<1>11. CASE RequestStep
  BY <1>3, <1>4, <1>5, <1>9, <1>11 DEF RequestStep, Adopt, Patch
<1>12. CASE SweepStep
  BY <1>6, <1>9, <1>12 DEF SweepStep, Tidy
<1>13. CASE JobStep \/ \E j \in jobs : JobFails(j)
  BY <1>2, <1>7, <1>8, <1>13 DEF JobStep, JobEnds, JobFails
<1>14. CASE DaemonStep \/ UNCHANGED vars
  BY <1>2, <1>9, <1>14 DEF DaemonStep, Stop, ShutdownBegins, KillHead, Exit, Crash, Down, Boot, Job, vars
<1> QED
  BY <1>10, <1>11, <1>12, <1>13, <1>14 DEF Next

MarkOK ==
  /\ ledger.mark \in [Natives -> Measure]
  /\ \A n \in Natives : OrZero(ledger.mark[n]) <= OrZero(total[n]) + recounted[n]

Counted == Within /\ SweptOK /\ CursorOK /\ ReadOK /\ MarkOK

\* Every way of observing reports no more than the transcript holds and sweeps
\* have read again.
LEMMA Reporting ==
  Counted /\ [Next]_vars =>
    \/ UNCHANGED ledger
    \/ \E k \in Natives, v \in Measure, r \in Rows :
         OrZero(v) <= OrZero(total[k]) + recounted'[k] /\ ledger' = Observe(ledger, r, k, v)
<1> DEFINE Goal == \/ UNCHANGED ledger
                   \/ \E k \in Natives, v \in Measure, r \in Rows :
                        OrZero(v) <= OrZero(total[k]) + recounted'[k] /\ ledger' = Observe(ledger, r, k, v)
<1> SUFFICES ASSUME Counted, [Next]_vars PROVE Goal
  OBVIOUS
<1> USE DEF Counted, Within
<1>1. \A n \in Natives : OrZero(total[n]) \in Nat /\ recounted[n] \in Nat /\ recounted'[n] \in Nat
  <2>1. CursorOK'
    BY CursorStep
  <2> QED
    BY <2>1, Limits DEF TranscriptOK, CursorOK
<1>2. ASSUME NEW h \in Heads, NEW v \in Usages \cup {Null}, NEW w \in BOOLEAN, StatusLine(h, v, w)
      PROVE Goal
  <2>1. /\ talk[h] \in Natives /\ rowOf[h] \in Rows /\ v <= OrZero(total[talk[h]])
        /\ ledger' = Observe(ledger, rowOf[h], talk[h], v)
    BY <1>2 DEF StatusLine, Alive, HeadOK
  <2>2. v \in Measure /\ OrZero(v) <= OrZero(total[talk[h]]) + recounted'[talk[h]]
    BY <1>1, <2>1, Limits DEF Measure, OrZero, Usages
  <2> QED
    BY <2>1, <2>2
<1>3. ASSUME NEW n \in Natives, SweepEnds(n) PROVE Goal
  <2>1. sweep[n].row \in Rows
    BY <1>3 DEF SweepEnds, SweepOK
  <2>2. ASSUME NEW c, NEW d \in Nat, Swept(n, c, d) PROVE Goal
    <3>1. /\ Sound(c, recounted[n] + d) /\ c.keys <= OrZero(total[n])
          /\ recounted'[n] = recounted[n] + d
          /\ ledger' = Observe(ledger, sweep[n].row, n, c.counted)
      BY <2>2 DEF Swept, CursorOK
    <3>2. c.counted \in Nat /\ c.counted <= OrZero(total[n]) + recounted'[n]
      BY <1>1, <3>1 DEF Sound
    <3>3. c.counted \in Measure /\ OrZero(c.counted) = c.counted
      BY <3>2, Limits DEF Measure
    <3> QED
      BY <2>1, <3>1, <3>2, <3>3
  <2> QED
    BY <1>3, <2>2, Sweeping
<1>4. ASSUME NEW j \in jobs, Reconcile(j) PROVE Goal
  <2>1. /\ j.read.native \in Natives /\ j.read.usage \in Nat /\ j.row \in Rows
        /\ j.read.usage <= OrZero(total[j.read.native])
        /\ ledger' = Observe(ledger, j.row, j.read.native, j.read.usage)
    BY <1>4 DEF Reconcile, JobsOK, JobOK, ReadOK
  <2>2. j.read.usage \in Measure /\ OrZero(j.read.usage) = j.read.usage
    BY <2>1, Limits DEF Measure
  <2>3. j.read.usage <= OrZero(total[j.read.native]) + recounted'[j.read.native]
    BY <1>1, <2>1
  <2> QED
    BY <2>1, <2>2, <2>3
<1> HIDE DEF Counted, Within
<1>5. CASE HeadStep
  BY <1>5 DEF HeadStep, Talk, WriteMessage, Rewrite, HeadEnds, TerminalCloses, LaunchFails
<1>6. CASE RequestStep
  BY <1>2, <1>6 DEF RequestStep, Adopt, Patch, LinkNative, Release
<1>7. CASE SweepStep
  BY <1>3, <1>7 DEF SweepStep, SweepBegins, Tidy
<1>8. CASE JobStep \/ \E j \in jobs : JobFails(j)
  BY <1>4, <1>8 DEF JobStep, ReadTranscript, JobEnds, JobFails
<1>9. CASE DaemonStep \/ UNCHANGED vars
  BY <1>9 DEF DaemonStep, Stop, ShutdownBegins, KillHead, Exit, Crash, Down, Boot, vars
<1> QED
  BY <1>5, <1>6, <1>7, <1>8, <1>9 DEF Next

LEMMA MarkStep ==
  Counted /\ [Next]_vars =>
    MarkOK' /\ \A n \in Natives : OrZero(ledger.mark[n]) <= OrZero(ledger.mark[n])'
<1> SUFFICES ASSUME Counted, [Next]_vars
             PROVE  MarkOK' /\ \A n \in Natives : OrZero(ledger.mark[n]) <= OrZero(ledger.mark[n])'
  OBVIOUS
<1> DEFINE cap(n) == OrZero(total'[n]) + recounted'[n]
<1>1. /\ Grown /\ CursorOK' /\ \A n \in Natives : recounted[n] <= recounted'[n]
  BY Growing, CursorStep DEF Counted
<1>a. \A n \in Natives : recounted[n] \in Nat /\ recounted'[n] \in Nat
  BY <1>1 DEF Counted, CursorOK
<1>2. \A n \in Natives : /\ OrZero(ledger.mark[n]) \in Nat
                         /\ OrZero(ledger.mark[n]) <= cap(n) /\ cap(n) \in Nat
  BY <1>1, <1>a, Limits DEF Counted, MarkOK, Grown
<1>3. CASE UNCHANGED ledger
  BY <1>2, <1>3 DEF Counted, MarkOK, Usages
<1>4. ASSUME NEW r, NEW k \in Natives, NEW v \in Measure,
             OrZero(v) <= OrZero(total[k]) + recounted'[k], ledger' = Observe(ledger, r, k, v)
      PROVE  MarkOK' /\ \A n \in Natives : OrZero(ledger.mark[n]) <= OrZero(ledger.mark[n])'
  <2>1. OrZero(v) <= cap(k)
    BY <1>1, <1>a, <1>4, Limits DEF Grown
  <2>2. ledger.mark \in [Natives -> Measure]
    BY DEF Counted, MarkOK
  <2>3. /\ ledger'.mark \in [Natives -> Measure]
        /\ \A n \in Natives : OrZero(ledger.mark[n]) <= OrZero(ledger'.mark[n])
    BY <1>4, <2>2, Observing
  <2>4. ledger'.mark \in {ledger.mark, [ledger.mark EXCEPT ![k] = v]}
    BY <1>4, <2>2, Observing
  <2> QED
    BY <1>2, <1>4, <2>1, <2>2, <2>3, <2>4 DEF MarkOK
<1> QED
  BY <1>3, <1>4, Reporting

LEMMA CountedInit == Init => Counted
<1> SUFFICES ASSUME Init PROVE Counted
  OBVIOUS
<1> USE Limits DEF Init, EmptyLedger, Natives
<1>1. HeadOK /\ RowOK /\ JobsOK
  BY DEF HeadOK, RowOK, JobsOK
<1>2. TranscriptOK /\ Billed /\ MarkOK
  BY DEF TranscriptOK, Billed, MarkOK, Measure, OrZero
<1>3. SweepOK /\ SweptOK
  BY DEF SweepOK, SweptOK, NoSweep, OrZero, Usages
<1>4. CursorOK /\ ReadOK
  BY DEF CursorOK, ReadOK, Sound, NoCursor, OrZero
<1> QED
  BY <1>1, <1>2, <1>3, <1>4 DEF Counted, Within

LEMMA CountedStep == Counted /\ [Next]_vars => Counted'
BY Growing, SweptStep, CursorStep, ReadStep, MarkStep DEF Counted

-----------------------------------------------------------------------------
(* What the rows are attributed. *)

ShareOK == ledger.share \in [Rows -> [Natives -> Int]]

\* An observation gives one row what the mark of one source grows by.
LEMMA Sharing ==
  ASSUME NEW L, NEW r \in Rows, NEW k \in Natives, NEW v \in Measure,
         L.mark \in [Natives -> Measure], L.share \in [Rows -> [Natives -> Int]],
         \A n \in Natives : Attributed(L.share, n) = OrZero(L.mark[n])
  PROVE  /\ Observe(L, r, k, v).share \in [Rows -> [Natives -> Int]]
         /\ \A n \in Natives :
              Attributed(Observe(L, r, k, v).share, n) = OrZero(Observe(L, r, k, v).mark[n])
<1>1. CASE v = Null \/ ~Raises(L.mark[k], v)
  BY <1>1 DEF Observe
<1>2. CASE v # Null /\ Raises(L.mark[k], v)
  <2> DEFINE d == v - OrZero(L.mark[k])
             share == [L.share EXCEPT ![r][k] = @ + d]
  <2>1. /\ Observe(L, r, k, v).share = share
        /\ Observe(L, r, k, v).mark = [L.mark EXCEPT ![k] = v]
    BY <1>2 DEF Observe, Delta
  <2>2. d \in Int /\ OrZero(v) = v /\ v \in Int /\ OrZero(L.mark[k]) \in Int
    BY <1>2, Limits DEF Usages
  <2>3. share \in [Rows -> [Natives -> Int]]
    <3> HIDE DEF d
    <3> QED
      BY <2>2
  <2>4. ASSUME NEW n \in Natives, n # k
        PROVE  Attributed(share, n) = OrZero([L.mark EXCEPT ![k] = v][n])
    <3>1. Column(share, n) = Column(L.share, n)
      <4> HIDE DEF d
      <4> QED
        BY <2>4 DEF Column
    <3>2. Attributed(share, n) = Attributed(L.share, n)
      <4> HIDE DEF share
      <4> QED
        BY <3>1, AttributedIsTotal
    <3>3. [L.mark EXCEPT ![k] = v][n] = L.mark[n]
      BY <2>4
    <3> QED
      BY <3>2, <3>3
  <2>5. Attributed(share, k) = OrZero([L.mark EXCEPT ![k] = v][k])
    <3>1. Column(share, k) = [Column(L.share, k) EXCEPT ![r] = @ + d]
      <4> HIDE DEF d
      <4> QED
        BY <2>2 DEF Column
    <3>2. Column(L.share, k) \in [Rows -> Int]
      BY DEF Column
    <3>3. Total(Column(share, k), Rows) = Total(Column(L.share, k), Rows) + d
      <4> HIDE DEF d, share
      <4> QED
        BY <2>2, <3>1, <3>2, SumRaised, RowsAssumption
    <3>4. Total(Column(L.share, k), Rows) = OrZero(L.mark[k])
      BY AttributedIsTotal
    <3>5. [L.mark EXCEPT ![k] = v][k] = v
      OBVIOUS
    <3>6. Attributed(share, k) = Total(Column(share, k), Rows)
      <4> HIDE DEF share
      <4> QED
        BY AttributedIsTotal
    <3> QED
      BY <2>2, <3>3, <3>4, <3>5, <3>6
  <2> HIDE DEF share
  <2> QED
    BY <2>1, <2>3, <2>4, <2>5
<1> QED
  BY <1>1, <1>2

LEMMA ShareStep == Counted /\ ShareOK /\ SumIsMark /\ [Next]_vars => ShareOK' /\ SumIsMark'
<1> SUFFICES ASSUME Counted, ShareOK, SumIsMark, [Next]_vars PROVE ShareOK' /\ SumIsMark'
  OBVIOUS
<1>1. CASE UNCHANGED ledger
  BY <1>1 DEF ShareOK, SumIsMark
<1>2. ASSUME NEW k \in Natives, NEW v \in Measure, NEW r \in Rows,
             ledger' = Observe(ledger, r, k, v)
      PROVE  ShareOK' /\ SumIsMark'
  <2>1. ledger.mark \in [Natives -> Measure]
    BY DEF Counted, MarkOK
  <2>2. /\ Observe(ledger, r, k, v).share \in [Rows -> [Natives -> Int]]
        /\ \A n \in Natives :
             Attributed(Observe(ledger, r, k, v).share, n) = OrZero(Observe(ledger, r, k, v).mark[n])
    BY <2>1, Sharing DEF ShareOK, SumIsMark
  <2>3. ShareOK'
    BY <1>2, <2>2 DEF ShareOK
  <2>4. SumIsMark'
    BY <1>2, <2>2 DEF SumIsMark
  <2> QED
    BY <2>3, <2>4
<1> QED
  BY <1>1, <1>2, Reporting

LEMMA ShareInit == Init => ShareOK /\ SumIsMark
<1> SUFFICES ASSUME Init PROVE ShareOK /\ SumIsMark
  OBVIOUS
<1>1. ShareOK
  BY DEF Init, EmptyLedger, ShareOK, Natives
<1>2. ASSUME NEW n \in Natives
      PROVE  Attributed(ledger.share, n) = OrZero(ledger.mark[n])
  <2>1. ledger.mark[n] = Null
    BY DEF Init, EmptyLedger, Natives
  <2>2. \A r \in Rows : Column(ledger.share, n)[r] = 0
    BY DEF Init, EmptyLedger, Natives, Column
  <2>3. Total(Column(ledger.share, n), Rows) = 0
    BY <2>2, SumOfZeros, RowsAssumption
  <2> QED
    BY <2>1, <2>3, AttributedIsTotal DEF OrZero
<1> QED
  BY <1>1, <1>2 DEF SumIsMark

\* What the rows are attributed of a conversation adds up to its high-water
\* mark (observe and materialize of usage-ledger.ts): for any number of rows
\* that hold the conversation, in whatever order they observe it.
THEOREM SharesAddUp == Spec => []SumIsMark
<1> QED
  BY CountedInit, CountedStep, ShareInit, ShareStep, PTL DEF Spec

\* At any time, by whichever of its ways usage was observed and through
\* whichever rows, the ledger and the cursors of the daemon have counted of a
\* conversation at most what its transcript holds and, once more, the messages
\* without both ids that a sweep read again in a replaced file
\* (withLiveTranscriptLock, reconcileRow and usage.get, all through
\* UsageLedger.observe; consumeAssistantLine).
THEOREM NotOvercounted == Spec => []NeverOvercounted
<1>1. Counted => NeverOvercounted
  <2> SUFFICES ASSUME Counted, NEW n \in Natives
               PROVE  /\ OrZero(ledger.mark[n]) <= OrZero(total[n]) + recounted[n]
                      /\ cursor[n].counted <= OrZero(total[n]) + recounted[n]
    BY DEF NeverOvercounted
  <2>1. OrZero(total[n]) \in Nat /\ recounted[n] \in Nat
    BY Limits DEF Counted, Within, TranscriptOK, CursorOK
  <2> QED
    BY <2>1, Limits DEF Counted, MarkOK, CursorOK, Sound, Usages
<1> QED
  BY <1>1, CountedInit, CountedStep, PTL DEF Spec

\* What has been counted of a conversation is never taken back, in whatever
\* order its observations arrive (UsageLedger.observe).
THEOREM MarksNeverShrink ==
  Spec => [][\A n \in Natives : OrZero(ledger.mark[n]) <= OrZero(ledger.mark[n])']_vars
<1>1. Counted /\ [Next]_vars =>
        [\A n \in Natives : OrZero(ledger.mark[n]) <= OrZero(ledger.mark[n])']_vars
  BY MarkStep
<1> QED
  BY <1>1, CountedInit, CountedStep, PTL DEF Spec
-----------------------------------------------------------------------------
(* No link of an ended row is forgotten. *)

Covered(r, n) ==
  \/ n \in reconciled[r]
  \/ <<r, n>> \in excused
  \/ \E j \in jobs : j.row = r /\ (n \in j.left \/ n = j.read.native)

EndedAt(r) == status[r] \in {"completed", "failed"}

\* While the daemon serves, a link that is cared for stays so: a reconciliation
\* gives up a link only for its mark or for the excuse of a failure.
LEMMA CoveredStays ==
  ASSUME Within, [Next]_vars, Serving, Serving', NEW r \in Rows, NEW n \in Natives, Covered(r, n)
  PROVE  Covered(r, n)'
<1> USE DEF Covered
<1>1. JobsOK /\ RowOK
  BY DEF Within
<1>2. CASE UNCHANGED <<reconciled, excused, jobs>>
  BY <1>2
<1>3. ASSUME reconciled' = reconciled, excused \subseteq excused', jobs \subseteq jobs'
      PROVE  Covered(r, n)'
  BY <1>3
<1>4. ASSUME NEW h \in Heads, NEW k \in Natives, LinkNative(h, k) PROVE Covered(r, n)'
  BY <1>3, <1>4 DEF LinkNative
<1>5. ASSUME NEW h \in Heads, Release(h) PROVE Covered(r, n)'
  BY <1>3, <1>5 DEF Release, history
<1>6. ASSUME NEW h \in Heads, NEW v \in Usages \cup {Null}, NEW w \in BOOLEAN, StatusLine(h, v, w)
      PROVE Covered(r, n)'
  BY <1>3, <1>6 DEF StatusLine
<1>7. ASSUME NEW k \in Natives, SweepBegins(k) \/ SweepEnds(k) PROVE Covered(r, n)'
  BY <1>3, <1>7 DEF SweepBegins, SweepEnds, SweepOver, linkage, history
<1>8. ASSUME NEW i \in jobs, NEW i2, NEW k \in Natives,
             jobs' = (jobs \ {i}) \cup {i2}, i2.row = i.row, excused' = excused,
             reconciled' \in {reconciled, [reconciled EXCEPT ![i.row] = @ \cup {k}]},
             \A m \in Natives : m \in i.left \/ m = i.read.native =>
               m \in i2.left \/ m = i2.read.native \/ m \in reconciled'[i.row]
      PROVE  Covered(r, n)'
  <2>1. i.row \in Rows /\ reconciled[r] \subseteq reconciled'[r]
    BY <1>1, <1>8 DEF JobsOK, JobOK, RowOK
  <2>2. CASE n \in reconciled[r] \/ <<r, n>> \in excused
    BY <1>8, <2>1, <2>2
  <2>3. CASE \E j \in jobs \ {i} : j.row = r /\ (n \in j.left \/ n = j.read.native)
    BY <1>8, <2>3
  <2>4. CASE i.row = r /\ (n \in i.left \/ n = i.read.native)
    BY <1>8, <2>4
  <2> QED
    BY <2>2, <2>3, <2>4
<1>9. ASSUME NEW i \in jobs, NEW k \in Natives, ReadTranscript(i, k) PROVE Covered(r, n)'
  <2>1. /\ i.row \in Rows /\ i.read = NoRead /\ excused' = excused
        /\ \A m \in Natives : m # i.read.native
    BY <1>1, <1>9, NamesAssumption DEF ReadTranscript, NoRead, JobsOK, JobOK, history
  <2>2. CASE total[k] = Null
    <3> DEFINE i2 == Job(i.row, i.via, i.left \ {k}, NoRead)
    <3>1. /\ reconciled' = [reconciled EXCEPT ![i.row] = @ \cup {k}]
          /\ jobs' = (jobs \ {i}) \cup {i2}
      BY <1>9, <2>2 DEF ReadTranscript
    <3>2. i2.row = i.row /\ i2.left = i.left \ {k} /\ k \in reconciled'[i.row]
      BY <1>1, <2>1, <3>1 DEF Job, RowOK
    <3> HIDE DEF i2
    <3> QED
      BY <1>8, <2>1, <3>1, <3>2
  <2>3. CASE total[k] # Null
    <3> DEFINE i2 == Job(i.row, i.via, i.left \ {k}, [native |-> k, usage |-> Reading(k)])
    <3>1. reconciled' = reconciled /\ jobs' = (jobs \ {i}) \cup {i2}
      BY <1>9, <2>3 DEF ReadTranscript
    <3>2. i2.row = i.row /\ i2.left = i.left \ {k} /\ i2.read.native = k
      BY DEF Job
    <3> HIDE DEF i2
    <3> QED
      BY <1>8, <2>1, <3>1, <3>2
  <2> QED
    BY <2>2, <2>3
<1>10. ASSUME NEW i \in jobs, Reconcile(i) PROVE Covered(r, n)'
  <2> DEFINE i2 == Job(i.row, i.via, i.left, NoRead)
  <2>1. /\ i.read.native \in Natives /\ i.row \in Rows /\ excused' = excused
        /\ reconciled' = [reconciled EXCEPT ![i.row] = @ \cup {i.read.native}]
        /\ jobs' = (jobs \ {i}) \cup {i2}
    BY <1>1, <1>10 DEF Reconcile, JobsOK, JobOK, history
  <2>2. i2.row = i.row /\ i2.left = i.left /\ i.read.native \in reconciled'[i.row]
    BY <1>1, <2>1 DEF Job, RowOK
  <2> HIDE DEF i2
  <2> QED
    BY <1>8, <2>1, <2>2
<1>11. ASSUME NEW i \in jobs, JobEnds(i) PROVE Covered(r, n)'
  <2>1. /\ i.left = {} /\ n # i.read.native
        /\ jobs' = jobs \ {i} /\ excused' = excused /\ reconciled' = reconciled
    BY <1>11, NamesAssumption DEF JobEnds, NoRead, history, linkage
  <2> QED
    BY <2>1
<1>12. ASSUME NEW i \in jobs, JobFails(i) PROVE Covered(r, n)'
  <2>1. /\ jobs' = jobs \ {i} /\ reconciled' = reconciled
        /\ excused' = excused \cup {<<i.row, m>> : m \in (i.left \cup {i.read.native}) \ {None}}
    BY <1>12 DEF JobFails, linkage
  <2>2. CASE i.row = r /\ (n \in i.left \/ n = i.read.native)
    BY <2>1, <2>2, NamesAssumption
  <2>3. CASE \E j \in jobs \ {i} : j.row = r /\ (n \in j.left \/ n = j.read.native)
    BY <2>1, <2>3
  <2> QED
    BY <2>1, <2>2, <2>3
<1>13. CASE HeadStep
  BY <1>2, <1>13 DEF HeadStep, Talk, WriteMessage, Rewrite, HeadEnds, TerminalCloses, LaunchFails, linkage, history
<1>14. CASE RequestStep
  BY <1>2, <1>4, <1>5, <1>6, <1>14 DEF RequestStep, Adopt, Patch, linkage, history
<1>15. CASE SweepStep
  BY <1>2, <1>7, <1>15 DEF SweepStep, Tidy, linkage, history
<1>16. CASE JobStep \/ \E i \in jobs : JobFails(i)
  BY <1>9, <1>10, <1>11, <1>12, <1>16 DEF JobStep
<1>17. CASE DaemonStep
  BY <1>2, <1>17 DEF DaemonStep, Stop, ShutdownBegins, KillHead, Exit, Crash, Down, Boot, Serving, linkage, history
<1>18. CASE UNCHANGED vars
  BY <1>2, <1>18 DEF vars, linkage, history
<1> QED
  BY <1>13, <1>14, <1>15, <1>16, <1>17, <1>18 DEF Next
\* A row ends with its links in a reconciliation, and one it is given later is
\* excused.
LEMMA CoveredFirst ==
  ASSUME Within, [Next]_vars, Serving', NEW r \in Rows, NEW n \in Natives,
         EndedAt(r)', n \in links'[r], ~(Serving /\ EndedAt(r) /\ n \in links[r])
  PROVE  Covered(r, n)'
<1> USE DEF Covered, EndedAt, Serving
<1>1. HeadOK /\ RowOK
  BY DEF Within
<1>2. CASE UNCHANGED <<status, links, daemon>>
  BY <1>2
<1>3. ASSUME NEW h \in Heads, NEW k \in Natives \cup {None}, Adopt(h, k) PROVE Covered(r, n)'
  BY <1>1, <1>3 DEF Adopt, RowOK, linkage, control
<1>4. ASSUME NEW h \in Heads, NEW k \in Natives, LinkNative(h, k) PROVE Covered(r, n)'
  BY <1>1, <1>4 DEF LinkNative, LateLink, HeadOK, RowOK, Ended, rows, control
<1>5. ASSUME NEW h \in Heads, Release(h) PROVE Covered(r, n)'
  <2>1. rowOf[h] \in Rows /\ daemon' = daemon
    BY <1>1, <1>5 DEF Release, HeadOK, control
  <2>2. CASE UNCHANGED <<status, links>>
    BY <1>2, <2>1, <2>2
  <2>3. CASE ~UNCHANGED <<status, links>>
    <3> DEFINE i2 == Job(rowOf[h], "release", Released(rowOf[h], talk[h]), NoRead)
    <3>1. /\ status' = [status EXCEPT ![rowOf[h]] = IF talk[h] = None THEN "failed" ELSE "completed"]
          /\ links' = [links EXCEPT ![rowOf[h]] = @ \cup ({talk[h]} \ {None})]
          /\ jobs' = jobs \cup {i2}
      BY <1>5, <2>3 DEF Release, rows
    <3>2. i2.row = rowOf[h] /\ i2.left = links[rowOf[h]] \cup ({talk[h]} \ {None})
      BY DEF Job, Released
    <3> HIDE DEF i2
    <3>3. CASE r = rowOf[h]
      BY <1>1, <2>1, <3>1, <3>2, <3>3 DEF RowOK
    <3>4. CASE r # rowOf[h]
      BY <1>1, <2>1, <3>1, <3>4 DEF RowOK
    <3> QED
      BY <3>3, <3>4
  <2> QED
    BY <2>2, <2>3
<1>6. ASSUME NEW h \in Heads, NEW v \in Usages \cup {Null}, NEW w \in BOOLEAN, StatusLine(h, v, w)
      PROVE Covered(r, n)'
  <2>1. /\ rowOf[h] \in Rows /\ talk[h] \in Natives /\ daemon' = daemon /\ status' = status
        /\ \/ links' = links
           \/ /\ links' = [links EXCEPT ![rowOf[h]] = @ \cup {talk[h]}]
              /\ excused' = excused \cup LateLink(rowOf[h], talk[h])
    BY <1>1, <1>6 DEF StatusLine, Alive, HeadOK, rows, control
  <2> QED
    BY <1>1, <2>1 DEF LateLink, RowOK, Ended
<1>7. ASSUME NEW k \in Natives, SweepBegins(k) PROVE Covered(r, n)'
  BY <1>1, <1>7 DEF SweepBegins, RowOK, rows, control
<1>8. ASSUME NEW q \in Rows, Stop(q) PROVE Covered(r, n)'
  BY <1>1, <1>8 DEF Stop, RowOK, linkage, control
<1>9. CASE Boot
  <2>1. links' = links /\ reconciled' = reconciled /\ Recovered(r) \in {"completed", "failed"}
    BY <1>9 DEF Boot, linkage
  <2>2. CASE links[r] = reconciled[r]
    BY <2>1, <2>2
  <2>3. CASE links[r] # reconciled[r]
    <3> DEFINE i2 == Job(r, "boot", links[r], NoRead)
    <3>1. i2 \in jobs'
      BY <1>9, <2>1, <2>3 DEF Boot, Retried
    <3>2. i2.row = r /\ i2.left = links[r]
      BY DEF Job
    <3> HIDE DEF i2
    <3> QED
      BY <2>1, <3>1, <3>2
  <2> QED
    BY <2>2, <2>3
<1>10. CASE ShutdownBegins \/ Exit \/ Crash
  BY <1>10 DEF ShutdownBegins, Exit, Crash, Down
<1>11. CASE HeadStep
  BY <1>2, <1>11 DEF HeadStep, Talk, WriteMessage, Rewrite, HeadEnds, TerminalCloses, LaunchFails,
    rows, linkage, control
<1>12. CASE RequestStep
  BY <1>2, <1>3, <1>4, <1>5, <1>6, <1>12 DEF RequestStep, Patch, linkage, control
<1>13. CASE SweepStep
  BY <1>2, <1>7, <1>13 DEF SweepStep, SweepEnds, Tidy, rows, linkage, control
<1>14. CASE JobStep \/ \E j \in jobs : JobFails(j)
  BY <1>2, <1>14 DEF JobStep, ReadTranscript, Reconcile, JobEnds, JobFails, rows, linkage, control
<1>15. CASE DaemonStep
  BY <1>2, <1>8, <1>9, <1>10, <1>15 DEF DaemonStep, KillHead, rows, linkage
<1>16. CASE UNCHANGED vars
  BY <1>2, <1>16 DEF vars, rows, linkage, control
<1> QED
  BY <1>11, <1>12, <1>13, <1>14, <1>15, <1>16 DEF Next

Pending ==
  \A r \in Rows, n \in Natives : Serving /\ EndedAt(r) /\ n \in links[r] => Covered(r, n)

LEMMA PendingStep == Within /\ Pending /\ [Next]_vars => Pending'
<1> SUFFICES ASSUME Within, Pending, [Next]_vars, NEW r \in Rows, NEW n \in Natives,
                    Serving', EndedAt(r)', n \in links'[r]
             PROVE  Covered(r, n)'
  BY DEF Pending
<1>1. CASE Serving /\ EndedAt(r) /\ n \in links[r]
  BY <1>1, CoveredStays DEF Pending
<1>2. CASE ~(Serving /\ EndedAt(r) /\ n \in links[r])
  BY <1>2, CoveredFirst
<1> QED
  BY <1>1, <1>2

\* While the daemon serves, a link of a row that ended by a release or was
\* found ended at boot is reconciled, or in the hands of a reconciliation,
\* unless it was made after the end or reading it has failed (session.release,
\* staleOpenRows and reconcileRow).
THEOREM EndedReconciled == Spec => []EndedIsReconciled
<1>1. Init => Within /\ Pending
  BY CountedInit DEF Counted, Init, Pending
<1>2. Within /\ Pending /\ [Next]_vars => (Within /\ Pending)'
  BY Growing, PendingStep
<1>3. Within /\ Pending => EndedIsReconciled
  BY DEF Within, Pending, EndedIsReconciled, EndedAt, Covered, RowOK
<1> QED
  BY <1>1, <1>2, <1>3, PTL DEF Spec
-----------------------------------------------------------------------------
(* A boot counts what it finds not counted. *)

\* What the transcript of a link held at boot can still be read from it, and
\* has been counted or is in a reconciliation of the boot.
Promised(o) ==
  /\ o.row \in Rows /\ o.native \in Natives /\ o.usage \in Nat
  /\ total[o.native] # Null /\ o.usage <= Reading(o.native)

Paid(o) ==
  \/ o.usage <= OrZero(ledger.mark[o.native])
  \/ \E j \in jobs : /\ j.row = o.row /\ j.via = "boot"
                     /\ \/ o.native \in j.left
                        \/ j.read # NoRead /\ j.read.native = o.native /\ o.usage <= j.read.usage

Debts == \A o \in owed : Promised(o) /\ (o.found # "stopped" /\ ~o.marked => Paid(o))

\* A transcript never disappears, nor does what is read from it shrink.
LEMMA ReadingGrows ==
  ASSUME Within, [Next]_vars, NEW n \in Natives, total[n] # Null
  PROVE  /\ total'[n] # Null
         /\ Reading(n) \in Nat /\ Reading(n)' \in Nat /\ Reading(n) <= Reading(n)'
<1>1. /\ TranscriptOK /\ Billed /\ TranscriptOK' /\ Billed' /\ Grown /\ HeadOK
  BY Growing DEF Within
<1>2. Reading(n) \in Nat
  BY <1>1 DEF TranscriptOK, Reading, Measure
<1>3. CASE UNCHANGED transcripts
  BY <1>2, <1>3, Limits DEF transcripts, Reading, Usages
<1>4. ASSUME NEW h \in Heads, WriteMessage(h)
      PROVE  /\ total'[n] # Null
             /\ Reading(n)' \in Nat /\ Reading(n) <= Reading(n)'
  <2>1. /\ talk[h] \in Natives /\ billed' = billed
        /\ total' = [total EXCEPT ![talk[h]] = OrZero(@) + 1]
    BY <1>1, <1>4 DEF WriteMessage, Alive, HeadOK
  <2>2. OrZero(total[n]) = total[n] /\ total'[n] \in {total[n], total[n] + 1}
    BY <1>1, <2>1 DEF OrZero, TranscriptOK
  <2>3. total[n] \in Nat /\ total'[n] # Null
    BY <1>1, <2>2, Limits DEF TranscriptOK, Measure, Usages, Null
  <2>4. total'[n] \in Nat
    BY <1>1, <2>3 DEF TranscriptOK, Measure
  <2> QED
    BY <1>2, <2>1, <2>2, <2>3, <2>4 DEF Reading, Usages
<1>5. ASSUME NEW h \in Heads, NEW saves \in BOOLEAN, HeadEnds(h, saves)
      PROVE  /\ total'[n] # Null
             /\ Reading(n)' \in Nat /\ Reading(n) <= Reading(n)'
  <2>1. /\ talk[h] \in Natives /\ total' = total
        /\ billed' \in {billed, [billed EXCEPT ![talk[h]] = total[talk[h]]]}
    BY <1>1, <1>5 DEF HeadEnds, Alive, HeadOK
  <2>2. total[n] \in Nat /\ OrZero(total[n]) = total[n]
    BY <1>1 DEF TranscriptOK, Measure, OrZero
  <2>3. Reading(n) <= total[n]
    BY <1>1, <1>2, <2>2, Limits DEF Reading, Billed, TranscriptOK, OrZero, Usages
  <2>4. Reading(n)' \in {Reading(n), total[n]}
    BY <1>1, <2>1 DEF Reading, TranscriptOK
  <2> QED
    BY <1>2, <2>1, <2>2, <2>3, <2>4 DEF Usages
<1>6. CASE HeadStep
  <2>1. PICK h \in Heads : \/ \E k \in Natives : Talk(h, k)
                           \/ WriteMessage(h) \/ Rewrite(h)
                           \/ \E saves \in BOOLEAN : HeadEnds(h, saves)
                           \/ TerminalCloses(h)
                           \/ LaunchFails(h)
    BY <1>6 DEF HeadStep
  <2>2. CASE \/ (\E k \in Natives : Talk(h, k)) \/ Rewrite(h)
             \/ TerminalCloses(h) \/ LaunchFails(h)
    BY <1>3, <2>2 DEF Talk, Rewrite, TerminalCloses, LaunchFails
  <2> QED
    BY <1>2, <1>4, <1>5, <2>1, <2>2
<1>7. CASE RequestStep
  BY <1>3, <1>7, ZenonT(60) DEF RequestStep, Adopt, Patch, LinkNative, Release, StatusLine
<1>8. CASE SweepStep \/ JobStep \/ \E j \in jobs : JobFails(j)
  BY <1>3, <1>8 DEF SweepStep, JobStep, SweepBegins, SweepEnds, Tidy, ReadTranscript, Reconcile, JobEnds, JobFails
<1>9. CASE DaemonStep \/ UNCHANGED vars
  BY <1>3, <1>9 DEF DaemonStep, Stop, ShutdownBegins, KillHead, Exit, Crash, Down, Boot, vars
<1> QED
  BY <1>6, <1>7, <1>8, <1>9 DEF Next
\* A debt is kept until it is paid or the reconciliation of its row fails.
LEMMA PaidStays ==
  ASSUME Counted, [Next]_vars, NEW o \in owed, o \in owed', ~Boot,
         Promised(o), Paid(o)
  PROVE  Paid(o)'
<1> USE DEF Paid
<1>1. /\ JobsOK /\ o.native \in Natives /\ o.usage \in Nat /\ total[o.native] # Null
      /\ o.usage <= Reading(o.native)
  BY DEF Counted, Within, Promised
<1>2. CASE o.usage <= OrZero(ledger.mark[o.native])
  <2>1. /\ OrZero(ledger.mark[o.native]) <= OrZero(ledger.mark[o.native])'
        /\ MarkOK /\ MarkOK'
    BY <1>1, MarkStep DEF Counted
  <2>2. OrZero(ledger.mark[o.native]) \in Nat /\ OrZero(ledger.mark[o.native])' \in Nat
    BY <1>1, <2>1, Limits DEF MarkOK
  <2> QED
    BY <1>1, <1>2, <2>1, <2>2 DEF Usages
<1>3. ASSUME NEW j \in jobs, j.row = o.row, j.via = "boot",
             \/ o.native \in j.left
             \/ j.read # NoRead /\ j.read.native = o.native /\ o.usage <= j.read.usage
      PROVE  Paid(o)'
  <2>1. CASE jobs \subseteq jobs'
    BY <1>3, <2>1
  <2>2. CASE j \in jobs'
    BY <1>3, <2>2
  <2>3. ASSUME NEW k \in Natives, ReadTranscript(j, k) PROVE Paid(o)'
    <3>1. j.read = NoRead /\ o.native \in j.left
      BY <1>3, <2>3 DEF ReadTranscript
    <3>2. CASE k # o.native
      <4>1. PICK read : Job(j.row, j.via, j.left \ {k}, read) \in jobs'
        BY <2>3 DEF ReadTranscript
      <4> QED
        BY <1>3, <3>1, <3>2, <4>1 DEF Job
    <3>3. CASE k = o.native
      <4> DEFINE i2 == Job(j.row, j.via, j.left \ {k}, [native |-> k, usage |-> Reading(k)])
      <4>1. i2 \in jobs'
        BY <1>1, <2>3, <3>3 DEF ReadTranscript
      <4>2. i2.row = o.row /\ i2.via = "boot" /\ i2.read.native = k /\ i2.read.usage = Reading(k)
        BY <1>3 DEF Job
      <4>3. i2.read # NoRead
        BY <4>2, NamesAssumption DEF NoRead
      <4> HIDE DEF i2
      <4> QED
        BY <1>1, <3>3, <4>1, <4>2, <4>3
    <3> QED
      BY <3>2, <3>3
  <2>4. ASSUME Reconcile(j) PROVE Paid(o)'
    <3>1. CASE o.native \in j.left
      <4>1. Job(j.row, j.via, j.left, NoRead) \in jobs'
        BY <2>4 DEF Reconcile
      <4> QED
        BY <1>3, <3>1, <4>1 DEF Job
    <3>2. CASE j.read.native = o.native /\ o.usage <= j.read.usage
      <4>1. /\ ledger' = Observe(ledger, j.row, o.native, j.read.usage)
            /\ j.read.usage \in Nat
        BY <1>1, <2>4, <3>2 DEF Reconcile, JobsOK, JobOK
      <4>2. /\ j.read.usage \in Measure /\ OrZero(j.read.usage) = j.read.usage
            /\ ledger.mark \in [Natives -> Measure]
        BY <4>1, Limits DEF Measure, Counted, MarkOK
      <4>3. j.read.usage <= OrZero(ledger.mark[o.native])'
        <5>1. OrZero(j.read.usage)
                <= OrZero(Observe(ledger, j.row, o.native, j.read.usage).mark[o.native])
          BY <1>1, <4>2, Observing
        <5> QED
          BY <4>1, <4>2, <5>1
      <4>4. OrZero(ledger.mark[o.native])' \in Nat
        BY <1>1, MarkStep, Limits DEF MarkOK
      <4> QED
        BY <1>1, <3>2, <4>1, <4>3, <4>4 DEF Usages
    <3> QED
      BY <1>3, <3>1, <3>2
  <2>5. ASSUME JobEnds(j) \/ JobFails(j) PROVE Paid(o)'
    <3>1. ~JobEnds(j)
      BY <1>3 DEF JobEnds
    <3> QED
      BY <1>3, <2>5, <3>1 DEF JobFails
  <2>6. ASSUME NEW i \in jobs, NEW k \in Natives,
               ReadTranscript(i, k) \/ Reconcile(i) \/ JobEnds(i) \/ JobFails(i)
        PROVE  Paid(o)'
    <3>1. CASE i = j
      BY <2>3, <2>4, <2>5, <2>6, <3>1
    <3>2. CASE i # j
      BY <2>2, <2>6, <3>2 DEF ReadTranscript, Reconcile, JobEnds, JobFails
    <3> QED
      BY <3>1, <3>2
  <2>7. CASE HeadStep
    BY <2>1, <2>7 DEF HeadStep, Talk, WriteMessage, Rewrite, HeadEnds, TerminalCloses, LaunchFails
  <2>8. CASE RequestStep
    BY <2>1, <2>8, ZenonT(60) DEF RequestStep, Adopt, Patch, LinkNative, Release, StatusLine
  <2>9. CASE SweepStep
    BY <2>1, <2>9 DEF SweepStep, SweepBegins, SweepEnds, SweepOver, Tidy
  <2>10. CASE JobStep \/ \E i \in jobs : JobFails(i)
    BY <1>1, <2>6, <2>10 DEF JobStep
  <2>11. CASE DaemonStep \/ UNCHANGED vars
    <3>1. ~Exit /\ ~Crash
      BY DEF Exit, Crash, Down
    <3> QED
      BY <2>1, <2>11, <3>1 DEF DaemonStep, Stop, ShutdownBegins, KillHead, vars
  <2> QED
    BY <2>7, <2>8, <2>9, <2>10, <2>11 DEF Next
<1> QED
  BY <1>2, <1>3
LEMMA DebtsStep == Counted /\ Debts /\ [Next]_vars => Debts'
<1> SUFFICES ASSUME Counted, Debts, [Next]_vars, NEW o \in owed'
             PROVE  Promised(o)' /\ (o.found # "stopped" /\ ~o.marked => Paid(o)')
  BY DEF Debts
<1>1. Within
  BY DEF Counted
<1>2. CASE o \in owed /\ ~Boot
  <2>1. Promised(o)
    BY <1>2 DEF Debts
  <2>2. Promised(o)'
    BY <1>1, <2>1, ReadingGrows DEF Promised, Usages
  <2>3. ASSUME o.found # "stopped" /\ ~o.marked PROVE Paid(o)'
    BY <1>2, <2>1, <2>3, PaidStays DEF Debts
  <2> QED
    BY <2>2, <2>3
<1>3. CASE Boot
  <2>1. PICK r \in Rows : /\ status[r] # "none" /\ Recovered(r) # "working"
                          /\ \E n \in links[r] :
                               /\ total[n] # Null
                               /\ o = [row |-> r, native |-> n, usage |-> Reading(n),
                                       found |-> Found(r), marked |-> n \in reconciled[r]]
    BY <1>3 DEF Boot
  <2>2. PICK n \in links[r] :
          /\ total[n] # Null
          /\ o = [row |-> r, native |-> n, usage |-> Reading(n),
                  found |-> Found(r), marked |-> n \in reconciled[r]]
    BY <2>1
  <2>3. n \in Natives /\ Reading(n) \in Nat /\ UNCHANGED transcripts
    BY <1>1, <1>3, <2>1, <2>2, ReadingGrows DEF Boot, Within, RowOK
  <2>4. /\ o.row = r /\ o.native = n /\ o.usage = Reading(n) /\ o.found = Found(r)
        /\ ~o.marked => n \notin reconciled[r]
    BY <2>2
  <2>5. Promised(o)'
    BY <2>2, <2>3, <2>4 DEF Promised, Reading, transcripts, Usages
  <2>6. ASSUME o.found # "stopped", ~o.marked PROVE Paid(o)'
    <3>1. Retried(r)
      <4>1. status[r] \in {"none", "working"} \cup Ended
        BY <1>1 DEF Within, RowOK
      <4> QED
        BY <2>1, <2>4, <2>6, <4>1 DEF Retried, Recovered, Found, Ended
    <3>2. n \in links[r] /\ links[r] # reconciled[r]
      BY <2>2, <2>4, <2>6
    <3>3. Job(r, "boot", links[r], NoRead) \in jobs'
      BY <1>3, <3>1, <3>2 DEF Boot
    <3> QED
      BY <2>4, <3>2, <3>3 DEF Paid, Job
  <2> QED
    BY <2>5, <2>6
<1>4. ASSUME ~Boot PROVE o \in owed
  <2>1. CASE UNCHANGED owed
    BY <2>1
  <2>2. CASE HeadStep
    BY <2>1, <2>2 DEF HeadStep, Talk, WriteMessage, Rewrite, HeadEnds, TerminalCloses, LaunchFails, history
  <2>3. CASE RequestStep
    BY <2>1, <2>3, ZenonT(60) DEF RequestStep, Adopt, Patch, LinkNative, Release, StatusLine, history
  <2>4. CASE SweepStep
    BY <2>1, <2>4 DEF SweepStep, SweepBegins, SweepEnds, Tidy, history
  <2>5. CASE JobStep
    BY <2>1, <2>5 DEF JobStep, ReadTranscript, Reconcile, JobEnds, history
  <2>6. CASE \E j \in jobs : JobFails(j)
    BY <2>6 DEF JobFails
  <2>7. CASE DaemonStep \/ UNCHANGED vars
    BY <1>4, <2>1, <2>7 DEF DaemonStep, Stop, ShutdownBegins, KillHead, Exit, Crash, Down, vars, history
  <2> QED
    BY <2>2, <2>3, <2>4, <2>5, <2>6, <2>7 DEF Next
<1> QED
  BY <1>2, <1>3, <1>4

\* Once its reconciliations are over without a failure, a boot has counted
\* every unreconciled link of an ended row that was not stopped, up to what its
\* transcript held when the daemon came up (staleOpenRows and reconcileRow).
THEOREM BootReconciles == Spec => []BootReads
<1>1. Init => Counted /\ Debts
  BY CountedInit DEF Init, Debts
<1>2. Counted /\ Debts /\ [Next]_vars => (Counted /\ Debts)'
  BY CountedStep, DebtsStep
<1>3. Counted /\ Debts => BootReads
  BY DEF Debts, BootReads, BootDone, Paid
<1> QED
  BY <1>1, <1>2, <1>3, PTL DEF Spec
-----------------------------------------------------------------------------
=============================================================================
