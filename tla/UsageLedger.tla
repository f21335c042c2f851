----------------------------- MODULE UsageLedger -----------------------------
(***************************************************************************)
(* The usage ledger: how an observation of what a source has used so far   *)
(* becomes usage of a session row.  A source has a high-water mark; what   *)
(* an observation exceeds it by is attributed to the row it came through,  *)
(* and the row's usage is the sum of what was attributed to it.            *)
(*                                                                         *)
(* Simplifications:                                                        *)
(*   - One number stands for each of cost, input, output and cached        *)
(*     tokens: observe() treats the four alike and apart.  Null is a cost  *)
(*     or a mark that was never set.                                       *)
(*   - No usage is older than the ledger, so seedSessionUsage, which needs *)
(*     usage without attributions, does nothing.                           *)
(***************************************************************************)
EXTENDS Integers, FiniteSetsExt

CONSTANTS
  Rows,      \* the session rows
  Sources    \* the source keys

ASSUME RowsAssumption == IsFiniteSet(Rows)

Null == -1
OrZero(v) == IF v = Null THEN 0 ELSE v

\* The ledger: usage_sources, usage_attributions, the rows' usage columns.
EmptyLedger ==
  [mark  |-> [k \in Sources |-> Null],
   share |-> [r \in Rows |-> [k \in Sources |-> 0]],
   usage |-> [r \in Rows |-> Null]]

\* An observation counts if it exceeds the mark or is the first one.
Raises(mark, v) == v - OrZero(mark) > 0 \/ mark = Null

MutantDelta(mark, v) == v

\* What it adds to the row it came through.
Delta(mark, v) == v - OrZero(mark)

\* The row's usage: the sum of what is attributed to it.
Materialize(share, r) == MapThenSumSet(LAMBDA k : share[r][k], Sources)

\* The ledger after row r has observed the value v of source k.
Observe(ledger, r, k, v) ==
  IF v = Null \/ ~Raises(ledger.mark[k], v)
  THEN ledger
  ELSE LET share == [ledger.share EXCEPT ![r][k] = @ + Delta(ledger.mark[k], v)]
       IN  [mark  |-> [ledger.mark EXCEPT ![k] = v],
            share |-> share,
            usage |-> [ledger.usage EXCEPT ![r] = Materialize(share, r)]]
==============================================================================
