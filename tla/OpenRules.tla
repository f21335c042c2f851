------------------------------ MODULE OpenRules ------------------------------
(***************************************************************************)
(* The decisions that `codedeck open` takes without waiting for anyone:    *)
(* src/cli/commands/open.ts, src/open/contract.ts and the launchers. The   *)
(* assumptions at the end check them against what they are for, on every   *)
(* small input.                                                            *)
(***************************************************************************)
EXTENDS Naturals, Sequences, FiniteSets, SequencesExt

CONSTANTS None

---------------------------------------------------------------------------
(* The command line. A token is an option, known or not, with or without   *)
(* "=", that takes a value or not, or a word.                              *)
Option(name, eq) == [name |-> name, eq |-> eq, word |-> None]
Word(w) == [name |-> None, eq |-> FALSE, word |-> w]
IsOption(token) == token.name # None
Known == {"value", "switch"}

\* scanOptions: the operands, as positions, or an error.
Scan(tokens) ==
    LET Skips(i) == tokens[i].name = "value" /\ ~tokens[i].eq
        \* Whether token i is read for itself and not as an option's value.
        read[i \in 1 .. Len(tokens)] == i = 1 \/ ~(read[i - 1] /\ Skips(i - 1))
        Read == {i \in 1 .. Len(tokens) : read[i]}
        Wrong(i) == IsOption(tokens[i]) /\ (tokens[i].name \notin Known \/ (tokens[i].eq /\ tokens[i].name = "switch"))
    IN IF \E i \in Read : Wrong(i) THEN [ok |-> FALSE, operands |-> {}]
       ELSE [ok |-> TRUE, operands |-> {i \in Read : ~IsOption(tokens[i])}]

\* getInvocation: commander drops the separator and takes the first operand
\* of what is left for the role; it is one only when an operand before the
\* separator reads the same.
Taken(tokens, passthrough) ==
    LET operands == Scan(tokens).operands
        first == {i \in operands : \A j \in operands : i <= j}
    IN IF operands # {} THEN tokens[CHOOSE i \in first : TRUE].word
       ELSE IF passthrough # <<>> THEN passthrough[1] ELSE None
Invocation(tokens, passthrough) ==
    LET taken == Taken(tokens, passthrough)
    IN IF taken \in {tokens[i].word : i \in Scan(tokens).operands} THEN taken ELSE None

\* effectiveModel: the last --model of the passthrough. A token is "--model",
\* "--model=v" (joined) or a value.
EffectiveModel(args) ==
    LET Gives(i) == args[i].kind = "joined" \/ (i > 1 /\ args[i - 1].kind = "model")
        last == {i \in DOMAIN args : Gives(i) /\ \A j \in DOMAIN args : j > i => ~Gives(j)}
    IN IF last = {} THEN None ELSE args[CHOOSE i \in last : TRUE].value

---------------------------------------------------------------------------
(* The conversation of a harness that tells nobody its id, from what its   *)
(* store held before and after. A store is a function from ids to the time *)
(* of their last update.                                                   *)
Fresh(before, after) == DOMAIN after \ DOMAIN before

\* diffOpencodeSession: the one new session, or the one updated last.
DiffOpencode(before, after) ==
    LET fresh == Fresh(before, after)
        touched == {i \in DOMAIN after \cap DOMAIN before : after[i] > before[i]}
        latest == {i \in touched : \A j \in touched \ {i} : after[i] > after[j]}
    IN CASE Cardinality(fresh) = 1 -> CHOOSE i \in fresh : TRUE
         [] fresh = {} /\ latest # {} -> CHOOSE i \in latest : TRUE
         [] OTHER -> None

\* diffCodexRolloutsAcross: the one new rollout, if it is of this directory
\* and its first line can be read.
DiffCodex(before, after, mine) ==
    LET fresh == Fresh(before, after)
    IN IF Cardinality(fresh) = 1 /\ fresh \subseteq mine THEN CHOOSE i \in fresh : TRUE ELSE None

---------------------------------------------------------------------------
(* Checks on small inputs. *)
SmallTokens == {Option(n, e) : n \in {"value", "switch", "unknown"}, e \in BOOLEAN}
                  \cup {Word("a"), Word("b")}
SmallArgs == {[kind |-> k, value |-> v] : k \in {"model", "joined", "value"}, v \in {"a", "b"}}
SmallStores == UNION {[S -> 1 .. 2] : S \in SUBSET {"a", "b"}}

\* No unknown option passes unless it is the value of an option that takes
\* one, and no word that is such a value is an operand.
ASSUME ScanIsStrict ==
    \A n \in 0 .. 3 : \A tokens \in [1 .. n -> SmallTokens] :
        Scan(tokens).ok =>
            /\ \A i \in 1 .. n : tokens[i].name = "unknown" =>
                  i > 1 /\ tokens[i - 1] = Option("value", FALSE)
            /\ \A i \in Scan(tokens).operands : i > 1 /\ tokens[i - 1] = Option("value", FALSE) =>
                  i > 2 /\ tokens[i - 2] = Option("value", FALSE)

\* The role is the first operand before the separator, and none when there is
\* none, whatever the passthrough spells.
ASSUME RoleIsAskedFor ==
    \A n \in 0 .. 2 : \A tokens \in [1 .. n -> SmallTokens] :
        \A passthrough \in {<<>>, <<"a">>, <<"b", "a">>} :
            LET operands == Scan(tokens).operands
            IN /\ operands = {} => Invocation(tokens, passthrough) = None
               /\ \A i \in operands : (\A j \in operands : i <= j)
                      => Invocation(tokens, passthrough) = tokens[i].word

\* The model is what a harness reads that takes its options from left to
\* right and lets the last one win, unless an option is another's value.
ASSUME ModelIsTheLast ==
    \A n \in 0 .. 3 : \A args \in [1 .. n -> SmallArgs] :
        LET Reads(m, i) == IF args[i].kind = "joined" \/ (i > 1 /\ args[i - 1].kind = "model")
                           THEN args[i].value ELSE m
        IN (\A i \in 2 .. n : args[i - 1].kind = "model" => args[i].kind = "value")
             => EffectiveModel(args) = FoldLeft(Reads, None, [i \in 1 .. n |-> i])

\* If this launch alone used the store, its conversation is found, and nothing
\* is named that did not change.
ASSUME DiffIsSound ==
    \A before, after \in SmallStores :
        LET changed == {i \in DOMAIN after : i \notin DOMAIN before \/ after[i] > before[i]}
        IN DOMAIN before \subseteq DOMAIN after =>
             /\ DiffOpencode(before, after) \in changed \cup {None}
             /\ Cardinality(changed) = 1 => DiffOpencode(before, after) \in changed
             /\ \A mine \in SUBSET DOMAIN after : DiffCodex(before, after, mine) \in mine \cup {None}
============================================================================
