------------------------------ MODULE MCDuties ------------------------------
(***************************************************************************)
(* Small instances of two duties of the daemon that meet nowhere: the rows *)
(* of several sessions (Board) and the end of one harness (KillTree).      *)
(* `duty` says which of them a behaviour is about. The assumptions of      *)
(* RunRules, on the row that a create starts from, are evaluated here.     *)
(***************************************************************************)
EXTENDS Board, KillTree, RunRules
CONSTANTS p1, p2
VARIABLE duty

\* A path, and a pattern that matches both.
MCGlobs == {{p1}, {p1, p2}}

MCInit == duty \in {"rows", "kill"} /\ Init /\ KillInit
MCNext ==
  \/ duty = "rows" /\ Next /\ UNCHANGED <<duty, killing>>
  \/ duty = "kill" /\ KillNext /\ UNCHANGED <<duty, vars>>
MCSpec == MCInit /\ [][MCNext]_<<duty, vars, killing>>
============================================================================
