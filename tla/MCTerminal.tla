----------------------------- MODULE MCTerminal -----------------------------
(***************************************************************************)
(* Small instances of the programs at the user's terminal: the setup       *)
(* wizard, the keyboard of an open session and the launch of one. They     *)
(* share no state; `program` says which one a behaviour is about.          *)
(***************************************************************************)
EXTENDS SetupWizard, InputGate, OpenLaunch, TLC
CONSTANTS r1, r2, known, bare, off
VARIABLE program

MCOrder == <<r1, r2>>

\* The programs that a behaviour is not about stand still in one state.
MCInit ==
    /\ program \in {"wizard", "keyboard", "launch"}
    /\ WizardInit /\ GateInit /\ Init
    /\ program # "wizard" => bindings = [r \in Roles |-> Unbound] /\ row = known
    /\ pty => file = NoFile
    /\ program # "launch" => launcher = "claude" /\ resume = None /\ ~pty /\ DOMAIN store = {} /\ file = NoFile
MCNext ==
    \/ program = "wizard" /\ WizardNext /\ UNCHANGED <<program, keyboard, vars>>
    \/ program = "keyboard" /\ GateNext /\ UNCHANGED <<program, wizardVars, vars>>
    \/ program = "launch" /\ Next /\ UNCHANGED <<program, wizardVars, keyboard>>
Symmetry == Permutations(Ids \ Elsewhere)
MCSpec == MCInit /\ [][MCNext]_<<program, wizardVars, keyboard, vars>>
=============================================================================
