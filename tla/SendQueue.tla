----------------------------- MODULE SendQueue -----------------------------
(***************************************************************************)
(* What `codedeck send` promises about a message it has accepted: it waits *)
(* in the session's one slot until it is taken out to start a turn, and it *)
(* starts at most one.  A newer message takes the slot from an older one,  *)
(* stop and release empty it, and a message on its way to a harness may be *)
(* put back when the start fails.  Nothing starts a message twice.         *)
(*                                                                         *)
(* SessionLifecycle is the detailed specification that implements this one.*)
(***************************************************************************)
CONSTANT Msgs

VARIABLE fate        \* fate[m]: what has become of message m

Fates == {"new", "queued", "flying", "started", "dropped"}

With(f) == {m \in Msgs : fate[m] = f}

Init == fate = [m \in Msgs |-> "new"]

\* The slot holds one message: whatever it held before is dropped.
Queue(m) ==
  /\ fate[m] = "new"
  /\ fate' = [n \in Msgs |-> IF n = m THEN "queued"
                             ELSE IF fate[n] = "queued" THEN "dropped" ELSE fate[n]]

\* A message sent to a session that can resume starts at once; a stale queued
\* one loses to it.
SendNow(m) ==
  /\ fate[m] = "new" /\ With("flying") = {}
  /\ fate' = [n \in Msgs |-> IF n = m THEN "flying"
                             ELSE IF fate[n] = "queued" THEN "dropped" ELSE fate[n]]

Dispatch(m) ==
  /\ fate[m] = "queued" /\ With("flying") = {}
  /\ fate' = [fate EXCEPT ![m] = "flying"]

\* The harness has the message; or the start failed and the message goes back
\* to the slot, is reported to the sender, or is lost with the daemon.
Resolve(m) ==
  /\ fate[m] = "flying"
  /\ \E f \in {"started", "queued", "dropped"} : fate' = [fate EXCEPT ![m] = f]

Cancel(m) ==
  /\ fate[m] = "queued"
  /\ fate' = [fate EXCEPT ![m] = "dropped"]

Next == \E m \in Msgs : Queue(m) \/ SendNow(m) \/ Dispatch(m) \/ Resolve(m) \/ Cancel(m)

Spec == Init /\ [][Next]_fate
=============================================================================
