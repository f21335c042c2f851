----------------------------- MODULE Host_proofs -----------------------------
(***************************************************************************)
(* The lock and the socket for any number of commands and daemons, however *)
(* they race, drain, fail and die.                                         *)
(***************************************************************************)
EXTENDS Host, TLAPS

-----------------------------------------------------------------------------
(* Who may touch the socket holds the lock. *)

Holder(d) == daemon[d] \in {"booting", "serving", "draining"}

\* The entry binds only with the lock, which the kernel drops only with the
\* process: what serves or may still unlink the socket file holds it.
LockHeld ==
  /\ DOMAIN daemon = Daemons
  /\ \A d \in Daemons : Holder(d) => lock = d

\* A daemon that probing commands start holds nothing yet.
LEMMA Probing ==
  ASSUME NEW c, Probes(c), DOMAIN daemon = Daemons
  PROVE  /\ DOMAIN daemon' = Daemons
         /\ UNCHANGED <<lock, sock>>
         /\ \A d \in Daemons : daemon'[d] = daemon[d] \/ daemon'[d] = "starting"
<1>1. daemon' = daemon \/ \E d : daemon' = [daemon EXCEPT ![d] = "starting"]
  BY DEF Probes
<1> QED
  BY <1>1 DEF Probes

\* A daemon that ends leaves the others, and the lock unless it held it.
LEMMA Vanishing ==
  ASSUME NEW d \in Daemons, Vanishes(d), LockHeld
  PROVE  /\ LockHeld'
         /\ \A e \in Daemons : Holder(e)' => e # d /\ daemon'[e] = daemon[e]
<1>1. daemon' = [daemon EXCEPT ![d] = "gone"]
  BY DEF Vanishes
<1>2. lock' = IF lock = d /\ daemon'[d] = "gone" THEN None ELSE lock
  BY DEF Vanishes, Unlocked, Free
<1> QED
  BY <1>1, <1>2 DEF LockHeld, Holder

\* The steps of commands, of the supervisor and of consoles.
LEMMA Elsewhere ==
  ASSUME LockHeld, ServesBehindSocket, UNCHANGED <<daemon, lock, sock>>
  PROVE  LockHeld' /\ ServesBehindSocket'
BY DEF LockHeld, Holder, ServesBehindSocket

LEMMA DaemonSteps ==
  ASSUME LockHeld, ServesBehindSocket, NEW d \in Daemons,
         Acquires(d) \/ Binds(d) \/ Exits(d) \/ Drains(d) \/ Dies(d)
  PROVE  LockHeld' /\ ServesBehindSocket'
<1>1. CASE Acquires(d)
  BY <1>1, HostAssumption DEF Acquires, LockHeld, Holder, ServesBehindSocket
<1>2. CASE Binds(d)
  BY <1>2 DEF Binds, LockHeld, Holder, ServesBehindSocket
<1>3. CASE Exits(d)
  <2>1. daemon[d] = "draining" /\ Vanishes(d)
    BY <1>3 DEF Exits
  <2>2. \A e \in Daemons : e # d => daemon[e] # "serving"
    BY <2>1 DEF LockHeld, Holder
  <2> QED
    BY <2>1, <2>2, Vanishing DEF ServesBehindSocket, Holder
<1>4. CASE Drains(d)
  <2>1. daemon' = [daemon EXCEPT ![d] = "draining"] /\ daemon[d] = "serving" /\ UNCHANGED sock
    BY <1>4 DEF Drains
  <2>2. lock' = IF lock = d /\ daemon'[d] = "gone" THEN None ELSE lock
    BY <1>4 DEF Drains, Unlocked, Free
  <2> QED
    BY <2>1, <2>2 DEF LockHeld, Holder, ServesBehindSocket
<1>5. CASE Dies(d)
  BY <1>5, Vanishing DEF Dies, ServesBehindSocket, Holder
<1> QED
  BY <1>1, <1>2, <1>3, <1>4, <1>5

LEMMA SocketStep == LockHeld /\ ServesBehindSocket /\ [Next]_vars => LockHeld' /\ ServesBehindSocket'
<1> SUFFICES ASSUME LockHeld, ServesBehindSocket, [Next]_vars
             PROVE  LockHeld' /\ ServesBehindSocket'
  OBVIOUS
<1>1. ASSUME NEW c \in Commands, Probes(c) PROVE LockHeld' /\ ServesBehindSocket'
  BY <1>1, Probing DEF LockHeld, Holder, ServesBehindSocket
<1>2. ASSUME NEW c \in Commands, Polls(c) \/ \E params \in Requests[c] : Asks(c, params)
      PROVE  LockHeld' /\ ServesBehindSocket'
  BY <1>2, Elsewhere DEF Polls, Asks
<1>3. ASSUME NEW r \in Callers, EnsureStep(r) PROVE LockHeld' /\ ServesBehindSocket'
  BY <1>3, Elsewhere DEF EnsureStep, Looks, Replaces, Handshakes, StartFails, Hears
<1>4. ASSUME NEW k \in Consoles, ConsoleStep(k) \/ Breaks(k) PROVE LockHeld' /\ ServesBehindSocket'
  BY <1>4, Elsewhere DEF ConsoleStep, ExitSeen, Listens, Ends, Breaks, Becomes
<1>5. CASE UNCHANGED vars
  BY <1>5, Elsewhere DEF vars
<1>6. CASE \E d \in Daemons : DaemonStep(d) \/ Drains(d) \/ Dies(d)
  BY <1>6, DaemonSteps DEF DaemonStep
<1> QED
  BY <1>1, <1>2, <1>3, <1>4, <1>5, <1>6 DEF Next

\* However many daemons are started, drain, crash or come late: the one that
\* serves is behind the socket file, so no other one serves.
THEOREM SocketIsServed == Spec => []ServesBehindSocket
<1>1. Init => LockHeld /\ ServesBehindSocket
  BY DEF Init, LockHeld, Holder, ServesBehindSocket
<1> QED
  BY <1>1, SocketStep, PTL DEF Spec
=============================================================================
