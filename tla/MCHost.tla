------------------------------- MODULE MCHost -------------------------------
(***************************************************************************)
(* A small instance of Host: a daemon with one successor, and two commands *)
(* of two installations, one of which names a host or a port.              *)
(***************************************************************************)
EXTENDS Host
CONSTANTS c1, c2, h1, h2, b1, b2

Request(host, hostFor, portFor, build) == [host |-> host, hostFor |-> hostFor, portFor |-> portFor, build |-> build]
MCRequests ==
    [c \in Commands |->
        IF c = c1 THEN {Request(h2, "explicit", "preferred", b1), Request(h1, "preferred", "explicit", b1)}
        ELSE {Request(h1, "preferred", "preferred", b2)}]
MCAutostart == Request(h1, "preferred", "preferred", None)
============================================================================
