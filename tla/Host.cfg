CONSTANTS
    None = None
    c1 = c1
    c2 = c2
    h1 = h1
    h2 = h2
    b1 = b1
    b2 = b2
    Commands = {c1, c2}
    Daemons = {1, 2}
    MaxConsoles = 2
    Hosts = {h1, h2}
    Builds = {b1, b2}
    Requests <- MCRequests
    Autostart <- MCAutostart
SPECIFICATION Spec
INVARIANT ServesBehindSocket
PROPERTY EnsureAnswered
PROPERTY ConsolesEnd
CHECK_DEADLOCK FALSE
