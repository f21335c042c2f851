CONSTANTS
    Roles = {r1}
    m1 = m1
    m2 = m2
    Models = {m1, m2}
    Unset = Unset
    FirstFiles <- MCFirst
    SomeFiles <- MCFiles
    SomeEntries <- MCEntries
    MaxEdits = 2
    MaxWrites = 1
    MaxCatalogs = 1
SPECIFICATION Spec
PROPERTY ReviewedIsApplied
PROPERTY ConfirmedOnly
PROPERTY OthersKept
CHECK_DEADLOCK FALSE
