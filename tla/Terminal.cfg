CONSTANTS
    r1 = r1
    r2 = r2
    known = known
    bare = bare
    off = off
    RoleOrder <- MCOrder
    Listed = {known, bare}
    Off = {off}
    NoEffort = {bare}
    Efforts = {low}
    NoRow = NoRow
    Unset = Unset
    MaxKeys = 2
    Kinds = {"text", "backslash", "enter", "control", "escape", "alt-enter", "arrow", "focus", "reply", "kitty-esc", "paste-on", "paste-off", "mouse"}
    MaxTyped = 2
    None = None
    Ids = {i1, i2, i3}
    Elsewhere = {i3}
    Names = {n}
    Limit = 3
SPECIFICATION MCSpec
SYMMETRY Symmetry
PROPERTY SavedAsAnswered
INVARIANT NoLostWakeup
PROPERTY InjectsOnCleanLine
INVARIANT LeavesTerminal
PROPERTY ReleaseIsLast
PROPERTY NamesOwn
CHECK_DEADLOCK FALSE
