SPECIFICATION ClientSpec
CONSTANTS
    Tabs = {t1, t2}
    Users = {u1, u2}
    NoUser = NoUser
    u1 = u1
    f0 = f0
    f1 = f1
    f2 = f2
    Figures <- SomeFigures
    FirstFigure = f0
    HistoryLimit = 1
    Scopes <- SomeScopes
    Dates = {d1, d2}
    Imports = {1, 2}
    ByHand = 0
    Zero = f0
    Limits <- SomeLimits
SYMMETRY Symmetry
INVARIANTS TypeOK SavesAreInformed DraftsStayPersonal AuditTypeOK RevertLeavesNothing
PROPERTIES EditsEndSaved OrphansAreKept RevertTakesImportOnly
CHECK_DEADLOCK FALSE
