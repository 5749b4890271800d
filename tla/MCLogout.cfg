SPECIFICATION ClientSpec
CONSTANTS
    Callers = {c1}
    ClientSessions = {s1}
    ClientTokens = {t1, t2}
    PushEnabled = TRUE
    Nothing = Nothing
PROPERTIES
    LogoutFinishes
CHECK_DEADLOCK FALSE
