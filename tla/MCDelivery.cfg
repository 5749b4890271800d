SPECIFICATION MCSpec
CONSTANTS
    phone = phone
    w1 = w1
    w2 = w2
    Deliveries = {1, 2}
    PushDevices = {phone}
    DeviceOf <- MCDevice
    PushWorkers = {w1, w2}
    PushTake = 1
    MaxAttempts = 2
    MaxPushFaults = 1
    Callers = {c1, c2}
    ClientSessions = {s1}
    ClientTokens = {t1, t2}
    PushEnabled = TRUE
    Nothing = Nothing
    Sockets = {k1, k2}
    Hubs = {h1, h2}
    NoSocket = NoSocket
    MaxConnects = 2
    q1 = q1
    q2 = q2
    Requests = {q1, q2}
    Builds = {b1}
    None = None
    Source = Source
    MaxDeaths = 2
INVARIANTS
    PushesAreBounded
    AlwaysOnTheWay
PROPERTIES
    PendingIsSettled
    WaitersAreReleased
    LostPeersAreTerminated
    RequestsEndInService
CHECK_DEADLOCK FALSE
