\* An upload and a second request, of a client that waits for its answer (t1) or
\* does not (t2); two tunnels whose requests can share a hold.
SPECIFICATION FairSpec
CONSTANTS
    t1 = t1
    t2 = t2
    r1 = r1
    r2 = r2
    r3 = r3
    k1 = k1
    k2 = k2
    None = None
    Tunnels = {t1, t2}
    Requests = {r1, r2, r3}
    Keys = {k1, k2}
    KeyOf <- SharedKey
    Scripts <- Uploads
    Pipelining = {t2}
    Closing = {r2, r3}
    Waits = {"blocking", "signal"}
    Verdicts <- AllowOnly
    CapArgs = {1}
    RingCap = 2
INVARIANTS
    WatcherHasReaderAlone
    PatientClientsLoseNothing
    EntriesRowsAndVerdictsAgree
PROPERTIES
    DisconnectEndsHold
CHECK_DEADLOCK FALSE
