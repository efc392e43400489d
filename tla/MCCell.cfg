SPECIFICATION Spec
CONSTANTS
    Units = {"ho", "ar", "ct", "pc", "rl"}
    HoSites <- Networks
    HoCalls = {1, 2, 3}
    AccSites <- Ramps
    CtSites <- Controlled
    PcSites <- Sockets
    RlMsgs = {m1, m2}
    RlConns = 2
    DtapMax = 1
    RlAnswers = 2
INVARIANTS
    CtSafe PcSafe
PROPERTIES
    HoSafe AccSafe PromiseKept CellSettles
CHECK_DEADLOCK FALSE
