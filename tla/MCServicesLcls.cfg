SPECIFICATION Spec
CONSTANTS
    Units = {"lc"}
    OmSites <- Rbss
    OmNumTs = 1
    OmMaxChain = 2
    LcSites <- Pairs
    LcLegs = {1, 2}
    RtConns = {1, 2}
    RtMsgs <- Messages
    RtSites <- Cores
    FlCells <- FreqCells
    FlLists <- FreqLists
    SiSites <- Broadcasts
    SI2Q_MAX_NUM = 2
    SI2Q_MAX_LEN = 75
    SiListMax = 5
    CpNets <- CodecNets
    CpRequests <- CodecRequests
    MAX_MEAS_REP = 3
    MAX_NEIGH_MEAS = 2
    MAX_WIN_NEIGH_AVG = 2
    MrReports <- Reports
    MrSites <- Averaging
    CHAN_LOAD_SAMPLES = 2
    ClTrx = {0, 1}
    ClLchans = 2
    ClSites <- Loaded
INVARIANT LcNotYetCorrelated
CHECK_DEADLOCK FALSE
