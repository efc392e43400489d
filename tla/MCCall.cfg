SPECIFICATION FairSpec
CONSTANTS
    Lchans = {a, b}
    None = None
    Sites <- TwoSites
INVARIANTS
    CallAgrees NothingMissed AssignmentAnswered NothingLeftBehind
PROPERTIES
    MovesWhenReady ProceduresEnd
