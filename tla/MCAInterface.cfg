SPECIFICATION FairSpec
CONSTANTS
    Msc = {m1}
    Conn = {c1,c2}
    Inst = {n1}
    InstOf <- OneInstance
    None = None
    NIds = 3
    MaxReset = 1
    n1 = n1

INVARIANTS
    ConnsMatch NoOrphanedConnection NoCallAcrossReset
PROPERTIES
    ResetCompletes WaitingEnds
