SPECIFICATION FairSpec
CONSTANTS
    b1 = b1
    b2 = b2
    Bts = {b1}
    Subscr = {s1, s2}
    Msc = {m1}
    Conn = {c1}
    None = None
    Credit = 1
    FreeSlots = {0, 2}
    WORK = 1
    CREDIT = 2
    T3113 = 2
    ExclFromRfLock = {}
    CoreLac = {}
    Depends = {}
    MaxUse = 3

INVARIANTS
    PagingSafe
PROPERTIES
    RequestsEnd
