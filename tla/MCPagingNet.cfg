SPECIFICATION Spec
CONSTANTS
    b1 = b1
    b2 = b2
    Bts = {b1, b2}
    Subscr = {s1}
    Msc = {m1, m2}
    Conn = {c1}
    None = None
    Credit = 1
    FreeSlots = {0}
    WORK = 1
    CREDIT = 1
    T3113 = 1
    ExclFromRfLock = {b1}
    CoreLac = {m1}
    Depends <- DependsDef
    MaxUse = 3

INVARIANTS
    NetSafe
PROPERTIES
    ResponseStopsPaging
