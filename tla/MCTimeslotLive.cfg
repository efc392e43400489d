SPECIFICATION FairSpec
CONSTANTS
    Sites <- IpacSites
    MaxLink = 3
INVARIANTS
    TimeslotAgrees
PROPERTIES
    ReleaseEnds
