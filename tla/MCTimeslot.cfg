SPECIFICATION Spec
CONSTANTS
    Sites <- BusySites
    MaxLink = 3
INVARIANTS
    TimeslotAgrees AirMatches NackedOnce ConnNotUsedNull
