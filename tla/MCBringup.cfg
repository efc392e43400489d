SPECIFICATION Spec
CONSTANTS
    Units = {"nb", "nk", "sw", "b11"}
    NbSites <- Nanos
    NkSites <- Nokias
    SwSites <- Loads
    B11Sites <- Bs11s
INVARIANTS
    NbSafe NkSafe SwSafe B11Safe
PROPERTIES
    BringupEnds
CHECK_DEADLOCK FALSE
