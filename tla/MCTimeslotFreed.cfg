SPECIFICATION Spec
CONSTANTS
    Sites <- DynSites
    MaxLink = 3
INVARIANT ConnNotUsedFreed
