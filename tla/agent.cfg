SPECIFICATION FairSpec
CONSTANTS
    Sources = {s1, s2}
    MaybeSlow = {s1}
    Columns = {"cidr", "tenant"}
    None = None
INVARIANTS
    TypeOK
    StoreReady
PROPERTIES
    StopsWhenTold
    OnceEnds
    OthersGoOn
\* A process that has stopped does nothing more.
CHECK_DEADLOCK FALSE
