SPECIFICATION FairSpec
CONSTANTS
    Devices = {d1}
    Managed = {m1}
    Custom = {c1}
    None = None
    Incremental = TRUE
    Faults = {"crash", "cancel", "fetch", "miss", "reject", "timeout", "store"}
    MaxFaults = 2
    MaxEdits = 2
INVARIANTS
    TypeOK
    HandEditsKept
    TruthfulLabels
    MappedDevicesLive
PROPERTY LabelsConverge
