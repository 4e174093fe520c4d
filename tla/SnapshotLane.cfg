SPECIFICATION Spec
CONSTANTS
    EngineAnalyzes <- AnalyzeSnapshot
    EngineLowers <- Prepare
    Bits <- MCBits
    Max32 <- MCMax32
    Database = "d"
    Catalog <- MCCatalog
    Profiles <- MCProfiles
    SnapshotRequests <- MCRequests
    Engines = {e1, e2}
    Blocks = {1, 2}
    Gone = 0
    Fds = {1, 2}
    MaxWrites = 1
    MaxFaults = 1
    Elf <- MCElf
    ProfileFiles <- MCProfileFiles
    RecordDigest <- MCRecordDigest
    SetDigest <- MCSetDigest
INVARIANTS
    PreparedMeansTheSame
    ReportExact
    NoLateSuccess
    ServesWhatItMeasured
    HeldWhileNeeded
PROPERTIES
    CloseEnds
