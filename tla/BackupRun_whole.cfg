SPECIFICATION FairSpec
CONSTANTS
    Places <- AllPlaces
    Above <- Parents
    InitDirs <- Old
    Spellings <- Paths
    Links = {"alias", "nowhere"}
    InitLink <- LeadsTo
    S3Flags <- SomeFlags
    Recipients = {"known", "unknown"}
    Keyring = {"known"}
    Requests <- CommandLines
    Absent = Absent
    MaxRelinks = 1
    Mishaps = {"gpg", "mkdir", "taken", "bucket", "tempdir"}
    NumPages = 2
    PagesPerStep = 1
    Bucket = Bucket
INVARIANTS
    EarlyRefusalsWriteNothing
    NamesFit
    RowsHaveFiles
    ArchiveOutsideSource
    ReportedOnce
    DeliveredAsDeclared
    PlaintextGone
    BackupInv
PROPERTIES
    BackupEnds
    ActsAtomically
