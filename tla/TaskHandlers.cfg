\* Every chain of up to three tasks, two attempts each.
CONSTANTS
    MaxChain = 3
    MaxRetries = 2
SPECIFICATION Spec
INVARIANTS
    TypeOK
    ResultPointsAtObject
    ProcessedDownloads
    ReportFindsParentFile
    ReportDecodesScrapedRoot
    
