SPECIFICATION Spec
CONSTANTS
    Cwd <- MCCwd
    Searches <- MCSearches
    MaxPauses = 1
INVARIANTS TypeOK Accounting OneHolder CacheTrue FoundAll SyncMatches BracesRight
PROPERTIES NothingAfterAbort AllEnd
CHECK_DEADLOCK FALSE
