SPECIFICATION Spec
CONSTANTS
    Cwd <- MCCwd
    Searches <- LinkSearches
    MaxPauses = 0
INVARIANTS LinksStop
CHECK_DEADLOCK FALSE
