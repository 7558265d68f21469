SPECIFICATION CarefulSpec
CONSTANTS
    TxQueries = {t1, t2}
    TransferQueries = {x1, x2}
    OutputQueries = {o1, o2}
    None = None
INVARIANTS
    TypeOK
    Mutual
PROPERTIES
    ImplementsLinkedPairs
