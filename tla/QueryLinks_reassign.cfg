SPECIFICATION Spec
CONSTANTS
    TxQueries = {t1, t2}
    TransferQueries = {x1}
    OutputQueries = {o1, o2}
    None = None
PROPERTIES
    ChildSideLinks
