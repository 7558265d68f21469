SPECIFICATION Spec
CONSTANTS
    a = a
    b = b
    f = f
    Txs = {a}
    TxsOf <- OneWallet
    MaxEmpty = 1
PROPERTIES
    LeavesOthersMining
CHECK_DEADLOCK FALSE
