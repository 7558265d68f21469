SPECIFICATION Spec
CONSTANTS
    a = a
    b = b
    f = f
    Txs = {a, b, f}
    TxsOf <- TwoWallets
    MaxEmpty = 1
INVARIANTS
    TypeOK
    PoolCleared
    WalletsCatchUp
    RaisesOnlyDisturbed
PROPERTIES
    WaitEnds
CHECK_DEADLOCK FALSE
