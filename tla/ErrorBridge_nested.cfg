SPECIFICATION Spec
CONSTANTS
    Codes <- MCCodes
    MaxDepth = 7
INVARIANTS
    TypeOK
    CodesAreReal
    RpcErrorsArrive
    PlainLetsThrough
PROPERTIES
    TwoKindsOfErrors
