SPECIFICATION Spec
CONSTANTS
    Codes = {1}
    MaxDepth = 2
INVARIANTS
    MoneroErrorsAreCaught
