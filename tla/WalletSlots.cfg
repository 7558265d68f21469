SPECIFICATION Spec
CONSTANTS
    MaxSlots = 2
    Clients = {c1, c2, c3}
    None = None
INVARIANTS TypeOK OwnWallet SlotsMatchServers
PROPERTIES ClearEmpties Recovers ImplementsLeases
