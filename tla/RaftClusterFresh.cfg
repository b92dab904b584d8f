SPECIFICATION Spec
CONSTANTS
    Store = {1, 2, 3}
    Nowhere = 0
    Region = {1, 2}
    MaxReplicas = 2
    FirstRegion <- Bootstrapped
    Budgets <- Calm
    MaxCommands = 2
PROPERTY FreshHeartbeatAccepted
