SPECIFICATION Spec
CONSTANTS
    Tasks = {p, q}
    MaxAttempts = 2
    Confirmations = 2
    MaxNonce = 5
    MaxDrops = 0
SYMMETRY Executors
INVARIANT
    NoStomping
CHECK_DEADLOCK FALSE
