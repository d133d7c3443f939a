SPECIFICATION Spec
CONSTANTS
    MaxResets = 3
    CheckLimit = 1
    SignalLimit = 1
    AttemptLimit = 1
INVARIANTS
    SessionsHaveContext
