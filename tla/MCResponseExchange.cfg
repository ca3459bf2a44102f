CONSTANTS
    m1 = m1
    m2 = m2
    Messages <- MCMessages
    Patterns <- MCPatterns
    Registered <- MCRegistered
    MaxEmissions <- MCMaxEmissions
    Transports <- MCTransports
    NoAckOptions <- MCNoAckOptions
SPECIFICATION Spec
INVARIANT TypeOK
INVARIANT ClientSeesHandlerResult
INVARIANT OneTerminalPerRequest
PROPERTY EveryRequestAnswered
CHECK_DEADLOCK FALSE
