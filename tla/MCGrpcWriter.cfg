CONSTANTS
    MaxValues <- MCMaxValues
    HighWaterMark <- MCHighWaterMark

SPECIFICATION Spec

\* A finished call (ended, buffer flushed) has no further steps.
CHECK_DEADLOCK FALSE

INVARIANT TypeOK
PROPERTY StreamRefinement
PROPERTY SettlesAfterSource
PROPERTY BackpressureRespected
