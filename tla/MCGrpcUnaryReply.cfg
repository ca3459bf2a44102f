CONSTANTS
    Modes <- MCModes
    Values <- MCValues
    MaxEmissions <- MCMaxEmissions
SPECIFICATION Spec
\* A call whose result has been handled and whose microtasks have run has
\* nothing left to do.
CHECK_DEADLOCK FALSE
PROPERTY CallSettlesAsSpecified
