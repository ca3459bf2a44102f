CONSTANTS
    PackageOptions <- MCPackageOptions
    Root <- MCRoot
    SourceOptions <- MCSourceOptions
    Handlers <- MCHandlers
    BindMayFail = TRUE
    GracefulOptions = {TRUE, FALSE}
    MaxCalls = 2
SPECIFICATION Spec
INVARIANTS TypeOK DispatchAsSpecified
PROPERTY CloseCompletes
\* A server that has been listened on and closed, with no call running,
\* has nothing left to do.
CHECK_DEADLOCK FALSE
