CONSTANTS
    PackageOptions <- MCPackageOptions
    Root <- MCRoot
    SourceOptions <- MCSourceOptions
    Handlers <- MCHandlers
    BindMayFail = FALSE
    GracefulOptions = {TRUE, FALSE}
    MaxCalls = 1
SPECIFICATION Spec
INVARIANT ServesOnlyWhileListening
\* A server that has been listened on and closed, with no call running,
\* has nothing left to do.
CHECK_DEADLOCK FALSE
