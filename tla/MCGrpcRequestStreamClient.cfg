CONSTANTS
    errCancelled = errCancelled
    errUnavailable = errUnavailable
    MaxMessages <- MCMaxMessages
    ClientErrors <- MCBothErrors
    ErrorMessage <- MCErrorMessage

SPECIFICATION Spec
\* A finished call has no further steps.
CHECK_DEADLOCK FALSE

PROPERTY HandlerSeesClientStream
