CONSTANTS
    ConnectionAttemptOptions <- MCAttemptOptions
    MaxManagerEvents <- MCMaxManagerEvents
    MaxListens = 2
    WildcardsOptions = {FALSE, TRUE}
    RoutingKeys <- MCRoutingKeys
    WildcardKeys <- MCWildcardKeys

SPECIFICATION Spec

\* The model stops when the event bound is reached or the server is closed.
CHECK_DEADLOCK FALSE

INVARIANT TypeOK
INVARIANT NoSelfCloseAfterConnect
INVARIANT ErrorReportedLast
INVARIANT WildcardHandlersCompiledOnce
