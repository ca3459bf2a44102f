CONSTANTS
    ConnectionAttemptOptions <- MCThreeAttempts
    MaxManagerEvents <- MCMaxManagerEvents
    MaxListens = 2
    WildcardsOptions = {TRUE}
    RoutingKeys <- MCRoutingKeys
    WildcardKeys <- MCWildcardKeys

SPECIFICATION Spec

\* The model stops when the event bound is reached or the server is closed.
CHECK_DEADLOCK FALSE

PROPERTY StartAsSpecified
