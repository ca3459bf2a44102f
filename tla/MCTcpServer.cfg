CONSTANTS
    RetryAttempts <- MCRetryAttempts
    MaxCloses <- MCMaxCloses
    MaxSockets <- MCMaxSockets

SPECIFICATION Spec

\* A closed server, or one whose retries are used up, has nothing left to do.
CHECK_DEADLOCK FALSE

INVARIANT TypeOK
INVARIANT RetriesMatchCloses
