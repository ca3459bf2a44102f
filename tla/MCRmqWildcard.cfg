CONSTANTS
    PatternWords <- MCStarWords
    KeyWords <- MCKeyWords
    MaxWords <- MCMaxWords
    MaxHandlers <- MCMaxHandlers

SPECIFICATION Spec

INVARIANT ResolvesAsTopicExchange
