CONSTANTS
    PatternWords <- MCAllWords
    KeyWords <- MCKeyWords
    MaxWords <- MCMaxWords
    MaxHandlers <- MCMaxHandlers

SPECIFICATION Spec

INVARIANT ResolvesAsTopicExchange
