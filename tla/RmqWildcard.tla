------------------------------ MODULE RmqWildcard ------------------------------
(***************************************************************************)
(* Wildcard routing of ServerRMQ: convertRoutingKeyToRegex                 *)
(* (server-rmq.js 246-254) turns a registered pattern containing * or #    *)
(* into an anchored regular expression; initializeWildcardHandlersIfExist  *)
(* (234-245) keeps them in registration order; getHandlerByPattern         *)
(* (203-222) tries the exact pattern, then each regex in that order.       *)
(*                                                                         *)
(* Strings are sequences of one-character strings; the conversion and the  *)
(* regex matcher are modelled by what they do, and checked against the     *)
(* AMQP topic semantics the spec states (4.3): '.' separates words, '*' is *)
(* exactly one word, '#' is zero or more words.                            *)
(***************************************************************************)
EXTENDS Integers, Sequences, SequencesExt

CONSTANTS
    PatternWords,   \* words a registered pattern is made of (char sequences)
    KeyWords,       \* words an incoming routing key is made of
    MaxWords,       \* words per pattern or key at most
    MaxHandlers     \* handlers registered at most

\* Words joined with '.' into a string.
Join(ws) ==
    IF ws = <<>> THEN <<>>
    ELSE FoldLeft(LAMBDA acc, w : acc \o <<".">> \o w, ws[1], Tail(ws))

WordSeqs(W) == UNION {[1..n -> W] : n \in 1..MaxWords}

--------------------------------------------------------------------------------
(* The regular expression convertRoutingKeyToRegex builds, as a sequence   *)
(* of tokens: '\' and '.' are escaped to literals, '*' becomes [^.]+ and   *)
(* '#' becomes .*; anchored at both ends.  No regex without * or #.       *)
Lit(c)     == [t |-> "lit", c |-> c]
NotDotPlus == [t |-> "notdot+", c |-> ""]
AnyStar    == [t |-> "any*", c |-> ""]

IsWildcard(p) == \E i \in DOMAIN p : p[i] \in {"*", "#"}

\* Variant that turns '*' into .+ instead of [^.]+.
ConvertStarToAnyPlus(p) ==
    [i \in DOMAIN p |->
        CASE p[i] = "*" -> [t |-> "any+", c |-> ""]
          [] p[i] = "#" -> AnyStar
          [] OTHER      -> Lit(p[i])]

ConvertRoutingKeyToRegex(p) ==
    [i \in DOMAIN p |->
        CASE p[i] = "*" -> NotDotPlus
          [] p[i] = "#" -> AnyStar
          [] OTHER      -> Lit(p[i])]

\* regex.test(s) for an anchored token sequence.
RECURSIVE RegexMatch(_, _)
RegexMatch(r, s) ==
    IF r = <<>> THEN s = <<>>
    ELSE LET h    == Head(r)
             Rest(i) == RegexMatch(Tail(r), SubSeq(s, i + 1, Len(s)))
         IN  CASE h.t = "lit"     -> s # <<>> /\ Head(s) = h.c /\ Rest(1)
               [] h.t = "notdot+" -> \E i \in 1..Len(s) :
                                        (\A j \in 1..i : s[j] # ".") /\ Rest(i)
               [] h.t = "any+"    -> \E i \in 1..Len(s) : Rest(i)
               [] h.t = "any*"    -> \E i \in 0..Len(s) : Rest(i)

\* getHandlerByPattern with wildcards enabled: the index of the handler an
\* incoming key resolves to in the registration list hs, or 0 for none.
\* messageHandlers.get(key) first, then the wildcard regexes in order.
GetHandlerByPattern(hs, key) ==
    LET exact == {i \in DOMAIN hs : hs[i] = key}
        wild  == {i \in DOMAIN hs : IsWildcard(hs[i])
                     /\ RegexMatch(ConvertRoutingKeyToRegex(hs[i]), key)}
    IN  IF exact # {} THEN Min(exact)
        ELSE IF wild # {} THEN Min(wild) ELSE 0

--------------------------------------------------------------------------------
(* Reference: AMQP topic matching on words, and the spec's lookup rule.    *)
RECURSIVE TopicMatch(_, _)
TopicMatch(pw, kw) ==
    IF pw = <<>> THEN kw = <<>>
    ELSE CASE Head(pw) = <<"#">> ->
                \E i \in 0..Len(kw) : TopicMatch(Tail(pw), SubSeq(kw, i + 1, Len(kw)))
           [] Head(pw) = <<"*">> ->
                kw # <<>> /\ TopicMatch(Tail(pw), Tail(kw))
           [] OTHER ->
                kw # <<>> /\ Head(kw) = Head(pw) /\ TopicMatch(Tail(pw), Tail(kw))

SpecHandler(hws, kw) ==
    LET exact == {i \in DOMAIN hws : hws[i] = kw}
        wild  == {i \in DOMAIN hws : TopicMatch(hws[i], kw)}
    IN  IF exact # {} THEN Min(exact)
        ELSE IF wild # {} THEN Min(wild) ELSE 0

--------------------------------------------------------------------------------
(* The inputs: a registration list of distinct patterns and a routing key, *)
(* both as word sequences; they do not change.                             *)
VARIABLES handlers, key

vars == <<handlers, key>>

Init ==
    /\ handlers \in UNION {{hs \in [1..n -> WordSeqs(PatternWords)] : IsInjective(hs)}
                             : n \in 1..MaxHandlers}
    /\ key \in WordSeqs(KeyWords)

Next == UNCHANGED vars

Spec == Init /\ [][Next]_vars

\* Spec 4.3: an incoming routing key resolves to the handler registered
\* under exactly that key if there is one, otherwise to the first handler,
\* in registration order, whose pattern matches it with '*' as one word and
\* '#' as zero or more words.
ResolvesAsTopicExchange ==
    GetHandlerByPattern([i \in DOMAIN handlers |-> Join(handlers[i])], Join(key))
        = SpecHandler(handlers, key)
================================================================================
