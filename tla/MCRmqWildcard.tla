----------------------------- MODULE MCRmqWildcard -----------------------------
(* Model-checking instances of RmqWildcard.                                 *)
EXTENDS RmqWildcard

\* Pattern words: a literal word and the wildcards.  Key words: the same
\* literal and a two-letter word that shares its first letter, so that a
\* prefix match and a multi-character '*' match both show.
MCStarWords == {<<"a">>, <<"*">>}
MCAllWords  == {<<"a">>, <<"*">>, <<"#">>}
MCKeyWords  == {<<"a">>, <<"a", "b">>}

\* Three words (so '#' can stand between two words) and two handlers (so
\* registration order decides between two matches).
MCMaxWords == 3
MCMaxHandlers == 2
================================================================================
