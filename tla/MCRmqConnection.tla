---------------------------- MODULE MCRmqConnection ----------------------------
(* Model-checking instances of RmqConnection.                               *)
EXTENDS RmqConnection

\* Up to seven connection events: enough for several failures before a
\* connect, and a connect, disconnect and failed reconnects after it.
MCMaxManagerEvents == 7

\* Unlimited attempts, or one: the first failure is the last one allowed.
MCAttemptOptions == {INFINITE_CONNECTION_ATTEMPTS, 1}

\* One exact pattern and two wildcard patterns, registered in any order
\* before listen or between connects.
MCRoutingKeys == {"order.created", "order.*", "audit.#"}
MCWildcardKeys == {"order.*", "audit.#"}

\* Spec section 8 uses three attempts.
MCThreeAttempts == {3}
================================================================================
