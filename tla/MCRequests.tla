----------------------------- MODULE MCRequests -----------------------------
(* Instances of Requests for TLC: a message that Twilio delivers, perhaps  *)
(* several times, and one of the web.                                      *)
EXTENDS Requests

CONSTANTS c1, c2, m1, m2, r1, r2, r3

ByWebhook == {m1}
Convs == [m \in Msg |-> IF m = m1 THEN c1 ELSE c2]

\* Two requests whose calls compete, or three without an agent, two of which
\* may jam a pool of two.
PoolConfigs ==
    [conns : 1..3, agent : {TRUE}, requests : {{r1, r2}}]
        \cup [conns : {2}, agent : {FALSE}, requests : {{r1, r2, r3}}]

\* Connections enough.
AckConfigs == [conns : {6}, agent : {TRUE}, requests : {{r1, r2}}]
=============================================================================
