---------------------------- MODULE MCAgentRun ----------------------------
(* Instances of AgentRun for TLC: one conversation, two messages, several  *)
(* calls.                                                                  *)
EXTENDS AgentRun, TLC

CONSTANTS c1, m1, m2, p1, p2

OneConv == [m \in Msg |-> c1]
NoMsgs == {}
M2Only == {m2}
M1Only == {m1}

\* Calls are interchangeable; the messages are not, one of them may be a ping.
Calls == Permutations({p1, p2})
=============================================================================
