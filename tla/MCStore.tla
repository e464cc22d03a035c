------------------------------ MODULE MCStore ------------------------------
(* Instances of Store for TLC: three calls that share a conversation key   *)
(* and a provider id, or differ in one of them.                            *)
EXTENDS Store

CONSTANTS k1, k2, x, ann, bob, p1, p2, p3

Inbound(key, pid, user) == [dir |-> "inbound", key |-> key, pid |-> pid, user |-> user]
Outbound(key, pid) == [dir |-> "outbound", key |-> key, pid |-> pid, user |-> None]

\* A message without provider id of a known user; one that carries an id; one
\* of a user who is not in profiles.users that carries the same id into another
\* conversation; a reply recorded under that id, as the index does not tell
\* directions apart.  They wait for each other's keys, ids and rows.
Mixed == {Inbound(k1, None, ann), Inbound(k1, x, None), Inbound(k2, x, bob),
          Outbound(k1, x)}
OnlyX == {Inbound(k1, x, None)}
=============================================================================
