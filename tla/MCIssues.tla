----------------------------- MODULE MCIssues -----------------------------
(* Four reports of two conversations; two texts that fold to one hash and  *)
(* one of its own.                                                         *)
EXTENDS Issues, TLC

CONSTANTS p1, p2, p3, p4, t1, t2, t3, d1, d2

MCReport == {p1, p2, p3, p4}
MCText == {t1, t2, t3}
MCHash == {d1, d2}
MCDigest == t1 :> d1 @@ t2 :> d1 @@ t3 :> d2

MCSymmetry == Permutations(MCReport) \cup Permutations(Conversation)
=============================================================================
