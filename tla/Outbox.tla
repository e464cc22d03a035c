------------------------------- MODULE Outbox -------------------------------
(***************************************************************************)
(* What the send queue of the Discord runtime promises of replies: those   *)
(* that are accepted are taken one at a time and in order, the transcript  *)
(* shows a reply only if Discord has it, and a reply that was given up, or *)
(* left behind by a stop, never appears later.                             *)
(***************************************************************************)
EXTENDS Sequences

CONSTANTS Reply, None

VARIABLES
    waiting,   \* accepted replies, oldest first
    current,   \* the reply that is being sent
    posted,    \* replies Discord has
    recorded,  \* replies in the transcript
    open       \* sending goes on

vars == <<waiting, current, posted, recorded, open>>

Init ==
    /\ waiting = <<>>
    /\ current = None
    /\ posted = {}
    /\ recorded = {}
    /\ open = TRUE

Accept(m) ==
    /\ waiting' = Append(waiting, m)
    /\ UNCHANGED <<current, posted, recorded, open>>

Take ==
    /\ open = TRUE /\ current = None
    /\ waiting # <<>>
    /\ current' = Head(waiting)
    /\ waiting' = Tail(waiting)
    /\ UNCHANGED <<posted, recorded, open>>

Post ==
    /\ current # None
    /\ posted' = posted \cup {current}
    /\ UNCHANGED <<waiting, current, recorded, open>>

\* Done with the reply, recorded or given up.
Finish ==
    /\ current # None
    /\ recorded' \in {recorded, recorded \cup ({current} \cap posted)}
    /\ current' = None
    /\ UNCHANGED <<waiting, posted, open>>

Close ==
    /\ open = TRUE /\ current = None
    /\ open' = FALSE
    /\ UNCHANGED <<waiting, current, posted, recorded>>

Next == (\E m \in Reply : Accept(m)) \/ Take \/ Post \/ Finish \/ Close

Spec == Init /\ [][Next]_vars
=============================================================================
