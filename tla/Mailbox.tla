------------------------------ MODULE Mailbox ------------------------------
(***************************************************************************)
(* What the store of messages promises to its callers, without tables,     *)
(* transactions or locks.  A message is taken at once or not at all; two   *)
(* messages of one provider id are never both taken; the messages of one   *)
(* conversation key are in one thread; a caller told that its message is a *)
(* duplicate is told which message it duplicates.  A caller may be told    *)
(* of a failure although its message was taken.  Store implements this.    *)
(***************************************************************************)
CONSTANTS Call,     \* calls of Receive and RecordOutbound, one message each
          Requests, \* what a call may ask for
          None      \* no call, no provider id

VARIABLES asked,  \* asked[p]: the request of call p, or None
          taken,  \* calls whose message is in the mailbox
          thread, \* thread[p]: the call whose message opened p's conversation
          answer  \* answer[p]: what call p was told

mailboxVars == <<asked, taken, thread, answer>>

NoAnswer == [kind |-> "none", id |-> None]

MailboxInit ==
    /\ asked = [p \in Call |-> None]
    /\ taken = {}
    /\ thread = [p \in Call |-> None]
    /\ answer = [p \in Call |-> NoAnswer]

Ask(p, r) ==
    /\ asked[p] = None
    /\ asked' = [asked EXCEPT ![p] = r]
    /\ UNCHANGED <<taken, thread, answer>>

SameProviderId(p, q) == asked[p].pid # None /\ asked[p].pid = asked[q].pid

Pending(p) == asked[p] # None /\ answer[p] = NoAnswer

\* The message is taken into the thread of its conversation.
Put(p, kind) ==
    /\ Pending(p)
    /\ \A q \in taken : ~SameProviderId(p, q)
    /\ taken' = taken \cup {p}
    /\ \E c \in taken' :
         /\ \A q \in taken : asked[q].key = asked[p].key => thread[q] = c
         /\ asked[c].key = asked[p].key
         /\ thread' = [thread EXCEPT ![p] = c]
    /\ answer' = [answer EXCEPT ![p] = [kind |-> kind,
                                        id |-> IF kind = "stored" THEN p ELSE None]]
    /\ UNCHANGED asked

\* The message is a duplicate of one that was taken.
Duplicate(p, q) ==
    /\ Pending(p)
    /\ q \in taken
    /\ SameProviderId(p, q)
    /\ answer' = [answer EXCEPT ![p] = [kind |-> "deduped", id |-> q]]
    /\ UNCHANGED <<asked, taken, thread>>

\* The message is not taken, and the caller knows.
Refuse(p, kind) ==
    /\ Pending(p)
    /\ answer' = [answer EXCEPT ![p] = [kind |-> kind, id |-> None]]
    /\ UNCHANGED <<asked, taken, thread>>

MailboxNext ==
    \E p \in Call :
        \/ \E r \in Requests : Ask(p, r)
        \/ \E kind \in {"stored", "failed"} : Put(p, kind)
        \/ \E q \in Call : Duplicate(p, q)
        \/ \E kind \in {"failed", "rejected"} : Refuse(p, kind)

MailboxSpec == MailboxInit /\ [][MailboxNext]_mailboxVars
=============================================================================
