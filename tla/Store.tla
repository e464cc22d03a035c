------------------------------- MODULE Store -------------------------------
(***************************************************************************)
(* The store of messages: Receive (internal/db/store.go) and               *)
(* RecordOutbound (internal/db/discord.go) run by concurrent callers on    *)
(* the tables conversations, messages and conversation_participants.       *)
(*                                                                         *)
(* Each call runs at most one transaction, under READ COMMITTED.  A step   *)
(* is one statement.  An INSERT waits while another open transaction has   *)
(* inserted a row with the same unique key, an UPDATE while one has        *)
(* updated the row; a statement that violates a constraint aborts its      *)
(* transaction, whose locks Postgres releases at once.                     *)
(*                                                                         *)
(* A call inserts at most one message and one conversation, which are      *)
(* named after the call.  The tables are therefore what the committed      *)
(* transactions inserted; only last_message_at has a variable of its own.  *)
(***************************************************************************)
EXTENDS Naturals

CONSTANTS
    Call,       \* calls of Receive and RecordOutbound
    Key,        \* (source_channel, conversation_key)
    Pid,        \* (source_channel, provider_message_id)
    User,       \* user ids
    KnownUsers, \* those with a row in profiles.users
    Requests,   \* the messages a caller may pass
    None        \* no call, no provider id, no user, no request

Request == [dir : {"inbound", "outbound"}, key : Key,
            pid : Pid \cup {None}, user : User \cup {None}]

ASSUME StoreConstants ==
    /\ Requests \subseteq Request
    /\ KnownUsers \subseteq User
    /\ None \notin Call \cup Pid \cup User \cup Requests

VARIABLES
    now,    \* the clock of the database
    pc,     \* pc[p]: the next statement of call p
    req,    \* req[p]: the message call p was given
    state,  \* state[p]: the state of the transaction of p
    tx,     \* tx[p]: what the transaction of p did so far
    last,   \* last[c]: last_message_at of the conversation inserted by c
    result  \* result[p]: what call p returned

vars == <<now, pc, req, state, tx, last, result>>

Statements == {"find", "begin", "select", "insert", "message", "refind",
               "update", "link", "commit"}
PC == Statements \cup {"idle", "done"}
TxStates == {"none", "open", "aborted", "committed"}

\* at: NOW(); conv: the conversation, new if p inserted it; message: the
\* message was inserted; updated: last_message_at was set; linked: the user
\* is a participant.
Tx == [at : Nat, conv : Call \cup {None}, new : BOOLEAN, message : BOOLEAN,
       updated : BOOLEAN, linked : BOOLEAN]
NoTx == [at |-> 0, conv |-> None, new |-> FALSE, message |-> FALSE,
         updated |-> FALSE, linked |-> FALSE]

\* rejected: an error though no statement failed but by a constraint;
\* failed: a statement, the connection or the context failed.
Result == [kind : {"none", "stored", "deduped", "rejected", "failed"},
           id : Call \cup {None}]
NoResult == [kind |-> "none", id |-> None]

Init ==
    /\ now = 0
    /\ pc = [p \in Call |-> "idle"]
    /\ req = [p \in Call |-> None]
    /\ state = [p \in Call |-> "none"]
    /\ tx = [p \in Call |-> NoTx]
    /\ last = [c \in Call |-> 0]
    /\ result = [p \in Call |-> NoResult]

-----------------------------------------------------------------------------
(* The tables, as committed, and what open transactions keep others from.  *)

Conversations(key) ==
    {c \in Call : state[c] = "committed" /\ tx[c].new /\ req[c].key = key}

Stored == {m \in Call : state[m] = "committed"}

Messages(id) ==
    {m \in Call : state[m] = "committed" /\ tx[m].message /\ req[m].pid = id}

OthersOpen(p) == {q \in Call \ {p} : state[q] = "open"}

\* uq_ui_messages_channel_provider_message; ids that are NULL do not collide.
HasMessage(q, p) == tx[q].message /\ req[p].pid # None /\ req[q].pid = req[p].pid
NoIndex(p) == FALSE        \* mutant: no such index, only the lookup before
MessagePending(p) == \E q \in OthersOpen(p) : HasMessage(q, p)

\* UNIQUE (source_channel, conversation_key)
HasConversation(q, p) == tx[q].new /\ req[q].key = req[p].key
ConversationPending(p) == \E q \in OthersOpen(p) : HasConversation(q, p)

HasRow(q, p) == tx[q].updated /\ tx[q].conv = tx[p].conv
RowLocked(p) == \E q \in OthersOpen(p) : HasRow(q, p)

Return(p, kind, id) ==
    /\ pc' = [pc EXCEPT ![p] = "done"]
    /\ result' = [result EXCEPT ![p] = [kind |-> kind, id |-> id]]

Goto(p, place) == pc' = [pc EXCEPT ![p] = place] /\ UNCHANGED result

EndTx(p, s) == state' = [state EXCEPT ![p] = s]

-----------------------------------------------------------------------------
(* The statements.                                                         *)

\* A caller passes a message; a reply is recorded in a conversation it was
\* told of.
Begin(p, r) ==
    /\ pc[p] = "idle"
    /\ req' = [req EXCEPT ![p] = r]
    /\ \/ /\ r.dir = "inbound"
          /\ UNCHANGED tx
       \/ /\ r.dir = "outbound"
          /\ \E c \in Conversations(r.key) : tx' = [tx EXCEPT ![p].conv = c]
    /\ Goto(p, IF r.pid = None THEN "begin" ELSE "find")
    /\ UNCHANGED <<now, state, last>>

\* findExistingByProviderMessageID, through the pool, outside a transaction.
Find(p) ==
    /\ pc[p] = "find"
    /\ \/ \E m \in Messages(req[p].pid) : Return(p, "deduped", m)
       \/ Messages(req[p].pid) = {} /\ Goto(p, "begin")
    /\ UNCHANGED <<now, req, state, tx, last>>

\* BEGIN: NOW() and created_at of all rows are the time of this statement.
\* RecordOutbound then finds its conversation.
BeginTx(p) ==
    /\ pc[p] = "begin"
    /\ EndTx(p, "open")
    /\ now' = now + 1
    /\ tx' = [tx EXCEPT ![p].at = now + 1]
    /\ Goto(p, IF req[p].dir = "inbound" THEN "select" ELSE "message")
    /\ UNCHANGED <<req, last>>

\* mutant: SELECT ... FOR UPDATE, to keep last_message_at in order.
SelectForUpdate(p) ==
    /\ pc[p] = "select"
    /\ \/ /\ \E c \in Conversations(req[p].key) :
               /\ ~\E q \in OthersOpen(p) : tx[q].updated /\ tx[q].conv = c
               /\ tx' = [tx EXCEPT ![p].conv = c, ![p].updated = TRUE]
          /\ Goto(p, "message")
       \/ /\ Conversations(req[p].key) = {}
          /\ Goto(p, "insert")
          /\ UNCHANGED tx
    /\ UNCHANGED <<now, req, state, last>>

\* getOrCreateConversation: SELECT.
SelectConversation(p) ==
    /\ pc[p] = "select"
    /\ \/ /\ \E c \in Conversations(req[p].key) : tx' = [tx EXCEPT ![p].conv = c]
          /\ Goto(p, "message")
       \/ /\ Conversations(req[p].key) = {}
          /\ Goto(p, "insert")
          /\ UNCHANGED tx
    /\ UNCHANGED <<now, req, state, last>>

\* INSERT INTO conversations.
InsertConversation(p) ==
    /\ pc[p] = "insert"
    /\ ~ConversationPending(p)
    /\ Conversations(req[p].key) = {}
    /\ tx' = [tx EXCEPT ![p].conv = p, ![p].new = TRUE]
    /\ Goto(p, "message")
    /\ UNCHANGED <<now, req, state, last>>

\* It violates the unique key; the SELECT that follows is in the aborted
\* transaction and fails too.
ConversationTaken(p) ==
    /\ pc[p] = "insert"
    /\ ~ConversationPending(p)
    /\ Conversations(req[p].key) # {}
    /\ EndTx(p, "aborted")
    /\ Return(p, "rejected", None)
    /\ UNCHANGED <<now, req, tx, last>>

\* INSERT INTO messages.
InsertMessage(p) ==
    /\ pc[p] = "message"
    /\ ~MessagePending(p)
    /\ req[p].pid # None => Messages(req[p].pid) = {}
    /\ tx' = [tx EXCEPT ![p].message = TRUE]
    /\ Goto(p, "update")
    /\ UNCHANGED <<now, req, state, last>>

\* It violates the unique index: the row is looked up through the pool.
MessageTaken(p) ==
    /\ pc[p] = "message"
    /\ ~MessagePending(p)
    /\ req[p].pid # None /\ Messages(req[p].pid) # {}
    /\ EndTx(p, "aborted")
    /\ Goto(p, "refind")
    /\ UNCHANGED <<now, req, tx, last>>

\* mutant: the id of the row that was refused.
RefindOwn(p) ==
    /\ pc[p] = "refind"
    /\ Return(p, "deduped", p)
    /\ UNCHANGED <<now, req, state, tx, last>>

Refind(p) ==
    /\ pc[p] = "refind"
    /\ \E m \in Messages(req[p].pid) : Return(p, "deduped", m)
    /\ UNCHANGED <<now, req, state, tx, last>>

\* UPDATE conversations SET last_message_at, which locks the row.
UpdateConversation(p) ==
    /\ pc[p] = "update"
    /\ ~RowLocked(p)
    /\ tx' = [tx EXCEPT ![p].updated = TRUE]
    /\ Goto(p, IF req[p].user = None THEN "commit" ELSE "link")
    /\ UNCHANGED <<now, req, state, last>>

\* mutant: only whoever opens a conversation becomes a participant.
LinkOpener(p) ==
    /\ pc[p] = "link"
    /\ tx' = [tx EXCEPT ![p].linked = tx[p].new]
    /\ Goto(p, "commit")
    /\ UNCHANGED <<now, req, state, last>>

\* linkParticipant; the row lock keeps others from inserting the same row.
\* The foreign key to profiles.users refuses other users: the error is
\* dropped, the transaction is aborted.
Link(p) ==
    /\ pc[p] = "link"
    /\ \/ /\ req[p].user \in KnownUsers
          /\ tx' = [tx EXCEPT ![p].linked = TRUE]
          /\ UNCHANGED state
       \/ /\ req[p].user \notin KnownUsers
          /\ EndTx(p, "aborted")
          /\ UNCHANGED tx
    /\ Goto(p, "commit")
    /\ UNCHANGED <<now, req, last>>

\* COMMIT: the conversation keeps the time of whoever commits last.
CommitTx(p) ==
    /\ state[p] = "open"
    /\ EndTx(p, "committed")
    /\ last' = [last EXCEPT ![tx[p].conv] = tx[p].at]

Commit(p) ==
    /\ pc[p] = "commit"
    /\ CommitTx(p)
    /\ Return(p, "stored", p)
    /\ UNCHANGED <<now, req, tx>>

\* mutant: the error of Commit is dropped.
IgnoreCommitError(p) ==
    /\ pc[p] = "commit"
    /\ state[p] = "aborted"
    /\ Return(p, "stored", p)
    /\ UNCHANGED <<now, req, state, tx, last>>

\* COMMIT of an aborted transaction rolls it back, which pgx reports.
CommitRefused(p) ==
    /\ pc[p] = "commit"
    /\ state[p] = "aborted"
    /\ Return(p, "rejected", None)
    /\ UNCHANGED <<now, req, state, tx, last>>

\* mutant: no deferred Rollback.
NoRollback(p) ==
    /\ pc[p] \in Statements
    /\ Return(p, "failed", None)
    /\ UNCHANGED <<now, req, state, tx, last>>

\* The context ends, the connection breaks, the instance crashes: the
\* transaction is rolled back, or its COMMIT took effect already.
Fails(p) ==
    /\ pc[p] \in Statements
    /\ \/ /\ IF state[p] = "open" THEN EndTx(p, "aborted") ELSE UNCHANGED state
          /\ UNCHANGED last
       \/ /\ pc[p] = "commit"
          /\ CommitTx(p)
    /\ Return(p, "failed", None)
    /\ UNCHANGED <<now, req, tx>>

-----------------------------------------------------------------------------

Step(p) ==
    \/ Find(p) \/ BeginTx(p)
    \/ SelectConversation(p) \/ InsertConversation(p) \/ ConversationTaken(p)
    \/ InsertMessage(p) \/ MessageTaken(p) \/ Refind(p)
    \/ UpdateConversation(p) \/ Link(p)
    \/ Commit(p) \/ CommitRefused(p)

Next ==
    \E p \in Call :
        \/ \E r \in Requests : Begin(p, r)
        \/ Step(p)
        \/ Fails(p)

\* Every goroutine runs on, and Postgres executes what does not wait.  No
\* deadline and no failure is needed to end a wait.
Fairness == \A p \in Call : WF_vars(Step(p))

Spec == Init /\ [][Next]_vars
FairSpec == Spec /\ Fairness

-----------------------------------------------------------------------------
(* Properties.                                                             *)

\* Every variable has its type.
TypeOK ==
    /\ now \in Nat
    /\ pc \in [Call -> PC]
    /\ req \in [Call -> Requests \cup {None}]
    /\ state \in [Call -> TxStates]
    /\ tx \in [Call -> Tx]
    /\ last \in [Call -> Nat]
    /\ result \in [Call -> Result]

\* All callers that pass one provider id and get an answer get the same one:
\* however deliveries overlap, one row stands for the message.
AnswersAgree ==
    \A p, q \in Call :
        /\ {result[p].kind, result[q].kind} \subseteq {"stored", "deduped"}
        /\ req[p].pid # None /\ req[p].pid = req[q].pid
        => result[p].id = result[q].id

\* The answer names a committed row, of the provider id and in a committed
\* conversation of the right key.
AnswerStored ==
    \A p \in Call : result[p].kind \in {"stored", "deduped"} =>
        LET m == result[p].id IN
        /\ m \in Stored /\ tx[m].message
        /\ req[m].pid = req[p].pid
        /\ tx[m].conv \in Conversations(req[m].key)

\* Whoever was told that a message was stored finds its user among the
\* participants of its conversation.
UserLinked ==
    \A p \in Call : result[p].kind = "stored" /\ req[p].user # None =>
        \E q \in Call : /\ state[q] = "committed" /\ tx[q].linked
                        /\ tx[q].conv = tx[p].conv /\ req[q].user = req[p].user

\* The statement that p is about to execute waits for the transaction of q.
WaitsFor(p, q) ==
    /\ q \in OthersOpen(p)
    /\ \/ pc[p] = "insert" /\ HasConversation(q, p)
       \/ pc[p] = "message" /\ HasMessage(q, p)
       \/ pc[p] = "update" /\ HasRow(q, p)

\* Postgres never has to break a deadlock: among any calls, one waits for none
\* of the others, whatever keys, ids and rows of each other they wait for.
NoCircularWait ==
    \A S \in SUBSET Call :
        S # {} => \E p \in S : \A q \in S : ~WaitsFor(p, q)

\* Every call returns, without help from a deadline.
EveryReceiveReturns == \A p \in Call : pc[p] # "idle" ~> pc[p] = "done"

\* Why the properties above hold.  Alive transactions may still count.
Alive(p) == state[p] \in {"open", "committed"}

\* One alive transaction per conversation key, and per provider id.
OneInserter ==
    \A p, q \in Call : Alive(p) /\ Alive(q) =>
        /\ tx[p].new /\ tx[q].new /\ req[p].key = req[q].key => p = q
        /\ /\ tx[p].message /\ tx[q].message
           /\ req[p].pid # None /\ req[p].pid = req[q].pid
           => p = q

\* The conversation of an alive transaction is its own, or committed.
ConversationKnown ==
    \A p \in Call : tx[p].conv # None /\ state[p] # "aborted" =>
        \/ tx[p].new /\ tx[p].conv = p
        \/ tx[p].conv \in Conversations(req[p].key)

\* The place of a call and what its transaction did fit each other.
Fits(p) ==
    /\ pc[p] = "idle" <=> req[p] = None
    /\ result[p] = NoResult <=> pc[p] # "done"
    /\ pc[p] \in {"idle", "find", "begin"} <=> state[p] = "none" /\ pc[p] # "done"
    /\ pc[p] \in {"idle", "find", "begin", "select", "insert"}
         => ~tx[p].message /\ ~tx[p].new
    /\ pc[p] \in {"select", "insert", "message", "update", "link"} => state[p] = "open"
    /\ pc[p] = "commit" => state[p] \in {"open", "aborted"}
    /\ pc[p] = "refind" => state[p] = "aborted"
    /\ pc[p] = "idle" => tx[p].conv = None
    /\ pc[p] \in {"find", "begin"} /\ req[p].dir = "outbound" => tx[p].conv # None
    /\ pc[p] \in {"message", "update", "link", "commit"} => tx[p].conv # None
    /\ pc[p] \in {"update", "link", "commit"} => tx[p].message
    /\ pc[p] = "message" => ~tx[p].message
    /\ pc[p] \in {"find", "refind"} => req[p].pid # None
    /\ state[p] = "committed" => pc[p] = "done" /\ tx[p].conv # None /\ tx[p].message
    /\ state[p] = "open" => pc[p] # "done"
    /\ tx[p].new => tx[p].conv = p
    /\ tx[p].updated => pc[p] \in {"link", "commit", "done"}
    /\ state[p] = "committed" \/ (state[p] = "open" /\ pc[p] = "commit")
         => req[p].user = None \/ tx[p].linked
    /\ result[p].kind = "stored" => state[p] = "committed" /\ result[p].id = p

PlacesFit == \A p \in Call : Fits(p)

\* Keys and ids are inserted by one alive transaction at a time, and the
\* answers follow from what it committed.
StoreInv == TypeOK /\ PlacesFit /\ ConversationKnown /\ OneInserter /\ AnswerStored

\* What the store promises, with one step for each message.
Promise == INSTANCE Mailbox
             WITH asked <- req, taken <- Stored, answer <- result,
                  thread <- [p \in Call |-> IF state[p] = "committed"
                                            THEN tx[p].conv ELSE None]
ImplementsMailbox == Promise!MailboxSpec

\* A delivery that overlaps the first one is recognised as a duplicate, as
\* one that follows it is (store_integration_test.go:52).
DuplicateDeduped ==
    \A p \in Call : result[p].kind = "rejected" /\ req[p].pid # None
        => Messages(req[p].pid) = {}
=============================================================================
