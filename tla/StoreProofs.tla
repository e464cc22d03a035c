---------------------------- MODULE StoreProofs ----------------------------
(* Proofs about Store: its inductive invariant, and that it keeps the      *)
(* promise of Mailbox, for any number of calls, keys and provider ids.     *)
EXTENDS Store, TLAPS

USE StoreConstants

\* Action a of call p leaves the other calls alone.
Own(p) ==
    \A q \in Call \ {p} :
        /\ pc'[q] = pc[q] /\ req'[q] = req[q] /\ result'[q] = result[q]
        /\ state'[q] = state[q] /\ tx'[q] = tx[q]

\* What call p may do.
Act(p) == (\E r \in Requests : Begin(p, r)) \/ Step(p) \/ Fails(p)

LEMMA InitInv == Init => StoreInv
  <1> SUFFICES ASSUME Init PROVE StoreInv  OBVIOUS
  <1>1. TypeOK
    BY DEF Init, TypeOK, PC, TxStates, Tx, NoTx, Result, NoResult
  <1>2. PlacesFit
    BY DEF Init, PlacesFit, Fits, NoTx, NoResult
  <1>3. ConversationKnown /\ OneInserter
    BY DEF Init, ConversationKnown, OneInserter, Alive, NoTx
  <1>4. AnswerStored
    BY DEF Init, AnswerStored, NoResult
  <1> QED  BY <1>1, <1>2, <1>3, <1>4 DEF StoreInv

\* A request has the fields of Request.
LEMMA RequestFields ==
    ASSUME TypeOK, NEW p \in Call, req[p] # None
    PROVE  /\ req[p] \in Request
           /\ req[p].dir \in {"inbound", "outbound"} /\ req[p].key \in Key
  BY DEF TypeOK, Request

\* The record of a transaction with a field changed is one.
LEMMA TxUpdate ==
    ASSUME NEW t \in Tx, NEW p \in Call, NEW n \in Nat
    PROVE  /\ \A c \in Call : [t EXCEPT !.conv = c] \in Tx
           /\ [t EXCEPT !.at = n] \in Tx
           /\ [t EXCEPT !.conv = p, !.new = TRUE] \in Tx
           /\ [t EXCEPT !.message = TRUE] \in Tx
           /\ [t EXCEPT !.updated = TRUE] \in Tx
           /\ [t EXCEPT !.linked = TRUE] \in Tx
  BY DEF Tx

LEMMA TypeStep == ASSUME TypeOK, NEW p \in Call, Act(p) PROVE TypeOK'
  <1> USE DEF TypeOK, PC, Statements, TxStates, Return, Goto, EndTx
  <1>a. \A k \in {"stored", "deduped", "rejected", "failed"}, i \in Call \cup {None} :
          [kind |-> k, id |-> i] \in Result
    BY DEF Result
  <1>t. tx[p] \in Tx /\ now + 1 \in Nat  OBVIOUS
  <1>b. /\ \A c \in Call : [tx[p] EXCEPT !.conv = c] \in Tx
        /\ [tx[p] EXCEPT !.at = now + 1] \in Tx
        /\ [tx[p] EXCEPT !.conv = p, !.new = TRUE] \in Tx
        /\ [tx[p] EXCEPT !.message = TRUE] \in Tx
        /\ [tx[p] EXCEPT !.updated = TRUE] \in Tx
        /\ [tx[p] EXCEPT !.linked = TRUE] \in Tx
    BY <1>t, TxUpdate
  <1>c. tx[p].at \in Nat  BY <1>t DEF Tx
  <1>1. ASSUME NEW r \in Requests, Begin(p, r) PROVE TypeOK'
    BY <1>1, <1>b DEF Begin, Conversations
  <1>2. CASE Find(p)  BY <1>2, <1>a DEF Find, Messages
  <1>3. CASE BeginTx(p)  BY <1>3, <1>b DEF BeginTx
  <1>4. CASE SelectConversation(p)
    BY <1>4, <1>b DEF SelectConversation, Conversations
  <1>5. CASE InsertConversation(p)  BY <1>5, <1>b DEF InsertConversation
  <1>6. CASE ConversationTaken(p)  BY <1>6, <1>a DEF ConversationTaken
  <1>7. CASE InsertMessage(p)  BY <1>7, <1>b DEF InsertMessage
  <1>8. CASE MessageTaken(p)  BY <1>8 DEF MessageTaken
  <1>9. CASE Refind(p)  BY <1>9, <1>a DEF Refind, Messages
  <1>10. CASE UpdateConversation(p)  BY <1>10, <1>b DEF UpdateConversation
  <1>11. CASE Link(p)
    <2>1. tx' \in [Call -> Tx]  BY <1>11, <1>b DEF Link
    <2>2. state' \in [Call -> TxStates]  BY <1>11 DEF Link
    <2> QED  BY <1>11, <2>1, <2>2 DEF Link
  <1>12. CASE Commit(p)  BY <1>12, <1>a, <1>c DEF Commit, CommitTx
  <1>13. CASE CommitRefused(p)  BY <1>13, <1>a DEF CommitRefused
  <1>14. CASE Fails(p)  BY <1>14, <1>a, <1>c DEF Fails, CommitTx
  <1> QED
    BY <1>1, <1>2, <1>3, <1>4, <1>5, <1>6, <1>7, <1>8, <1>9, <1>10, <1>11,
       <1>12, <1>13, <1>14 DEF Act, Step

\* The actor leaves the others alone, and is not done.
LEMMA ActorOwn ==
    ASSUME TypeOK, PlacesFit, NEW p \in Call, Act(p)
    PROVE  Own(p) /\ pc[p] # "done" /\ state[p] # "committed"
  <1> USE DEF Own, Return, Goto, EndTx, TypeOK
  <1>0. state[p] = "committed" => pc[p] = "done"  BY DEF PlacesFit, Fits
  <1>1. ASSUME NEW r \in Requests, Begin(p, r) PROVE Own(p) /\ pc[p] # "done"
    BY <1>1 DEF Begin
  <1>2. CASE Find(p)  BY <1>0, <1>2 DEF Find
  <1>3. CASE BeginTx(p)  BY <1>0, <1>3 DEF BeginTx
  <1>4. CASE SelectConversation(p)  BY <1>0, <1>4 DEF SelectConversation
  <1>5. CASE InsertConversation(p)  BY <1>0, <1>5 DEF InsertConversation
  <1>6. CASE ConversationTaken(p)  BY <1>0, <1>6 DEF ConversationTaken
  <1>7. CASE InsertMessage(p)  BY <1>0, <1>7 DEF InsertMessage
  <1>8. CASE MessageTaken(p)  BY <1>0, <1>8 DEF MessageTaken
  <1>9. CASE Refind(p)  BY <1>0, <1>9 DEF Refind
  <1>10. CASE UpdateConversation(p)  BY <1>0, <1>10 DEF UpdateConversation
  <1>11. CASE Link(p)  BY <1>0, <1>11 DEF Link
  <1>12. CASE Commit(p)  BY <1>0, <1>12 DEF Commit, CommitTx
  <1>13. CASE CommitRefused(p)  BY <1>0, <1>13 DEF CommitRefused
  <1>14. CASE Fails(p)  BY <1>0, <1>14 DEF Fails, CommitTx, Statements
  <1> QED
    BY <1>0, <1>1, <1>2, <1>3, <1>4, <1>5, <1>6, <1>7, <1>8, <1>9, <1>10,
       <1>11, <1>12, <1>13, <1>14 DEF Act, Step

\* What is committed stays committed, as it is.
LEMMA CommittedStays ==
    ASSUME TypeOK, PlacesFit, NEW p \in Call, Act(p)
    PROVE  /\ \A m \in Stored : /\ m \in Stored'
                                /\ m # p /\ req'[m] = req[m] /\ tx'[m] = tx[m]
           /\ \A k : Conversations(k) \subseteq Conversations(k)'
           /\ \A id : Messages(id) \subseteq Messages(id)'
  BY ActorOwn DEF Own, Stored, Conversations, Messages

\* Places and transactions still fit after a step.
LEMMA FitsStep ==
    ASSUME TypeOK, PlacesFit, ConversationKnown, NEW p \in Call, Act(p)
    PROVE  PlacesFit'
  <1>1. \A q \in Call \ {p} : Fits(q)'
    BY ActorOwn DEF Own, PlacesFit, Fits
  <1>2. Fits(p)'
    <2> USE DEF TypeOK, Return, Goto, EndTx, NoResult
    <2>0. Fits(p) /\ tx[p] \in Tx /\ result[p] \in Result
      BY DEF PlacesFit
    <2>1. ASSUME NEW r \in Requests, Begin(p, r) PROVE Fits(p)'
      BY <2>0, <2>1 DEF Begin, Conversations, Fits, Tx
    <2>2. CASE Find(p)  BY <2>0, <2>2 DEF Find, Fits, Messages
    <2>3. CASE BeginTx(p)
      BY <2>0, <2>3, RequestFields DEF BeginTx, Fits, Tx
    <2>4. CASE SelectConversation(p)
      BY <2>0, <2>4 DEF SelectConversation, Conversations, Fits, Tx
    <2>5. CASE InsertConversation(p)  BY <2>0, <2>5 DEF InsertConversation, Fits, Tx
    <2>6. CASE ConversationTaken(p)  BY <2>0, <2>6 DEF ConversationTaken, Fits
    <2>7. CASE InsertMessage(p)  BY <2>0, <2>7 DEF InsertMessage, Fits, Tx
    <2>8. CASE MessageTaken(p)  BY <2>0, <2>8 DEF MessageTaken, Fits
    <2>9. CASE Refind(p)  BY <2>0, <2>9 DEF Refind, Fits, Messages
    <2>10. CASE UpdateConversation(p)
      BY <2>0, <2>10 DEF UpdateConversation, Fits, Tx
    <2>11. CASE Link(p)  BY <2>0, <2>11 DEF Link, Fits, Tx
    <2>12. CASE Commit(p)  BY <2>0, <2>12 DEF Commit, CommitTx, Fits
    <2>13. CASE CommitRefused(p)  BY <2>0, <2>13 DEF CommitRefused, Fits
    <2>14. CASE Fails(p)  BY <2>0, <2>14 DEF Fails, CommitTx, Fits, Statements
    <2> QED
      BY <2>1, <2>2, <2>3, <2>4, <2>5, <2>6, <2>7, <2>8, <2>9, <2>10, <2>11,
         <2>12, <2>13, <2>14 DEF Act, Step
  <1> QED  BY <1>1, <1>2 DEF PlacesFit

\* The conversation a call works in stays its own, or committed.
LEMMA KnownStep ==
    ASSUME TypeOK, PlacesFit, ConversationKnown, NEW p \in Call, Act(p)
    PROVE  ConversationKnown'
  <1> DEFINE Known(q) == tx[q].conv # None /\ state[q] # "aborted" =>
                           \/ tx[q].new /\ tx[q].conv = q
                           \/ tx[q].conv \in Conversations(req[q].key)
  <1>1. \A q \in Call \ {p} : Known(q)'
    BY ActorOwn, CommittedStays DEF Own, ConversationKnown
  <1>2. Known(p)'
    <2>0. Known(p) /\ Fits(p) /\ tx[p] \in Tx
      BY DEF ConversationKnown, PlacesFit, TypeOK
    <2>1. ASSUME NEW r \in Requests, Begin(p, r) PROVE Known(p)'
      <3>1. req'[p] = r  BY <2>1 DEF Begin, TypeOK
      <3>2. CASE tx' = tx
        <4>1. tx'[p].conv = None  BY <2>0, <2>1, <3>2 DEF Begin, Fits
        <4> QED  BY <4>1
      <3>3. ASSUME NEW c \in Conversations(r.key), tx' = [tx EXCEPT ![p].conv = c]
            PROVE  Known(p)'
        <4>1. tx'[p].conv = c  BY <3>3, <2>0 DEF TypeOK, Tx
        <4> QED  BY <3>1, <3>3, <4>1, CommittedStays
      <3> QED  BY <2>1, <3>2, <3>3 DEF Begin
    <2>2. CASE SelectConversation(p)
      <3>1. req' = req  BY <2>2 DEF SelectConversation
      <3>2. CASE tx' = tx
        BY <2>0, <2>2, <3>1, <3>2, CommittedStays DEF SelectConversation
      <3>3. ASSUME NEW c \in Conversations(req[p].key), tx' = [tx EXCEPT ![p].conv = c]
            PROVE  Known(p)'
        <4>1. tx'[p].conv = c  BY <3>3, <2>0 DEF TypeOK, Tx
        <4> QED  BY <3>1, <3>3, <4>1, CommittedStays
      <3> QED  BY <2>2, <3>2, <3>3 DEF SelectConversation
    <2>3. CASE InsertConversation(p)
      <3>1. tx'[p].new /\ tx'[p].conv = p
        BY <2>0, <2>3 DEF InsertConversation, TypeOK, Tx
      <3> QED  BY <3>1
    <2>4. ASSUME req' = req, tx'[p].conv = tx[p].conv, tx'[p].new = tx[p].new,
                 state[p] # "aborted" \/ state'[p] = "aborted"
          PROVE  Known(p)'
      BY <2>0, <2>4, CommittedStays
    <2>5. CASE Find(p) \/ BeginTx(p) \/ ConversationTaken(p)
      BY <2>0, <2>4, <2>5
      DEF Find, BeginTx, ConversationTaken, Fits, EndTx, TypeOK, Tx
    <2>6. CASE InsertMessage(p) \/ MessageTaken(p) \/ Refind(p)
      BY <2>0, <2>4, <2>6
      DEF InsertMessage, MessageTaken, Refind, Fits, EndTx, TypeOK, Tx
    <2>7. CASE UpdateConversation(p) \/ Link(p)
      BY <2>0, <2>4, <2>7 DEF UpdateConversation, Link, Fits, EndTx, TypeOK, Tx
    <2>8. CASE Commit(p) \/ CommitRefused(p)
      BY <2>0, <2>4, <2>8 DEF Commit, CommitRefused, CommitTx, EndTx, TypeOK
    <2>9. CASE Fails(p)
      BY <2>0, <2>4, <2>9 DEF Fails, CommitTx, EndTx, TypeOK
    <2> QED
      BY <2>1, <2>2, <2>3, <2>5, <2>6, <2>7, <2>8, <2>9 DEF Act, Step
  <1> QED  BY <1>1, <1>2 DEF ConversationKnown

\* Two calls that insert the same thing.
SameNew(p, q) == tx[p].new /\ tx[q].new /\ req[p].key = req[q].key
SameMessage(p, q) ==
    /\ tx[p].message /\ tx[q].message
    /\ req[p].pid # None /\ req[p].pid = req[q].pid

\* A step of p inserts nothing that another alive transaction inserted: the
\* insertion waits for it, or fails.
LEMMA OneAgainstOthers ==
    ASSUME TypeOK, PlacesFit, OneInserter, NEW p \in Call, Act(p),
           NEW q \in Call \ {p}, Alive(p)', Alive(q)'
    PROVE  ~SameNew(p, q)' /\ ~SameMessage(p, q)'
  <1>0. /\ Fits(p) /\ tx[p] \in Tx
        /\ Alive(q) /\ tx'[q] = tx[q] /\ req'[q] = req[q]
    BY ActorOwn DEF Own, PlacesFit, TypeOK, Alive
  <1>1. Alive(p) => ~SameNew(p, q) /\ ~SameMessage(p, q)
    BY <1>0 DEF OneInserter, SameNew, SameMessage
  <1>2. ASSUME req'[p] = req[p], Alive(p) \/ (~tx[p].new /\ ~tx[p].message),
               tx'[p].new = tx[p].new, tx'[p].message = tx[p].message
        PROVE  ~SameNew(p, q)' /\ ~SameMessage(p, q)'
    BY <1>0, <1>1, <1>2 DEF SameNew, SameMessage
  <1>3. CASE InsertConversation(p)
    <2>1. req'[p] = req[p] /\ tx'[p].message = tx[p].message /\ ~tx[p].message
      BY <1>0, <1>3 DEF InsertConversation, Fits, TypeOK, Tx
    <2>2. ~(tx[q].new /\ req[q].key = req[p].key)
      BY <1>0, <1>3
      DEF InsertConversation, ConversationPending, HasConversation, OthersOpen,
          Conversations, Alive
    <2> QED  BY <1>0, <2>1, <2>2 DEF SameNew, SameMessage
  <1>4. CASE InsertMessage(p)
    <2>1. req'[p] = req[p] /\ tx'[p].new = tx[p].new /\ Alive(p)
      BY <1>0, <1>4 DEF InsertMessage, Fits, TypeOK, Tx, Alive
    <2>2. ~(tx[q].message /\ req[p].pid # None /\ req[p].pid = req[q].pid)
      BY <1>0, <1>4
      DEF InsertMessage, MessagePending, HasMessage, OthersOpen, Messages, Alive
    <2> QED  BY <1>0, <1>1, <2>1, <2>2 DEF SameNew, SameMessage
  <1>5. ASSUME NEW r \in Requests, Begin(p, r) PROVE FALSE
    BY <1>0, <1>5 DEF Begin, Fits, Alive
  <1>6. CASE Find(p) \/ BeginTx(p) \/ SelectConversation(p) \/ ConversationTaken(p)
    BY <1>0, <1>2, <1>6
    DEF Find, BeginTx, SelectConversation, ConversationTaken, Fits, Alive,
        EndTx, TypeOK, Tx
  <1>7. CASE MessageTaken(p) \/ Refind(p) \/ UpdateConversation(p) \/ Link(p)
    BY <1>0, <1>2, <1>7
    DEF MessageTaken, Refind, UpdateConversation, Link, Fits, Alive, EndTx,
        TypeOK, Tx
  <1>8. CASE Commit(p) \/ CommitRefused(p) \/ Fails(p)
    BY <1>0, <1>2, <1>8
    DEF Commit, CommitRefused, Fails, CommitTx, Fits, Alive, EndTx, TypeOK
  <1> QED  BY <1>3, <1>4, <1>5, <1>6, <1>7, <1>8 DEF Act, Step

LEMMA OneStep ==
    ASSUME TypeOK, PlacesFit, OneInserter, NEW p \in Call, Act(p)
    PROVE  OneInserter'
  <1>1. ASSUME NEW q \in Call \ {p}, NEW r \in Call \ {p}, Alive(q)', Alive(r)'
        PROVE  SameNew(q, r)' \/ SameMessage(q, r)' => q = r
    BY <1>1, ActorOwn DEF Own, OneInserter, Alive, SameNew, SameMessage
  <1>2. ASSUME NEW q \in Call \ {p}, Alive(p)', Alive(q)'
        PROVE  /\ ~SameNew(p, q)' /\ ~SameMessage(p, q)'
               /\ ~SameNew(q, p)' /\ ~SameMessage(q, p)'
    BY <1>2, OneAgainstOthers DEF SameNew, SameMessage
  <1> QED  BY <1>1, <1>2 DEF OneInserter, SameNew, SameMessage

\* The conversation of a committed message is committed.
LEMMA CommittedConversation ==
    ASSUME PlacesFit, ConversationKnown, NEW m \in Stored
    PROVE  tx[m].message /\ tx[m].conv \in Conversations(req[m].key)
  BY DEF Stored, PlacesFit, Fits, ConversationKnown, Conversations

LEMMA AnswerStep ==
    ASSUME TypeOK, PlacesFit, ConversationKnown, AnswerStored,
           PlacesFit', ConversationKnown', NEW p \in Call, Act(p)
    PROVE  AnswerStored'
  <1> DEFINE Good(q) == result[q].kind \in {"stored", "deduped"} =>
                          /\ result[q].id \in Stored
                          /\ req[result[q].id].pid = req[q].pid
  <1>1. AnswerStored => \A q \in Call : Good(q)  BY DEF AnswerStored
  <1>2. (\A q \in Call : Good(q)) => AnswerStored
    BY CommittedConversation DEF AnswerStored
  <1>3. (\A q \in Call : Good(q))' => AnswerStored'
    <2>1. \A m \in Stored' : tx'[m].message
                             /\ tx'[m].conv \in Conversations(req[m].key)'
      BY DEF Stored, PlacesFit, Fits, ConversationKnown, Conversations
    <2> QED  BY <2>1 DEF AnswerStored
  <1>4. \A q \in Call \ {p} : Good(q)'
    BY <1>1, ActorOwn, CommittedStays DEF Own
  <1>5. Good(p)'
    <2> USE DEF Return, Goto, EndTx, TypeOK
    <2>0. Fits(p) /\ result[p] \in Result  BY DEF PlacesFit
    <2>1. ASSUME result' = result PROVE Good(p)'
      <3>1. result[p] = NoResult  BY <2>0, ActorOwn DEF Fits
      <3> QED  BY <2>1, <3>1 DEF NoResult
    <2>2. ASSUME NEW m \in Messages(req[p].pid), Return(p, "deduped", m), req' = req
          PROVE  Good(p)'
      <3>1. result'[p].kind = "deduped" /\ result'[p].id = m  BY <2>2
      <3>2. m \in Stored /\ req[m].pid = req[p].pid  BY <2>2 DEF Messages, Stored
      <3> QED  BY <2>2, <3>1, <3>2, CommittedStays
    <2>3. CASE Find(p)  BY <2>1, <2>2, <2>3 DEF Find
    <2>4. CASE Refind(p)  BY <2>2, <2>4 DEF Refind
    <2>5. CASE Commit(p)
      <3>1. result'[p].id = p /\ req' = req  BY <2>5 DEF Commit
      <3>2. p \in Stored'  BY <2>5 DEF Commit, CommitTx, Stored
      <3> QED  BY <3>1, <3>2
    <2>6. CASE ConversationTaken(p) \/ CommitRefused(p) \/ Fails(p)
      <3>1. result'[p].kind \in {"rejected", "failed"}
        BY <2>6 DEF ConversationTaken, CommitRefused, Fails
      <3> QED  BY <3>1
    <2>7. CASE (\E r \in Requests : Begin(p, r)) \/ BeginTx(p) \/ SelectConversation(p)
      BY <2>1, <2>7 DEF Begin, BeginTx, SelectConversation
    <2>8. CASE InsertConversation(p) \/ InsertMessage(p) \/ MessageTaken(p)
      BY <2>1, <2>8 DEF InsertConversation, InsertMessage, MessageTaken
    <2>9. CASE UpdateConversation(p) \/ Link(p)
      BY <2>1, <2>9 DEF UpdateConversation, Link
    <2> QED  BY <2>3, <2>4, <2>5, <2>6, <2>7, <2>8, <2>9 DEF Act, Step
  <1> QED  BY <1>3, <1>4, <1>5

\* Every reachable state of the store satisfies StoreInv: keys and provider
\* ids are inserted by one alive transaction, answers name committed rows.
THEOREM StoreInvariant == Spec => []StoreInv
  <1>1. StoreInv /\ [Next]_vars => StoreInv'
    <2> SUFFICES ASSUME StoreInv, [Next]_vars PROVE StoreInv'  OBVIOUS
    <2> USE DEF StoreInv
    <2>1. CASE UNCHANGED vars
      BY <2>1 DEF vars, TypeOK, PlacesFit, Fits, ConversationKnown, OneInserter,
                  AnswerStored, Alive, Stored, Conversations
    <2>2. ASSUME NEW p \in Call, Act(p) PROVE StoreInv'
      <3>1. TypeOK'  BY <2>2, TypeStep
      <3>2. PlacesFit'  BY <2>2, FitsStep
      <3>3. ConversationKnown'  BY <2>2, KnownStep
      <3>4. OneInserter'  BY <2>2, OneStep
      <3>5. AnswerStored'  BY <2>2, <3>2, <3>3, AnswerStep
      <3> QED  BY <3>1, <3>2, <3>3, <3>4, <3>5
    <2> QED  BY <2>1, <2>2 DEF Next, Act
  <1> QED  BY InitInv, <1>1, PTL DEF Spec

(* Every answer names a committed row of the right provider id, in a       *)
(* committed conversation of the right key (what Receive and RecordOutbound *)
(* return), for any number of overlapping calls.                            *)
THEOREM AnswerStoredHolds == Spec => []AnswerStored
<1>1. StoreInv => AnswerStored
  BY DEF StoreInv
<1> QED
  BY <1>1, StoreInvariant, PTL

\* However many deliveries of one provider id overlap, all that are answered
\* are told of the same row.
THEOREM AnswersAgreeHolds == Spec => []AnswersAgree
  <1>1. StoreInv => AnswersAgree
    <2> SUFFICES ASSUME StoreInv, NEW p \in Call, NEW q \in Call,
                        {result[p].kind, result[q].kind} \subseteq {"stored", "deduped"},
                        req[p].pid # None, req[p].pid = req[q].pid
                 PROVE  result[p].id = result[q].id
      BY DEF AnswersAgree
    <2>1. /\ result[p].id \in Stored /\ tx[result[p].id].message
          /\ result[q].id \in Stored /\ tx[result[q].id].message
          /\ req[result[p].id].pid = req[p].pid
          /\ req[result[q].id].pid = req[q].pid
      BY DEF StoreInv, AnswerStored
    <2> QED  BY <2>1 DEF StoreInv, OneInserter, Alive, Stored
  <1> QED  BY <1>1, StoreInvariant, PTL

\* Whoever was told that a message was stored finds its user among the
\* participants of its conversation: linkParticipant failed for nobody whose
\* transaction was committed.
THEOREM UserLinkedHolds == Spec => []UserLinked
  <1>1. StoreInv => UserLinked
    <2> SUFFICES ASSUME StoreInv, NEW p \in Call, result[p].kind = "stored",
                        req[p].user # None
                 PROVE  state[p] = "committed" /\ tx[p].linked
      BY DEF UserLinked
    <2> QED  BY DEF StoreInv, PlacesFit, Fits
  <1> QED  BY <1>1, StoreInvariant, PTL

\* What a call waits for is held by a call at a later statement.
LEMMA WaitsForward ==
    ASSUME StoreInv, NEW p \in Call, NEW q \in Call, WaitsFor(p, q)
    PROVE  \/ pc[p] = "insert" /\ pc[q] \in {"message", "update", "link", "commit"}
           \/ pc[p] = "message" /\ pc[q] \in {"update", "link", "commit"}
           \/ pc[p] = "update" /\ pc[q] \in {"link", "commit"}
  <1>1. Fits(q) /\ state[q] = "open"
    BY DEF StoreInv, PlacesFit, WaitsFor, OthersOpen
  <1>2. pc[q] \in {"select", "insert", "message", "update", "link", "commit"}
    BY <1>1 DEF Fits, StoreInv, TypeOK, PC, Statements
  <1> QED
    BY <1>1, <1>2 DEF Fits, WaitsFor, HasConversation, HasMessage, HasRow

\* Postgres never has to break a deadlock: transactions take the key of the
\* conversation, the provider id and the row of the conversation in this
\* order, so that among any calls one waits for none of the others.
THEOREM NoCircularWaitHolds == Spec => []NoCircularWait
  <1>1. StoreInv => NoCircularWait
    <2> SUFFICES ASSUME StoreInv, NEW S \in SUBSET Call, S # {},
                        \A p \in S : \E q \in S : WaitsFor(p, q)
                 PROVE  FALSE
      BY DEF NoCircularWait
    <2>1. \A p \in S : pc[p] \in {"insert", "message", "update"}
      BY WaitsForward
    <2>2. \A p \in S : pc[p] # "update"  BY <2>1, WaitsForward
    <2>3. \A p \in S : pc[p] # "message"  BY <2>1, <2>2, WaitsForward
    <2>4. \A p \in S : pc[p] # "insert"  BY <2>1, <2>2, <2>3, WaitsForward
    <2> QED  BY <2>1, <2>2, <2>3, <2>4
  <1> QED  BY <1>1, StoreInvariant, PTL

-----------------------------------------------------------------------------
(* The store implements the mailbox.                                       *)

Thread == [p \in Call |-> IF state[p] = "committed" THEN tx[p].conv ELSE None]

\* A step that commits nothing leaves mailbox and threads alone.
LEMMA NothingTaken ==
    ASSUME StoreInv, NEW p \in Call, Act(p), state'[p] # "committed"
    PROVE  Stored' = Stored /\ Thread' = Thread
  <1>1. \A q \in Call : state'[q] = "committed" <=> state[q] = "committed"
    BY ActorOwn DEF Own, StoreInv
  <1>2. \A q \in Call : state[q] = "committed" => tx'[q].conv = tx[q].conv
    BY ActorOwn DEF Own, StoreInv
  <1> QED  BY <1>1, <1>2 DEF Stored, Thread

LEMMA CommitPuts ==
    ASSUME StoreInv, StoreInv', NEW p \in Call, Act(p),
           pc[p] = "commit", CommitTx(p),
           NEW kind \in {"stored", "failed"},
           Return(p, kind, IF kind = "stored" THEN p ELSE None),
           req' = req, tx' = tx
    PROVE  Promise!Put(p, kind)
  <1>0. Fits(p) /\ Stored' = Stored \cup {p} /\ p \notin Stored
    BY DEF CommitTx, EndTx, Stored, StoreInv, PlacesFit, TypeOK
  <1>1. req[p] # None /\ result[p] = NoResult  BY <1>0 DEF Fits
  <1>2. \A q \in Stored : ~Promise!SameProviderId(p, q)
    BY <1>0 DEF StoreInv, OneInserter, Alive, Stored, Promise!SameProviderId,
                CommitTx, PlacesFit, Fits
  <1>3. \A q \in Stored' : tx[q].conv \in Conversations(req[q].key)'
    BY CommittedConversation DEF StoreInv, Stored, PlacesFit, Fits,
       ConversationKnown, Conversations
  <1>4. \A q \in Stored : req[q].key = req[p].key => Thread[q] = tx[p].conv
    <2> SUFFICES ASSUME NEW q \in Stored, req[q].key = req[p].key
                 PROVE  Thread[q] = tx[p].conv
      OBVIOUS
    <2>1. /\ tx[q].conv \in Conversations(req[p].key)'
          /\ tx[p].conv \in Conversations(req[p].key)'
      BY <1>0, <1>3
    <2>2. tx[q].conv = tx[p].conv
      BY <2>1 DEF Conversations, StoreInv, OneInserter, Alive
    <2> QED  BY <2>2 DEF Thread, Stored
  <1>5. tx[p].conv \in Stored' /\ req[tx[p].conv].key = req[p].key
    BY <1>0, <1>3 DEF Conversations, Stored
  <1>6. Thread' = [Thread EXCEPT ![p] = tx[p].conv]
    BY DEF Thread, CommitTx, EndTx, StoreInv, TypeOK
  <1>7. result' = [result EXCEPT ![p] = [kind |-> kind,
                      id |-> IF kind = "stored" THEN p ELSE None]]
    BY DEF Return
  <1> QED
    BY <1>0, <1>1, <1>2, <1>4, <1>5, <1>6, <1>7
    DEF Promise!Put, Promise!Pending, Promise!NoAnswer, NoResult, Thread

\* Each step of the store is a step of the mailbox, or none.
LEMMA StepRefines ==
    ASSUME StoreInv, StoreInv', NEW p \in Call, Act(p)
    PROVE  [Promise!MailboxNext]_(<<req, Stored, Thread, result>>)
  <1> USE DEF StoreInv
  <1>0. Fits(p)  BY DEF PlacesFit
  <1>1. ASSUME state'[p] # "committed", UNCHANGED <<req, result>>
        PROVE  UNCHANGED <<req, Stored, Thread, result>>
    BY <1>1, NothingTaken
  <1>2. ASSUME state'[p] # "committed", UNCHANGED req,
               NEW m \in Messages(req[p].pid), Return(p, "deduped", m),
               req[p].pid # None, pc[p] # "idle"
        PROVE  Promise!MailboxNext
    <2>1. m \in Stored /\ Promise!SameProviderId(p, m)
      BY <1>2 DEF Messages, Stored, Promise!SameProviderId
    <2>2. req[p] # None /\ result[p] = NoResult  BY <1>0, <1>2, ActorOwn DEF Fits
    <2>3. Promise!Duplicate(p, m)
      BY <1>2, <2>1, <2>2, NothingTaken
      DEF Promise!Duplicate, Promise!Pending, Promise!NoAnswer, NoResult, Return, Thread
    <2> QED  BY <2>1, <2>3 DEF Promise!MailboxNext, Stored
  <1>3. ASSUME state'[p] # "committed", UNCHANGED req, pc[p] # "idle",
               NEW kind \in {"failed", "rejected"}, Return(p, kind, None)
        PROVE  Promise!MailboxNext
    <2>1. req[p] # None /\ result[p] = NoResult  BY <1>0, <1>3, ActorOwn DEF Fits
    <2>2. Promise!Refuse(p, kind)
      BY <1>3, <2>1, NothingTaken
      DEF Promise!Refuse, Promise!Pending, Promise!NoAnswer, NoResult, Return, Thread
    <2> QED  BY <2>2 DEF Promise!MailboxNext
  <1>4. ASSUME NEW r \in Requests, Begin(p, r) PROVE Promise!MailboxNext
    <2>1. state' = state /\ state[p] # "committed" /\ result' = result
      BY <1>4, ActorOwn DEF Begin, Goto
    <2>2. Promise!Ask(p, r)
      BY <1>0, <1>4, <2>1, NothingTaken DEF Begin, Fits, Promise!Ask, Thread
    <2> QED  BY <2>2 DEF Promise!MailboxNext
  <1>5. CASE Find(p)
    <2>1. state' = state /\ state[p] # "committed" /\ req[p].pid # None /\ req' = req
          /\ pc[p] # "idle"
      BY <1>0, <1>5, ActorOwn DEF Find, Fits
    <2> QED  BY <1>1, <1>2, <1>5, <2>1 DEF Find, Goto
  <1>6. CASE Refind(p)
    <2>1. state' = state /\ state[p] # "committed" /\ req[p].pid # None /\ req' = req
          /\ pc[p] # "idle"
      BY <1>0, <1>6, ActorOwn DEF Refind, Fits
    <2> QED  BY <1>2, <1>6, <2>1 DEF Refind
  <1>7. CASE BeginTx(p) \/ SelectConversation(p) \/ InsertConversation(p)
             \/ InsertMessage(p) \/ MessageTaken(p) \/ UpdateConversation(p) \/ Link(p)
    <2>1. UNCHANGED <<req, result>>
      BY <1>7 DEF BeginTx, SelectConversation, InsertConversation, InsertMessage,
                  MessageTaken, UpdateConversation, Link, Goto
    <2>2. state'[p] # "committed"
      BY <1>7, ActorOwn
      DEF BeginTx, SelectConversation, InsertConversation, InsertMessage,
          MessageTaken, UpdateConversation, Link, EndTx, TypeOK
    <2> QED  BY <1>1, <2>1, <2>2
  <1>8. CASE ConversationTaken(p) \/ CommitRefused(p)
    <2>1. state'[p] # "committed" /\ UNCHANGED req /\ pc[p] # "idle"
      BY <1>8, ActorOwn DEF ConversationTaken, CommitRefused, EndTx, TypeOK
    <2>2. Return(p, "rejected", None)  BY <1>8 DEF ConversationTaken, CommitRefused
    <2> QED  BY <1>3, <2>1, <2>2
  <1>9. CASE Commit(p)
    <2>1. Promise!Put(p, "stored")  BY <1>9, CommitPuts DEF Commit
    <2> QED  BY <2>1 DEF Promise!MailboxNext
  <1>10. CASE Fails(p)
    <2>1. Return(p, "failed", None) /\ req' = req /\ tx' = tx /\ pc[p] # "idle"
      BY <1>10 DEF Fails, Statements
    <2>2. CASE pc[p] = "commit" /\ CommitTx(p)
      <3>1. Promise!Put(p, "failed")  BY <2>1, <2>2, CommitPuts
      <3> QED  BY <3>1 DEF Promise!MailboxNext
    <2>3. CASE IF state[p] = "open" THEN EndTx(p, "aborted") ELSE UNCHANGED state
      <3>1. state'[p] # "committed"  BY <2>3, ActorOwn DEF EndTx, TypeOK
      <3> QED  BY <1>3, <2>1, <3>1
    <2> QED  BY <1>10, <2>2, <2>3 DEF Fails
  <1> QED  BY <1>4, <1>5, <1>6, <1>7, <1>8, <1>9, <1>10 DEF Act, Step

\* Receive and RecordOutbound take each message at once or not at all, never
\* two of one provider id, into one thread per key, and answer truthfully.
THEOREM MailboxImplemented == Spec => ImplementsMailbox
  <1>1. Init => Promise!MailboxInit
    BY DEF Init, Promise!MailboxInit, Promise!NoAnswer, NoResult, Stored
  <1>2. StoreInv /\ StoreInv' /\ [Next]_vars
        => [Promise!MailboxNext]_(<<req, Stored, Thread, result>>)
    <2>1. ASSUME UNCHANGED vars PROVE UNCHANGED <<req, Stored, Thread, result>>
      BY <2>1 DEF vars, Stored, Thread
    <2> QED  BY <2>1, StepRefines DEF Next, Act
  <1>3. StoreInv /\ StoreInv' /\ [Next]_vars
        => [Promise!MailboxNext]_(Promise!mailboxVars)
    BY <1>2 DEF Promise!mailboxVars, Thread
  <1> QED
    BY <1>1, <1>3, StoreInvariant, PTL DEF Spec, ImplementsMailbox, Promise!MailboxSpec
=============================================================================
