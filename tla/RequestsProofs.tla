--------------------------- MODULE RequestsProofs ---------------------------
(* Nothing acknowledged is lost, no connection or lock is lost, and who is *)
(* in a jam of the pool was handled together with as many others as it has *)
(* connections: proofs for any number of requests, messages, conversations *)
(* and connections.                                                        *)
EXTENDS Requests, FiniteSetTheorems, TLAPS

USE RequestConstants

\* What request r may do.
Does(r) ==
    \/ \E m \in Msg : Accept(r, m)
    \/ Reject(r) \/ Serve(r) \/ Fails(r) \/ Hangup(r)
    \/ Act(r) \/ AgentFails(r) \/ Timeout(r)

\* What the handler of r may do, and what the call of the agent for it may.
Handles(r) ==
    \/ \E m \in Msg : Accept(r, m)
    \/ Reject(r) \/ Serve(r) \/ Fails(r) \/ Hangup(r)
Calls(r) == Act(r) \/ AgentFails(r) \/ Timeout(r)

LEMMA InitInv == Init => RequestInv
  <1> SUFFICES ASSUME Init PROVE RequestInv  OBVIOUS
  <1>1. TypeOK
    BY DEF Init, TypeOK, Places, Statements, InTx, Answering, AgentPlaces, Locked,
           Replying
  <1>2. PlacesFit /\ AckedStored /\ Met /\ Brought
    BY DEF Init, PlacesFit, AckedStored, Met, Overlapping, Brought, Statements, InTx,
           Answering
  <1>3. PoolFits
    <2>1. Cardinality(busy) + Cardinality(reply) <= conns
      BY FS_EmptySet DEF Init, conns
    <2>2. busy = {r \in Req : Keeps(r)} /\ reply = {r \in Req : agent[r] \in Replying}
      BY DEF Init, Keeps, InTx, Locked, Replying
    <2>3. \A c \in Conv : \A r \in Req :
            lock[c] = r <=> agent[r] \in Locked /\ ConvOfReq(r) = c
      BY DEF Init, Locked, Replying
    <2> QED  BY <2>1, <2>2, <2>3 DEF PoolFits
  <1> QED  BY <1>1, <1>2, <1>3 DEF RequestInv

LEMMA TypeStep ==
    ASSUME RequestInv, NEW r \in Req, Does(r) PROVE TypeOK'
  <1> USE DEF TypeOK, Places, Statements, InTx, Answering, calls, Take, Give, Goto
  <1>i. TypeOK /\ PlacesFit  BY DEF RequestInv
  <1>1. ASSUME NEW m \in Msg, Accept(r, m) PROVE TypeOK'
    BY <1>i, <1>1 DEF Accept, Overlapping
  <1>2. CASE Reject(r)  BY <1>i, <1>2 DEF Reject
  <1>3. CASE Resolve(r) \/ Find(r) \/ Begin(r) \/ Insert(r)
    BY <1>i, <1>3 DEF Resolve, Find, Begin, Insert
  <1>4. CASE Commit(r) \/ Refind(r)
    BY <1>i, <1>4 DEF Commit, Refind, PlacesFit
  <1>5. CASE Ack(r) \/ AckOnly(r)
    BY <1>i, <1>5 DEF Ack, AckOnly, AgentPlaces
  <1>6. CASE Answer(r) \/ Return(r)
    <2>1. CASE Answer(r)  BY <1>i, <2>1 DEF Answer
    <2>2. CASE Return(r)  BY <1>i, <2>2 DEF Return
    <2> QED  BY <1>6, <2>1, <2>2
  <1>7. CASE Fails(r)  BY <1>i, <1>7 DEF Fails, PlacesFit
  <1>8. CASE Hangup(r)  BY <1>i, <1>8 DEF Hangup
  <1> USE DEF AgentPlaces, Locked, Replying, AgentGoto, handler, At
  <1>9. CASE Connect(r) \/ Lock(r)
    BY <1>i, <1>9 DEF Connect, Lock
  <1>10. CASE Start(r)  BY <1>i, <1>10 DEF Start
  <1>11. CASE Work(r) \/ Close(r) \/ Unlock(r)
    BY <1>i, <1>11 DEF Work, Close, Unlock
  <1>12. CASE AgentFails(r)  BY <1>i, <1>12 DEF AgentFails
  <1>13. CASE Timeout(r)  BY <1>i, <1>13 DEF Timeout
  <1>14. CASE BeginReply(r) \/ CommitReply(r) \/ LookupReply(r)
    BY <1>i, <1>14 DEF BeginReply, CommitReply, LookupReply
  <1> QED
    BY <1>1, <1>2, <1>3, <1>4, <1>5, <1>6, <1>7, <1>8, <1>9, <1>10, <1>11,
       <1>12, <1>13, <1>14 DEF Does, Serve, Act

\* A step of r leaves the other requests alone.
LEMMA Alone ==
    ASSUME TypeOK, NEW r \in Req, Does(r), NEW q \in Req \ {r}
    PROVE  /\ place'[q] = place[q] /\ msg'[q] = msg[q] /\ code'[q] = code[q]
           /\ agent'[q] = agent[q] /\ (q \in busy' <=> q \in busy)
           /\ q \in reply' <=> q \in reply
  <1> USE DEF TypeOK, calls, Take, Give, Goto
  <1>1. CASE Handles(r)
    BY <1>1 DEF Handles, Accept, Reject, Serve, Resolve, Find, Begin, Insert, Commit,
                Refind, Ack, AckOnly, Answer, Return, Fails, Hangup
  <1> USE DEF AgentGoto, handler, At
  <1>2. CASE Calls(r)
    BY <1>2 DEF Calls, Act, Connect, Lock, Start, Work, BeginReply,
                CommitReply, LookupReply, Close, Unlock, AgentFails, Timeout
  <1> QED  BY <1>1, <1>2 DEF Does, Handles, Calls

LEMMA StoredGrows ==
    ASSUME NEW r \in Req, Does(r) PROVE stored \subseteq stored'
  BY DEF Does, Accept, Reject, Serve, Resolve, Find, Begin, Insert, Commit, Refind,
         Ack, AckOnly, Answer, Return, Fails, Hangup, Act, Connect, Lock, Start, Work,
         BeginReply, CommitReply, LookupReply, Close, Unlock, AgentFails, Timeout, handler

LEMMA FitStep ==
    ASSUME RequestInv, NEW r \in Req, Does(r)
    PROVE  PlacesFit' /\ AckedStored'
  <1>i. TypeOK /\ PlacesFit /\ AckedStored  BY DEF RequestInv
  <1>a. ASSUME NEW q \in Req \ {r}
        PROVE  /\ place'[q] = place[q] /\ msg'[q] = msg[q] /\ code'[q] = code[q]
               /\ agent'[q] = agent[q]
    BY <1>i, Alone
  <1>s. stored \subseteq stored'  BY StoredGrows
  <1>o. SUFFICES /\ place'[r] \in Statements \cup Answering \/ agent'[r] # "off"
                      => msg'[r] \in Msg
                 /\ agent'[r] # "off" => place'[r] \in {"wait", "return", "done"}
                 /\ place'[r] \in {"refind"} \cup Answering => msg'[r] \in stored'
                 /\ code'[r] = "ok" => place'[r] \in {"wait", "return", "done"}
                 /\ code'[r] = "ok" \/ agent'[r] # "off" => msg'[r] \in stored'
    BY <1>i, <1>a, <1>s DEF PlacesFit, AckedStored
  <1> USE DEF TypeOK, PlacesFit, AckedStored, Places, Statements, InTx, Answering,
              calls, Take, Give, Goto
  <1>1. CASE \E m \in Msg : Accept(r, m)
    BY <1>i, <1>1 DEF Accept
  <1>2. CASE Reject(r)  BY <1>i, <1>2 DEF Reject
  <1>3. CASE Resolve(r) \/ Find(r) \/ Begin(r) \/ Insert(r)
    BY <1>i, <1>3 DEF Resolve, Find, Begin, Insert
  <1>4. CASE Commit(r) \/ Refind(r)  BY <1>i, <1>4 DEF Commit, Refind
  <1>5. CASE Ack(r) \/ AckOnly(r)
    BY <1>i, <1>5 DEF Ack, AckOnly
  <1>6. CASE Answer(r) \/ Return(r)  BY <1>i, <1>6 DEF Answer, Return
  <1>7. CASE Fails(r)  BY <1>i, <1>7 DEF Fails
  <1>8. CASE Hangup(r)  BY <1>i, <1>8 DEF Hangup
  <1> USE DEF AgentGoto, handler, At
  <1>9. CASE Connect(r) \/ Lock(r) \/ Start(r)
    BY <1>i, <1>9 DEF Connect, Lock, Start
  <1>10. CASE Work(r) \/ Close(r) \/ Unlock(r)
    BY <1>i, <1>10 DEF Work, Close, Unlock, Locked, Replying
  <1>11. CASE AgentFails(r)  BY <1>i, <1>11 DEF AgentFails, Replying
  <1>12. CASE Timeout(r)  BY <1>i, <1>12 DEF Timeout
  <1>13. CASE BeginReply(r) \/ CommitReply(r) \/ LookupReply(r)
    BY <1>i, <1>13 DEF BeginReply, CommitReply, LookupReply
  <1> QED
    BY <1>1, <1>2, <1>3, <1>4, <1>5, <1>6, <1>7, <1>8, <1>9, <1>10, <1>11, <1>12,
       <1>13
    DEF Does, Serve, Act

\* What a step changes of who met whom, and that handlers do not go back.
LEMMA MetGrows ==
    ASSUME RequestInv, NEW r \in Req, Does(r)
    PROVE  \/ \E m \in Msg : Accept(r, m)
           \/ /\ met' = met /\ msg' = msg
              /\ place[r] \in {"new", "done"} => place'[r] \in {"new", "done"}
              /\ place[r] \in Answering \cup {"done"}
                   => place'[r] \in Answering \cup {"done"}
  <1>i. TypeOK  BY DEF RequestInv
  <1> USE DEF TypeOK, Places, Statements, InTx, Answering, calls, Take, Give, Goto,
              AgentGoto, handler, At
  <1>1. CASE Reject(r) \/ Serve(r) \/ Fails(r) \/ Hangup(r)
    BY <1>i, <1>1
    DEF Serve, Reject, Resolve, Find, Begin, Insert, Commit, Refind, Ack, AckOnly, Answer,
        Return, Fails, Hangup
  <1>2. CASE Calls(r)
    BY <1>i, <1>2
    DEF Calls, Act, Connect, Lock, Start, Work, BeginReply, CommitReply,
        LookupReply, Close, Unlock, AgentFails, Timeout
  <1> QED  BY <1>1, <1>2 DEF Does, Calls

LEMMA MetStep ==
    ASSUME RequestInv, NEW r \in Req, Does(r)
    PROVE  Met' /\ \A q \in Req : met[q] \subseteq met'[q] \/ q = r
  <1>i. TypeOK /\ Met  BY DEF RequestInv
  <1>a. \A q \in Req \ {r} : place'[q] = place[q]  BY <1>i, Alone
  <1>1. ASSUME NEW m \in Msg, Accept(r, m)
        PROVE  Met' /\ \A q \in Req : met[q] \subseteq met'[q] \/ q = r
    <2>1. /\ r \notin Overlapping
          /\ Overlapping' = Overlapping \cup {r}
          /\ \A q \in Req : met'[q] = IF q = r THEN Overlapping
               ELSE IF q \in Overlapping THEN met[q] \cup {r} ELSE met[q]
      BY <1>i, <1>a, <1>1 DEF Accept, Overlapping, Goto, TypeOK
    <2>2. ASSUME NEW q \in Req
          PROVE  /\ q \notin met'[q]
                 /\ q \in Overlapping' => Overlapping' \ {q} \subseteq met'[q]
      BY <1>i, <2>1 DEF Met
    <2> QED  BY <2>1, <2>2 DEF Met
  <1>2. ASSUME met' = met, Overlapping' \subseteq Overlapping
        PROVE  Met' /\ \A q \in Req : met[q] \subseteq met'[q] \/ q = r
    BY <1>i, <1>2 DEF Met
  <1>3. ASSUME place[r] \in {"new", "done"} => place'[r] \in {"new", "done"}
        PROVE  Overlapping' \subseteq Overlapping
    BY <1>a, <1>3 DEF Overlapping
  <1> QED  BY <1>1, <1>2, <1>3, MetGrows

\* Who meets a message that is stored has met the request that stored it: it
\* was handled when the message was not to be found.
LEMMA BroughtStep ==
    ASSUME RequestInv, NEW r \in Req, Does(r) PROVE Brought'
  <1>i. TypeOK /\ PlacesFit /\ Met /\ Brought  BY DEF RequestInv
  <1>a. \A q \in Req \ {r} : place'[q] = place[q] /\ msg'[q] = msg[q]
    BY <1>i, Alone
  <1>m. \A q \in Req \ {r} : met[q] \subseteq met'[q]  BY MetStep
  <1> SUFFICES ASSUME NEW q \in Req, place'[q] \in {"begin"} \cup InTx,
                      msg'[q] \in stored'
               PROVE  \E w \in met'[q] :
                        msg'[w] = msg'[q] /\ place'[w] \in Answering \cup {"done"}
    BY DEF Brought
  <1> USE DEF TypeOK, Places, Statements, InTx, Answering
  <1>1. CASE q # r /\ msg[q] \in stored
    <2>1. PICK w \in met[q] :
            msg[w] = msg[q] /\ place[w] \in Answering \cup {"done"}
      BY <1>i, <1>a, <1>1 DEF Brought
    <2>2. w \in Req /\ w \in met'[q]  BY <1>i, <1>m, <1>1, <2>1
    <2>3. CASE w # r  BY <1>a, <1>1, <2>1, <2>2, <2>3
    <2>4. CASE w = r
      <3>1. ~\E m \in Msg : Accept(r, m)  BY <2>1, <2>4 DEF Accept
      <3>2. msg' = msg /\ place'[r] \in Answering \cup {"done"}
        BY <2>1, <2>4, <3>1, MetGrows
      <3> QED  BY <2>1, <2>2, <2>4, <3>2
    <2> QED  BY <2>3, <2>4
  <1>2. CASE q # r /\ msg[q] \notin stored
    <2>1. stored' # stored  BY <1>a, <1>2
    <2>2. Commit(r) \/ Fails(r)
      BY <2>1
      DEF Does, Accept, Reject, Serve, Resolve, Find, Begin, Insert, Commit, Refind,
          Ack, AckOnly, Answer, Return, Hangup, Act, Connect, Lock, Start, Work,
          BeginReply, CommitReply, LookupReply, Close, Unlock, AgentFails, Timeout, handler
    <2>3. /\ place[r] = "commit" /\ msg[r] = msg[q]
          /\ place'[r] \in {"ack", "done"} /\ msg' = msg /\ met' = met
      BY <1>i, <1>a, <1>2, <2>1, <2>2 DEF Commit, Fails, Goto
    <2>4. r \in Overlapping /\ q \in Overlapping
      BY <1>a, <1>2, <2>3 DEF Overlapping
    <2>5. r \in met[q]  BY <1>i, <1>2, <2>4 DEF Met
    <2> QED  BY <2>3, <2>5
  <1>3. CASE q = r
    <2>1. /\ stored' = stored /\ met' = met /\ msg' = msg
          /\ place[r] \in {"begin"} \cup InTx \/ msg[r] \notin stored
      <3>1. CASE Handles(r)
        BY <1>i, <1>3, <3>1
        DEF Handles, Serve, Accept, Reject, Resolve, Find, Begin, Insert, Commit,
            Refind, Ack, AckOnly, Answer, Return, Fails, Hangup, Goto, calls
      <3>2. CASE Calls(r)
        BY <1>i, <1>3, <3>2
        DEF Calls, Act, Connect, Lock, Start, Work, BeginReply, CommitReply,
            LookupReply, Close, Unlock, AgentFails, Timeout, handler
      <3> QED  BY <3>1, <3>2 DEF Does, Handles, Calls
    <2>2. PICK w \in met[r] :
            msg[w] = msg[r] /\ place[w] \in Answering \cup {"done"}
      BY <1>i, <1>3, <2>1 DEF Brought
    <2>3. w \in Req \ {r}  BY <1>i, <2>2 DEF Met
    <2> QED  BY <1>a, <1>3, <2>1, <2>2, <2>3
  <1> QED  BY <1>1, <1>2, <1>3

\* A step takes a connection only when one is free.
LEMMA BusyStep ==
    ASSUME RequestInv, NEW r \in Req, Does(r)
    PROVE  Cardinality(busy') + Cardinality(reply') <= conns'
  <1>i. TypeOK /\ PoolFits  BY DEF RequestInv
  <1>f. /\ IsFiniteSet(busy) /\ Cardinality(busy) \in Nat /\ conns \in Nat
        /\ IsFiniteSet(reply) /\ Cardinality(reply) \in Nat
        /\ Cardinality(busy) + Cardinality(reply) <= conns
    BY <1>i, FS_Subset, FS_CardinalityType DEF TypeOK, PoolFits, conns
  <1>c. conns' = conns
    BY DEF Does, Accept, Reject, Serve, Resolve, Find, Begin, Insert, Commit, Refind,
           Ack, AckOnly, Answer, Return, Fails, Hangup, Act, Connect, Lock, Start, Work,
           BeginReply, CommitReply, LookupReply, Close, Unlock, AgentFails, Timeout,
           handler, calls, conns
  <1>1. \/ busy' \in {busy, busy \ {r}} /\ reply' \in {reply, reply \ {r}}
        \/ busy' = busy \cup {r} /\ reply' = reply /\ Free
        \/ busy' = busy /\ reply' = reply \cup {r} /\ Free
    BY DEF Does, Accept, Reject, Serve, Resolve, Find, Begin, Insert, Commit, Refind,
           Ack, AckOnly, Answer, Return, Fails, Hangup, Act, Connect, Lock, Start, Work,
           BeginReply, CommitReply, LookupReply, Close, Unlock, AgentFails, Timeout,
           Take, Give, calls
  <1>2. ASSUME NEW S, IsFiniteSet(S), Cardinality(S) \in Nat
        PROVE  /\ Cardinality(S \ {r}) \in Nat /\ Cardinality(S \ {r}) <= Cardinality(S)
               /\ Cardinality(S \cup {r}) \in Nat
               /\ Cardinality(S \cup {r}) <= Cardinality(S) + 1
    <2>1. Cardinality(S \ {r})
            = IF r \in S THEN Cardinality(S) - 1 ELSE Cardinality(S)
      BY <1>2, FS_RemoveElement
    <2>2. Cardinality(S \cup {r})
            = IF r \in S THEN Cardinality(S) ELSE Cardinality(S) + 1
      BY <1>2, FS_AddElement
    <2>3. IsFiniteSet(S \ {r})  BY <1>2, FS_RemoveElement
    <2>4. Cardinality(S \ {r}) \in Nat  BY <2>3, FS_CardinalityType
    <2> QED  BY <1>2, <2>1, <2>2, <2>4
  <1>3. /\ Cardinality(busy \ {r}) \in Nat
        /\ Cardinality(busy \ {r}) <= Cardinality(busy)
        /\ Cardinality(busy \cup {r}) \in Nat
        /\ Cardinality(busy \cup {r}) <= Cardinality(busy) + 1
        /\ Cardinality(reply \ {r}) \in Nat
        /\ Cardinality(reply \ {r}) <= Cardinality(reply)
        /\ Cardinality(reply \cup {r}) \in Nat
        /\ Cardinality(reply \cup {r}) <= Cardinality(reply) + 1
    BY <1>f, <1>2
  <1>4. CASE busy' \in {busy, busy \ {r}} /\ reply' \in {reply, reply \ {r}}
    <2>1. Cardinality(busy') \in Nat /\ Cardinality(busy') <= Cardinality(busy)
      <3>1. CASE busy' = busy  BY <1>f, <3>1
      <3>2. CASE busy' = busy \ {r}  BY <1>3, <3>2
      <3> QED  BY <1>4, <3>1, <3>2
    <2>2. Cardinality(reply') \in Nat /\ Cardinality(reply') <= Cardinality(reply)
      <3>1. CASE reply' = reply  BY <1>f, <3>1
      <3>2. CASE reply' = reply \ {r}  BY <1>3, <3>2
      <3> QED  BY <1>4, <3>1, <3>2
    <2> QED  BY <1>f, <1>c, <2>1, <2>2
  <1>5. CASE busy' = busy \cup {r} /\ reply' = reply /\ Free
    BY <1>f, <1>c, <1>3, <1>5 DEF Free
  <1>6. CASE busy' = busy /\ reply' = reply \cup {r} /\ Free
    BY <1>f, <1>c, <1>3, <1>6 DEF Free
  <1> QED  BY <1>1, <1>4, <1>5, <1>6

\* Connections and locks are taken and given back with the places that use
\* them.
LEMMA PoolStep ==
    ASSUME RequestInv, NEW r \in Req, Does(r) PROVE PoolFits'
  <1>i. TypeOK /\ PlacesFit /\ PoolFits  BY DEF RequestInv
  <1>a. ASSUME NEW q \in Req \ {r}
        PROVE  /\ Keeps(q)' <=> Keeps(q)
               /\ q \in busy' <=> q \in busy
               /\ q \in reply' <=> q \in reply
               /\ agent'[q] = agent[q] /\ ConvOfReq(q)' = ConvOfReq(q)
    BY <1>i, Alone DEF Keeps, ConvOfReq
  <1> USE DEF TypeOK, PlacesFit, Places, Statements, InTx, Answering, calls, Take, Give,
              Goto, AgentPlaces, Locked, Replying, AgentGoto, handler, At
  <1>r. (r \in busy <=> Keeps(r)) /\ (r \in reply <=> agent[r] \in Replying)
    BY <1>i DEF PoolFits
  <1>k. \A c \in Conv : lock[c] = r <=> agent[r] \in Locked /\ ConvOfReq(r) = c
    BY <1>i DEF PoolFits
  <1>h. ASSUME Handles(r)
        PROVE  /\ r \in busy' <=> Keeps(r)'
               /\ r \in reply' <=> agent'[r] \in Replying
               /\ lock' = lock
               /\ agent'[r] \in Locked <=> agent[r] \in Locked
               /\ agent[r] \in Locked => msg'[r] = msg[r]
    <2>1. CASE \E m \in Msg : Accept(r, m)  BY <1>i, <1>r, <2>1 DEF Accept, Keeps
    <2>2. CASE Reject(r)  BY <1>i, <1>r, <2>2 DEF Reject, Keeps
    <2>3. CASE Resolve(r) \/ Find(r) \/ Begin(r) \/ Insert(r)
      BY <1>i, <1>r, <2>3 DEF Resolve, Find, Begin, Insert, Keeps
    <2>4. CASE Commit(r) \/ Refind(r)
      BY <1>i, <1>r, <2>4 DEF Commit, Refind, Keeps
    <2>5. CASE Ack(r) \/ AckOnly(r)
      BY <1>i, <1>r, <2>5 DEF Ack, AckOnly, Keeps
    <2>6. CASE Answer(r) \/ Return(r)
      BY <1>i, <1>r, <2>6 DEF Answer, Return, Keeps
    <2>7. CASE Fails(r)  BY <1>i, <1>r, <2>7 DEF Fails, Keeps
    <2>8. CASE Hangup(r)  BY <1>i, <1>r, <2>8 DEF Hangup, Keeps
    <2> QED
      BY <1>h, <2>1, <2>2, <2>3, <2>4, <2>5, <2>6, <2>7, <2>8 DEF Handles, Serve
  <1>c. ASSUME Calls(r)
        PROVE  /\ r \in busy' <=> Keeps(r)'
               /\ r \in reply' <=> agent'[r] \in Replying
               /\ msg' = msg
               /\ \/ lock' = lock /\ (agent'[r] \in Locked <=> agent[r] \in Locked)
                  \/ /\ lock[ConvOfReq(r)] = None
                     /\ lock' = [lock EXCEPT ![ConvOfReq(r)] = r]
                     /\ agent[r] \notin Locked /\ agent'[r] \in Locked
                  \/ /\ lock' = [lock EXCEPT ![ConvOfReq(r)] = None]
                     /\ agent[r] \in Locked /\ agent'[r] \notin Locked
    <2>1. CASE Connect(r)  BY <1>i, <1>r, <2>1 DEF Connect, Keeps
    <2>2. CASE Lock(r)  BY <1>i, <1>r, <2>2 DEF Lock, Keeps
    <2>3. CASE Start(r)  BY <1>i, <1>r, <2>3 DEF Start, Keeps
    <2>4. CASE Work(r) \/ Close(r)  BY <1>i, <1>r, <2>4 DEF Work, Close, Keeps
    <2>5. CASE Unlock(r)  BY <1>i, <1>r, <2>5 DEF Unlock, Keeps
    <2>6. CASE AgentFails(r)  BY <1>i, <1>r, <2>6 DEF AgentFails, Keeps
    <2>7. CASE Timeout(r)  BY <1>i, <1>r, <2>7 DEF Timeout, Keeps
    <2>8. CASE BeginReply(r) \/ CommitReply(r) \/ LookupReply(r)
      BY <1>i, <1>r, <2>8 DEF BeginReply, CommitReply, LookupReply, Keeps
    <2> QED  BY <1>c, <2>1, <2>2, <2>3, <2>4, <2>5, <2>6, <2>7, <2>8 DEF Calls, Act
  <1>1. /\ busy' = {q \in Req : Keeps(q)'}
        /\ reply' = {q \in Req : agent'[q] \in Replying}
    <2>1. (r \in busy' <=> Keeps(r)') /\ (r \in reply' <=> agent'[r] \in Replying)
      BY <1>h, <1>c DEF Does, Handles, Calls
    <2>2. busy' \subseteq Req /\ reply' \subseteq Req  BY TypeStep
    <2> QED  BY <1>i, <1>a, <2>1, <2>2 DEF PoolFits
  <1>2. \A c \in Conv : \A q \in Req :
          lock'[c] = q <=> agent'[q] \in Locked /\ ConvOfReq(q)' = c
    <2> SUFFICES ASSUME NEW c \in Conv, NEW q \in Req
                 PROVE lock'[c] = q <=> agent'[q] \in Locked /\ ConvOfReq(q)' = c
      OBVIOUS
    <2>1. lock[c] = q <=> agent[q] \in Locked /\ ConvOfReq(q) = c
      BY <1>i DEF PoolFits
    <2>2. CASE Handles(r)
      <3>1. CASE q = r  BY <1>h, <2>1, <2>2, <3>1 DEF ConvOfReq
      <3>2. CASE q # r  BY <1>h, <1>a, <2>1, <2>2, <3>2
      <3> QED  BY <3>1, <3>2
    <2>3. CASE Calls(r)
      <3>0. ConvOfReq(r)' = ConvOfReq(r)  BY <1>c, <2>3 DEF ConvOfReq
      <3>1. CASE q = r  BY <1>i, <1>c, <2>1, <2>3, <3>0, <3>1
      <3>2. CASE q # r  BY <1>i, <1>c, <1>k, <1>a, <2>1, <2>3, <3>2
      <3> QED  BY <3>1, <3>2
    <2> QED  BY <2>2, <2>3 DEF Does, Handles, Calls
  <1> QED  BY <1>1, <1>2, BusyStep DEF PoolFits

-----------------------------------------------------------------------------

\* Every step keeps the invariant.
LEMMA Inductive == RequestInv /\ [Next]_vars => RequestInv'
  <1> SUFFICES ASSUME RequestInv, [Next]_vars PROVE RequestInv'  OBVIOUS
  <1>1. ASSUME NEW r \in Req, Does(r) PROVE RequestInv'
    BY <1>1, TypeStep, FitStep, MetStep, BroughtStep, PoolStep DEF RequestInv
  <1>2. CASE UNCHANGED vars
    BY <1>2
    DEF vars, RequestInv, TypeOK, PlacesFit, PoolFits, Keeps, ConvOfReq, AckedStored,
        Met, Overlapping, Brought, conns
  <1> QED  BY <1>1, <1>2 DEF Next, Does

\* For any number of requests, messages, conversations and connections: the
\* handlers, the calls of the agent and the pool fit together, and no path
\* loses a connection or a lock (handlers.go, WithConversationLock).
THEOREM RequestInvariant == Spec => []RequestInv
  <1> QED  BY InitInv, Inductive, PTL DEF Spec

\* What was answered with 200 is in the database (twilioInboundHandler).
THEOREM AckedStoredHolds == Spec => []AckedStored
  <1>1. RequestInv => AckedStored  BY DEF RequestInv
  <1> QED  BY <1>1, RequestInvariant, PTL

\* Who is in a jam of the pool, kept by transactions of Receive that want
\* another connection, was handled together with as many others as it has
\* connections: the rest of the jam, and the request that stored its message.
THEOREM JamNeedsMoreHolds == Spec => []JamNeedsMore
  <1>1. ASSUME RequestInv PROVE JamNeedsMore
    <2> SUFFICES ASSUME Cardinality(Refinding) = conns, NEW r \in Refinding
                 PROVE Cardinality(met[r]) >= conns
      BY DEF JamNeedsMore, Jammed
    <2>1. /\ IsFiniteSet(Refinding) /\ conns \in Nat \ {0}
          /\ r \in Req /\ place[r] = "refind"
          /\ met[r] \subseteq Req /\ IsFiniteSet(met[r])
      BY <1>1, FS_Subset DEF RequestInv, TypeOK, Refinding, conns
    <2>2. PICK q \in met[r] : place[q] \in Answering \cup {"done"}
      BY <1>1, <2>1 DEF RequestInv, PlacesFit, Brought, InTx
    <2>3. q \notin Refinding  BY <2>2 DEF Answering, Refinding
    <2>4. Refinding \ {r} \subseteq met[r]
      BY <1>1, <2>1 DEF RequestInv, Met, Overlapping, Refinding
    <2>5. /\ IsFiniteSet(Refinding \ {r})
          /\ Cardinality(Refinding \ {r}) = conns - 1
      BY <2>1, FS_RemoveElement
    <2> DEFINE others == (Refinding \ {r}) \cup {q}
    <2>6. Cardinality(others) = conns
      <3>1. q \notin Refinding \ {r}  BY <2>3
      <3>2. Cardinality((Refinding \ {r}) \cup {q}) = Cardinality(Refinding \ {r}) + 1
        BY <2>5, <3>1, FS_AddElement
      <3> QED  BY <2>1, <2>5, <3>2
    <2>7. others \subseteq met[r]  BY <2>2, <2>4
    <2> HIDE DEF others
    <2>8. Cardinality(others) <= Cardinality(met[r])
      BY <2>1, <2>7, FS_Subset
    <2>9. Cardinality(met[r]) \in Nat  BY <2>1, FS_CardinalityType
    <2> QED  BY <2>1, <2>6, <2>8, <2>9
  <1> QED  BY <1>1, RequestInvariant, PTL
=============================================================================
