------------------------------ MODULE Requests ------------------------------
(***************************************************************************)
(* The HTTP handlers (internal/httpapi/handlers.go), the connections of    *)
(* Postgres they and the agent share (a pgxpool.Pool of the host), and the *)
(* contexts that connect a request with the call of the agent it starts.   *)
(*                                                                         *)
(* A webhook of Twilio is answered once its message is stored and a call   *)
(* of the agent was started in a goroutine; a request of the web waits for *)
(* the call.  Both calls derive their context from that of the request,    *)
(* which ends when the client leaves or the handler returns.               *)
(*                                                                         *)
(* A statement outside a transaction takes a connection and gives it back: *)
(* here it needs a free one and is one step.  A transaction and a call     *)
(* that wants or has the lock of its conversation keep a connection, while *)
(* they wait for another one too; a call that records a reply keeps two.   *)
(*                                                                         *)
(* Abstracted: what Store and AgentRun tell in detail; every message has a *)
(* provider id.                                                            *)
(***************************************************************************)
EXTENDS Naturals, FiniteSets

CONSTANTS
    Req,       \* requests, all of which may overlap
    Msg,       \* messages; two requests for one are a delivery and its retry
    Hook,      \* messages that come by webhook; the others come from the web
    Conv,      \* conversations
    ConvOf,    \* ConvOf[m]: the conversation of m
    Configs,   \* connections of the pool, is there an agent, and a bound: the
               \* requests that come
    Errors,    \* may statements fail?
    Hangups,   \* may clients leave before they are answered?
    Deadlines, \* does the timeout of a call of the agent ever pass?
    None       \* no message, no request

ASSUME RequestConstants ==
    /\ IsFiniteSet(Req)
    /\ Hook \subseteq Msg
    /\ ConvOf \in [Msg -> Conv]
    /\ Configs \subseteq
         [conns : Nat \ {0}, agent : BOOLEAN, requests : SUBSET Req]
    /\ {Errors, Hangups, Deadlines} \subseteq BOOLEAN
    /\ None \notin Msg \cup Req

VARIABLES
    config,
    place,  \* place[r]: where the handler of r is
    msg,    \* msg[r]: the message r carries
    met,    \* history: met[r], the requests that were handled while r was
    code,   \* code[r]: the status r was answered with
    ended,  \* ended[r]: the context of r is done
    stored, \* messages in the database
    run,    \* run[m]: the row of agent_runs for m
    busy,   \* requests that keep a connection, in the handler or in the agent
    reply,  \* those whose call keeps one more, in the transaction of a reply
    lock,   \* lock[c]: the request whose call has the lock of c
    agent,  \* agent[r]: where the call of the agent started for r is
    late    \* late[r]: the timeout of that call has passed

vars ==
    <<config, place, msg, met, code, ended, stored, run, busy, reply, lock,
      agent, late>>

\* Statements of the handler; insert, commit and refind are in a transaction.
InTx == {"insert", "commit", "refind"}
Statements == {"resolve", "find", "begin"} \cup InTx
\* ack: stored; wait: in ProcessSync; return: answered, in the handler still.
Answering == {"ack", "wait", "return"}
Places == Statements \cup Answering \cup {"new", "done"}

\* insert, lookup: in the transaction of RecordOutbound.
Replying == {"insert", "lookup"}
\* Between pg_advisory_lock and pg_advisory_unlock.
Locked == {"start", "work", "close", "unlock"} \cup Replying
\* conn: waits for a connection; lock: waits for the lock, on a connection.
AgentPlaces == Locked \cup {"off", "conn", "lock", "end"}

Init ==
    /\ place = [r \in Req |-> "new"]
    /\ msg = [r \in Req |-> None]
    /\ met = [r \in Req |-> {}]
    /\ code = [r \in Req |-> "none"]
    /\ ended = [r \in Req |-> FALSE]
    /\ stored = {}
    /\ run = [m \in Msg |-> "none"]
    /\ config \in Configs
    /\ busy = {}
    /\ reply = {}
    /\ lock = [c \in Conv |-> None]
    /\ agent = [r \in Req |-> "off"]
    /\ late = [r \in Req |-> FALSE]

\* MaxConns of the pool.
conns == config.conns

\* It has a connection to give.
Free == Cardinality(busy) + Cardinality(reply) < conns

\* What handlers leave alone, but for the start of a call.
calls == <<config, run, reply, lock, agent, late>>

Take(r) == busy' = busy \cup {r}
Give(r) == busy' = busy \ {r}
Goto(r, p) == place' = [place EXCEPT ![r] = p]

-----------------------------------------------------------------------------
(* The handlers.                                                           *)

\* Requests being handled.
Overlapping == {r \in Req : place[r] \notin {"new", "done"}}

\* A well-formed request: a webhook looks its user up, the web has it in the
\* context of the request.
Accept(r, m) ==
    /\ place[r] = "new" /\ r \in config.requests
    /\ msg' = [msg EXCEPT ![r] = m]
    /\ met' = [q \in Req |->
                 IF q = r THEN Overlapping
                 ELSE IF q \in Overlapping THEN met[q] \cup {r} ELSE met[q]]
    /\ Goto(r, IF m \in Hook THEN "resolve" ELSE "find")
    /\ UNCHANGED <<code, ended, stored, busy, calls>>

\* Method, signature, form or user are refused.
Reject(r) ==
    /\ place[r] = "new" /\ r \in config.requests
    /\ Goto(r, "done")
    /\ code' = [code EXCEPT ![r] = "refused"]
    /\ ended' = [ended EXCEPT ![r] = TRUE]
    /\ UNCHANGED <<msg, met, stored, busy, calls>>

Resolve(r) ==
    /\ place[r] = "resolve"
    /\ ~ended[r] /\ Free
    /\ Goto(r, "find")
    /\ UNCHANGED <<msg, met, code, ended, stored, busy, calls>>

\* Receive: the lookup by provider id, through the pool.
Find(r) ==
    /\ place[r] = "find"
    /\ ~ended[r] /\ Free
    /\ Goto(r, IF msg[r] \in stored THEN "ack" ELSE "begin")
    /\ UNCHANGED <<msg, met, code, ended, stored, busy, calls>>

\* mutant: the lookup moves into the transaction, but not to its connection.
BeginThenFind(r) ==
    /\ place[r] = "begin"
    /\ ~ended[r] /\ Free
    /\ Take(r)
    /\ Goto(r, "refind")
    /\ UNCHANGED <<msg, met, code, ended, stored, calls>>

Begin(r) ==
    /\ place[r] = "begin"
    /\ ~ended[r] /\ Free
    /\ Take(r)
    /\ Goto(r, "insert")
    /\ UNCHANGED <<msg, met, code, ended, stored, calls>>

\* The INSERT waits for a transaction that inserted the message as well, and
\* fails if the message is stored.
Insert(r) ==
    /\ place[r] = "insert"
    /\ ~ended[r]
    /\ \A q \in Req : place[q] = "commit" => msg[q] # msg[r]
    /\ Goto(r, IF msg[r] \in stored THEN "refind" ELSE "commit")
    /\ UNCHANGED <<msg, met, code, ended, stored, busy, calls>>

Commit(r) ==
    /\ place[r] = "commit"
    /\ ~ended[r]
    /\ stored' = stored \cup {msg[r]}
    /\ Give(r)
    /\ Goto(r, "ack")
    /\ UNCHANGED <<msg, met, code, ended, calls>>

\* The lookup after the failed INSERT goes through the pool, too, while the
\* transaction keeps its connection.
Refind(r) ==
    /\ place[r] = "refind"
    /\ ~ended[r] /\ Free
    /\ Give(r)
    /\ Goto(r, "ack")
    /\ UNCHANGED <<msg, met, code, ended, stored, calls>>

\* mutant: the error of Receive is logged and forgotten.
AckAnyway(r) ==
    /\ place[r] \in Statements
    /\ Errors \/ ended[r]
    /\ Give(r)
    /\ Goto(r, "ack")
    /\ UNCHANGED <<msg, met, code, ended, stored, calls>>

\* mutant: no deferred Rollback.
KeepTx(r) ==
    /\ place[r] \in Statements
    /\ Errors \/ ended[r]
    /\ Goto(r, "done")
    /\ code' = [code EXCEPT ![r] = "failed"]
    /\ ended' = [ended EXCEPT ![r] = TRUE]
    /\ UNCHANGED <<msg, met, stored, busy, calls>>

\* A statement fails, as it must once the context is done: status 500.  The
\* COMMIT may have taken effect.
Fails(r) ==
    /\ place[r] \in Statements
    /\ Errors \/ ended[r]
    /\ \/ UNCHANGED stored
       \/ place[r] = "commit" /\ stored' = stored \cup {msg[r]}
    /\ Give(r)
    /\ Goto(r, "done")
    /\ code' = [code EXCEPT ![r] = "failed"]
    /\ ended' = [ended EXCEPT ![r] = TRUE]
    /\ UNCHANGED <<msg, met, calls>>

\* The message is stored, now or before: ProcessAsync and status 200, or
\* ProcessSync, which server-sent events precede with status 200.
Ack(r) ==
    /\ place[r] = "ack"
    /\ config.agent
    /\ agent' = [agent EXCEPT ![r] = "conn"]
    /\ \/ /\ msg[r] \in Hook
          /\ code' = [code EXCEPT ![r] = "ok"]
          /\ Goto(r, "return")
       \/ /\ msg[r] \notin Hook
          /\ code' \in {code, [code EXCEPT ![r] = "ok"]}
          /\ Goto(r, "wait")
    /\ UNCHANGED <<config, msg, met, ended, stored, busy, run, reply, lock, late>>

\* There is no agent to call.
AckOnly(r) ==
    /\ place[r] = "ack"
    /\ ~config.agent
    /\ code' = [code EXCEPT ![r] = "ok"]
    /\ Goto(r, "return")
    /\ UNCHANGED <<msg, met, ended, stored, busy, calls>>

\* ProcessSync returned: whatever became of it, the status is 200.
Answer(r) ==
    /\ place[r] = "wait"
    /\ agent[r] = "end"
    /\ code' = [code EXCEPT ![r] = "ok"]
    /\ Goto(r, "return")
    /\ UNCHANGED <<msg, met, ended, stored, busy, calls>>

\* ServeHTTP returns: the server cancels the context of the request.
Return(r) ==
    /\ place[r] = "return"
    /\ Goto(r, "done")
    /\ ended' = [ended EXCEPT ![r] = TRUE]
    /\ UNCHANGED <<msg, met, code, stored, busy, calls>>

\* The client leaves: so does the context.
Hangup(r) ==
    /\ Hangups
    /\ place[r] \notin {"new", "done"}
    /\ ~ended[r]
    /\ ended' = [ended EXCEPT ![r] = TRUE]
    /\ UNCHANGED <<place, msg, met, code, stored, busy, calls>>

-----------------------------------------------------------------------------
(* The call of the agent.                                                  *)

CtxDone(r) == ended[r] \/ late[r]
At(r, p) == agent[r] = p /\ ~CtxDone(r)
AgentGoto(r, p) == agent' = [agent EXCEPT ![r] = p]
ConvOfReq(r) == ConvOf[msg[r]]
handler == <<config, place, msg, met, code, ended, stored>>

\* WithConversationLock: a connection, then the lock.
Connect(r) ==
    /\ At(r, "conn") /\ Free
    /\ Take(r)
    /\ AgentGoto(r, "lock")
    /\ UNCHANGED <<handler, run, reply, lock, late>>

Lock(r) ==
    /\ At(r, "lock")
    /\ lock[ConvOfReq(r)] = None
    /\ lock' = [lock EXCEPT ![ConvOfReq(r)] = r]
    /\ AgentGoto(r, "start")
    /\ UNCHANGED <<handler, run, busy, reply, late>>

\* StartAgentRun: a run is started once for a message.
Start(r) ==
    /\ At(r, "start") /\ Free
    /\ \/ /\ run[msg[r]] = "none"
          /\ run' = [run EXCEPT ![msg[r]] = "running"]
          /\ AgentGoto(r, "work")
       \/ /\ run[msg[r]] # "none"
          /\ AgentGoto(r, "unlock")
          /\ UNCHANGED run
    /\ UNCHANGED <<handler, busy, reply, lock, late>>

\* The statements of the run and of its tools, through the pool, but for the
\* recording of a reply.
Work(r) ==
    /\ At(r, "work") /\ Free
    /\ AgentGoto(r, "close")
    /\ UNCHANGED <<handler, busy, reply, run, lock, late>>

\* RecordOutbound, once for every reply: a transaction.
BeginReply(r) ==
    /\ At(r, "work") /\ Free
    /\ reply' = reply \cup {r}
    /\ AgentGoto(r, "insert")
    /\ UNCHANGED <<handler, busy, run, lock, late>>

\* The INSERT and the COMMIT; or the row is there, under the id that Twilio
\* gave, and is looked up through the pool, as in Receive.
CommitReply(r) ==
    /\ At(r, "insert")
    /\ \/ reply' = reply \ {r} /\ AgentGoto(r, "work")
       \/ msg[r] \in Hook /\ AgentGoto(r, "lookup") /\ UNCHANGED reply
    /\ UNCHANGED <<handler, busy, run, lock, late>>

LookupReply(r) ==
    /\ At(r, "lookup") /\ Free
    /\ reply' = reply \ {r}
    /\ AgentGoto(r, "work")
    /\ UNCHANGED <<handler, busy, run, lock, late>>

\* CompleteAgentRun.
Close(r) ==
    /\ At(r, "close") /\ Free
    /\ run' = [run EXCEPT ![msg[r]] = "closed"]
    /\ AgentGoto(r, "unlock")
    /\ UNCHANGED <<handler, busy, reply, lock, late>>

\* mutant: the unlock is a statement of the pool.
UnlockByPool(r) ==
    /\ agent[r] = "unlock" /\ Free
    /\ lock' = [lock EXCEPT ![ConvOfReq(r)] = None]
    /\ Give(r)
    /\ AgentGoto(r, "end")
    /\ UNCHANGED <<handler, run, reply, late>>

\* On the connection of the lock, under context.Background().
Unlock(r) ==
    /\ agent[r] = "unlock"
    /\ lock' = [lock EXCEPT ![ConvOfReq(r)] = None]
    /\ Give(r)
    /\ AgentGoto(r, "end")
    /\ UNCHANGED <<handler, run, reply, late>>

\* A wait or a statement of the call fails, as it must once its context is
\* done; the INSERT of the run may have taken effect.
AgentFails(r) ==
    /\ agent[r] \in {"conn", "lock", "start", "work", "close"} \cup Replying
    /\ Errors \/ CtxDone(r)
    /\ \/ /\ agent[r] \in {"conn", "lock"}
          /\ AgentGoto(r, "end")
          /\ Give(r)
          /\ UNCHANGED <<run, reply>>
       \/ /\ agent[r] \in {"start", "close"}
          /\ AgentGoto(r, "unlock")
          /\ \/ UNCHANGED run
             \/ /\ agent[r] = "start" /\ run[msg[r]] = "none"
                /\ run' = [run EXCEPT ![msg[r]] = "running"]
          /\ UNCHANGED <<busy, reply>>
       \/ /\ agent[r] \in {"work"} \cup Replying
          /\ AgentGoto(r, "close")
          /\ reply' = reply \ {r}
          /\ UNCHANGED <<run, busy>>
    /\ UNCHANGED <<handler, lock, late>>

\* Config.Timeout of the agent, 45 s by default and never absent.
Timeout(r) ==
    /\ Deadlines
    /\ agent[r] \notin {"off", "end"}
    /\ ~late[r]
    /\ late' = [late EXCEPT ![r] = TRUE]
    /\ UNCHANGED <<handler, run, busy, reply, lock, agent>>

-----------------------------------------------------------------------------

\* What a handler does of its own accord.
Serve(r) ==
    \/ Resolve(r) \/ Find(r) \/ Begin(r) \/ Insert(r) \/ Commit(r) \/ Refind(r)
    \/ Ack(r) \/ AckOnly(r) \/ Answer(r) \/ Return(r)

\* What a call of the agent does of its own accord.
Act(r) ==
    \/ Connect(r) \/ Lock(r) \/ Start(r) \/ Work(r) \/ Close(r) \/ Unlock(r)
    \/ BeginReply(r) \/ CommitReply(r) \/ LookupReply(r)

Next ==
    \E r \in Req :
        \/ \E m \in Msg : Accept(r, m)
        \/ Reject(r) \/ Serve(r) \/ Fails(r) \/ Hangup(r)
        \/ Act(r) \/ AgentFails(r) \/ Timeout(r)

\* The goroutines run, Postgres answers, a done context ends every wait and
\* the timer of a call fires.  That a connection is free again and again is
\* not assumed.
Fairness ==
    \A r \in Req :
        /\ WF_vars(Serve(r) \/ (ended[r] /\ Fails(r)))
        /\ WF_vars(Act(r) \/ (CtxDone(r) /\ AgentFails(r)))
        /\ WF_vars(Timeout(r))

Spec == Init /\ [][Next]_vars
FairSpec == Spec /\ Fairness

-----------------------------------------------------------------------------
(* Properties.                                                             *)

\* Every variable has its type.
TypeOK ==
    /\ place \in [Req -> Places]
    /\ msg \in [Req -> Msg \cup {None}]
    /\ met \in [Req -> SUBSET Req]
    /\ code \in [Req -> {"none", "refused", "failed", "ok"}]
    /\ ended \in [Req -> BOOLEAN]
    /\ stored \subseteq Msg
    /\ run \in [Msg -> {"none", "running", "closed"}]
    /\ config \in Configs
    /\ busy \subseteq Req /\ reply \subseteq Req
    /\ lock \in [Conv -> Req \cup {None}]
    /\ agent \in [Req -> AgentPlaces]
    /\ late \in [Req -> BOOLEAN]

\* The request needs the connection it keeps.
Keeps(r) == place[r] \in InTx \/ agent[r] \in Locked \cup {"lock"}

\* No path, of success or failure, in the handler or in the agent, loses a
\* connection or keeps a lock: those taken are the ones in use, and never
\* more than the pool has.
PoolFits ==
    /\ busy = {r \in Req : Keeps(r)}
    /\ reply = {r \in Req : agent[r] \in Replying}
    /\ Cardinality(busy) + Cardinality(reply) <= conns
    /\ \A c \in Conv : \A r \in Req :
         lock[c] = r <=> agent[r] \in Locked /\ ConvOfReq(r) = c

\* Whoever was told 200 has their message in the database, and the agent is
\* only asked about such messages: what was acknowledged is never lost,
\* however deliveries, failures and departures overlap.
AckedStored ==
    \A r \in Req : code[r] = "ok" \/ agent[r] # "off" => msg[r] \in stored

\* All connections are kept by transactions that want another one.  Nothing
\* in the program ends this: handlers have no deadline.
Refinding == {r \in Req : place[r] = "refind"}
Jammed == Cardinality(Refinding) = conns

\* It takes that many overlapping requests: whoever is in a jam was handled
\* together with as many others as the pool has connections, those in the jam
\* and the one that stored its message.
JamNeedsMore ==
    Jammed => \A r \in Refinding : Cardinality(met[r]) >= conns

\* Every accepted request is answered, though calls of the agent may have
\* taken all connections while they need more, unless the pool is jammed.
RequestsAnswered ==
    \A r \in Req : place[r] # "new" ~> place[r] = "done" \/ Jammed

\* Every call of the agent ends, even while the pool is jammed.
AgentCallsEnd == \A r \in Req : agent[r] = "conn" ~> agent[r] = "end"

\* Why the properties above hold: handler and agent fit together, and who
\* goes to insert a message that is stored has met the request that stored it.
PlacesFit ==
    \A r \in Req :
        /\ place[r] \in Statements \cup Answering \/ agent[r] # "off"
             => msg[r] \in Msg
        /\ agent[r] # "off" => place[r] \in {"wait", "return", "done"}
        /\ place[r] \in {"refind"} \cup Answering => msg[r] \in stored
        /\ code[r] = "ok" => place[r] \in {"wait", "return", "done"}

\* Who is handled has met the others that are.
Met ==
    \A r \in Req :
        r \notin met[r] /\ (r \in Overlapping => Overlapping \ {r} \subseteq met[r])

Brought ==
    \A r \in Req : place[r] \in {"begin"} \cup InTx /\ msg[r] \in stored =>
        \E q \in met[r] : msg[q] = msg[r] /\ place[q] \in Answering \cup {"done"}

RequestInv ==
    TypeOK /\ PlacesFit /\ PoolFits /\ AckedStored /\ Met /\ Brought

\* What a test of the program says, and it does not do.

\* A webhook that is answered with 200 has its reply produced: a run of the
\* agent, if there is one, is started for the message (handlers_test.go, "expected one async
\* agent call").
AckedAnswered ==
    \A r \in Req : config.agent /\ code[r] = "ok" /\ msg[r] \in Hook
        ~> msg[r] \in Msg /\ run[msg[r]] # "none"
=============================================================================
