------------------------------ MODULE AgentRun ------------------------------
(***************************************************************************)
(* The reply agent: internal/agent/service.go (ProcessSync and what it     *)
(* calls) with the tables it works on (internal/db).                       *)
(*                                                                         *)
(* Every webhook, web request or Discord event that stored an inbound      *)
(* message, or found it already stored, starts one call of ProcessSync for *)
(* it.  Calls run concurrently, in one instance of the program or in       *)
(* several; what they share is Postgres and, for Discord, a send queue.    *)
(* A step of a call is one statement, one request to a provider or to the  *)
(* language model, and each of them may fail, may take effect although its *)
(* caller is told it failed, and must fail once the context is done.       *)
(*                                                                         *)
(* Abstracted: bodies, traces and identities.  The tables user_memory and  *)
(* agent_issues are write-only for the agent: the tools that write them    *)
(* are the tool "store" here, whose success or failure is all that matters *)
(* to the run.                                                             *)
(***************************************************************************)
EXTENDS Integers, Sequences, FiniteSets

CONSTANTS
    Conv,        \* conversations
    Msg,         \* inbound messages
    Call,        \* executions of ProcessSync
    ConvOf,      \* ConvOf[m]: the conversation message m belongs to
    Kinds,       \* the source channels conversations may have
    Pings,       \* messages whose body is "ping"
    System,      \* messages eligibleInbound refuses for their body or sender
    MaxSteps,    \* Config.MaxSteps: language-model calls per run
    MaxTools,    \* bound: function calls in one response of the model
    QueueCap,    \* capacity of the Discord send queue
    SessionLoss, \* can Postgres lose the session that holds a lock?
    None         \* no call, no message

Channels == {"web", "twilio_sms", "twilio_email", "discord"}

\* send, a tool that only writes a table, and a call executeTool refuses
\* (unknown name, arguments that do not parse, empty body).
Tools == {"send", "store", "invalid"}

ToolLists == UNION {[1..n -> Tools] : n \in 0..MaxTools}

ASSUME ConstantsOK ==
    /\ ConvOf \in [Msg -> Conv]
    /\ Kinds \subseteq Channels
    /\ Pings \subseteq Msg
    /\ System \subseteq Msg
    /\ MaxSteps \in Nat \ {0}
    /\ MaxTools \in Nat
    /\ QueueCap \in Nat \ {0}
    /\ SessionLoss \in BOOLEAN
    /\ None \notin Call \cup Msg

VARIABLES
    channel, \* channel[c]: source_channel of conversation c, never updated
    rows,    \* committed rows of the messages table
    stamp,   \* stamp[m]: created_at of m once its transaction began, else 0
    now,     \* the clock of the database
    run,     \* run[m]: status of the row of agent_runs for m, or "none"
    owner,   \* owner[m]: the call told that it started the run of m, or None
    lock,    \* lock[c]: the call whose session holds the advisory lock of c
    pc,      \* pc[p]: where call p is
    req,     \* req[p]: the message call p was started for
    ctxDone, \* ctxDone[p]: deadline passed or parent context cancelled
    loc,     \* loc[p]: local variables of call p
    sends,   \* sends[p]: replies of p the channel accepted
    queue    \* Discord send queue

tables == <<channel, rows, stamp, now>>
vars == <<channel, rows, stamp, now, run, owner, lock, pc, req, ctxDone, loc,
          sends, queue>>

Closed == {"completed", "failed", "skipped"}
RunStatus == {"none", "running"} \cup Closed
Row == [at : Nat, dir : {"inbound", "outbound"}, msg : Msg]

\* step: calls of the model so far; todo: function calls of the last response
\* still to execute; text: OutputText is not empty; replied: replySent;
\* sending: who called toolSend last; fin: the status passed to completeRun.
Locals == [step : Nat, todo : Seq(Tools), text : BOOLEAN, replied : BOOLEAN,
           sending : {"nobody", "pong", "tool", "auto"},
           fin : Closed \cup {"none"}]
NoLocals == [step |-> 0, todo |-> <<>>, text |-> FALSE, replied |-> FALSE,
             sending |-> "nobody", fin |-> "none"]

\* Places between StartAgentRun and CompleteAgentRun.
Working == {"list", "model", "tools", "send", "record", "finish"}
\* Places inside the callback of WithConversationLock.
Locked == Working \cup {"start", "unlock"}
PC == Locked \cup {"idle", "lock", "done", "dead"}

InboundRow(m) == [at |-> stamp[m], dir |-> "inbound", msg |-> m]
OutboundRow(m) == [at |-> now + 1, dir |-> "outbound", msg |-> m]
ConvOfCall(p) == ConvOf[req[p]]
ChannelOfCall(p) == channel[ConvOf[req[p]]]

Init ==
    /\ channel \in [Conv -> Kinds]
    /\ rows = {}
    /\ stamp = [m \in Msg |-> 0]
    /\ now = 0
    /\ run = [m \in Msg |-> "none"]
    /\ owner = [m \in Msg |-> None]
    /\ lock = [c \in Conv |-> None]
    /\ pc = [p \in Call |-> "idle"]
    /\ req = [p \in Call |-> None]
    /\ ctxDone = [p \in Call |-> FALSE]
    /\ loc = [p \in Call |-> NoLocals]
    /\ sends = [p \in Call |-> 0]
    /\ queue = <<>>

-----------------------------------------------------------------------------
(* The environment: arrivals, deadlines, crashes, lost sessions.           *)

\* Store.Receive begins its transaction: created_at defaults to NOW(), the
\* time at which the transaction began.
Arrive(m) ==
    /\ stamp[m] = 0
    /\ now' = now + 1
    /\ stamp' = [stamp EXCEPT ![m] = now + 1]
    /\ UNCHANGED <<channel, rows, run, owner, lock, pc, req, ctxDone, loc, sends, queue>>

\* Store.Receive commits: other sessions see the message from now on.
Commit(m) ==
    /\ stamp[m] # 0
    /\ InboundRow(m) \notin rows
    /\ rows' = rows \cup {InboundRow(m)}
    /\ UNCHANGED <<channel, stamp, now, run, owner, lock, pc, req, ctxDone, loc, sends, queue>>

\* A handler starts ProcessSync or ProcessAsync for a stored message; a
\* webhook delivered again, or a client that retries, does so again.
Begin(p, m) ==
    /\ pc[p] = "idle"
    /\ InboundRow(m) \in rows
    /\ pc' = [pc EXCEPT ![p] = "lock"]
    /\ req' = [req EXCEPT ![p] = m]
    /\ UNCHANGED <<tables, run, owner, lock, ctxDone, loc, sends, queue>>

\* The timeout of the call passes, or the request it derives from ends.
ContextDone(p) ==
    /\ pc[p] \in Locked \cup {"lock"}
    /\ ~ctxDone[p]
    /\ ctxDone' = [ctxDone EXCEPT ![p] = TRUE]
    /\ UNCHANGED <<tables, run, owner, lock, pc, req, loc, sends, queue>>

ReleaseLock(p) ==
    lock' = [c \in Conv |-> IF lock[c] = p THEN None ELSE lock[c]]

\* The instance the call runs in crashes; its sessions end.
Die(p) ==
    /\ pc[p] \in Locked \cup {"lock"}
    /\ pc' = [pc EXCEPT ![p] = "dead"]
    /\ ReleaseLock(p)
    /\ UNCHANGED <<tables, run, owner, req, ctxDone, loc, sends, queue>>

\* Postgres drops the session that holds the lock; the call does not notice,
\* its statements use other connections of the pool.
LoseSession(p) ==
    /\ SessionLoss
    /\ pc[p] \in Locked
    /\ lock[ConvOfCall(p)] = p
    /\ ReleaseLock(p)
    /\ UNCHANGED <<tables, run, owner, pc, req, ctxDone, loc, sends, queue>>

-----------------------------------------------------------------------------
(* WithConversationLock and the agent_runs table.                          *)

AnyLockFree(c) == TRUE          \* mutant: no mutual exclusion
LockFree(c) == lock[c] = None

AcquireLock(p) ==
    /\ pc[p] = "lock"
    /\ ~ctxDone[p]
    /\ LockFree(ConvOfCall(p))
    /\ lock' = [lock EXCEPT ![ConvOfCall(p)] = p]
    /\ pc' = [pc EXCEPT ![p] = "start"]
    /\ UNCHANGED <<tables, run, owner, req, ctxDone, loc, sends, queue>>

\* No connection, or an error instead of the lock; waiting for either ends with
\* the context.
LockFails(p) ==
    /\ pc[p] = "lock"
    /\ pc' = [pc EXCEPT ![p] = "done"]
    /\ UNCHANGED <<tables, run, owner, lock, req, ctxDone, loc, sends, queue>>

NotRunning(m) == run[m] # "running"    \* mutant: a closed run is started again
\* INSERT ... ON CONFLICT (inbound_message_id) DO NOTHING inserts a row.
NotStarted(m) == run[m] = "none"

StartRun(p) ==
    /\ pc[p] = "start"
    /\ ~ctxDone[p]
    /\ NotStarted(req[p])
    /\ run' = [run EXCEPT ![req[p]] = "running"]
    /\ owner' = [owner EXCEPT ![req[p]] = p]
    /\ pc' = [pc EXCEPT ![p] = "list"]
    /\ UNCHANGED <<tables, lock, req, ctxDone, loc, sends, queue>>

\* mutant: AlreadyStarted is ignored.
GoOnAnyway(p) ==
    /\ pc[p] = "start"
    /\ ~ctxDone[p]
    /\ ~NotStarted(req[p])
    /\ pc' = [pc EXCEPT ![p] = "list"]
    /\ UNCHANGED <<tables, run, owner, lock, req, ctxDone, loc, sends, queue>>

\* AlreadyStarted: the result says Deduped and nothing is done.
AlreadyStarted(p) ==
    /\ pc[p] = "start"
    /\ ~ctxDone[p]
    /\ ~NotStarted(req[p])
    /\ pc' = [pc EXCEPT ![p] = "unlock"]
    /\ UNCHANGED <<tables, run, owner, lock, req, ctxDone, loc, sends, queue>>

\* mutant: the early return skips the unlock.
LeakLock(p) ==
    /\ pc[p] = "start"
    /\ pc' = [pc EXCEPT ![p] = "done"]
    /\ UNCHANGED <<tables, run, owner, lock, req, ctxDone, loc, sends, queue>>

\* StartAgentRun returns an error; the row may have been inserted all the
\* same when the context ended while the answer was under way.
StartRunFails(p) ==
    /\ pc[p] = "start"
    /\ \/ UNCHANGED run
       \/ /\ NotStarted(req[p])
          /\ run' = [run EXCEPT ![req[p]] = "running"]
    /\ pc' = [pc EXCEPT ![p] = "unlock"]
    /\ UNCHANGED <<tables, owner, lock, req, ctxDone, loc, sends, queue>>

\* completeRun(status, ...) is called next.
CloseAs(p, l, status) ==
    /\ pc' = [pc EXCEPT ![p] = "finish"]
    /\ loc' = [loc EXCEPT ![p] = [l EXCEPT !.fin = status]]

\* CompleteAgentRun uses the context of the call: its failure is logged and
\* the row stays as it is.
Finish(p) ==
    /\ pc[p] = "finish"
    /\ \/ /\ ~ctxDone[p]
          /\ run' = [run EXCEPT ![req[p]] = loc[p].fin]
       \/ UNCHANGED run
    /\ pc' = [pc EXCEPT ![p] = "unlock"]
    /\ UNCHANGED <<tables, owner, lock, req, ctxDone, loc, sends, queue>>

\* The deferred unlock runs under context.Background().
Unlock(p) ==
    /\ pc[p] = "unlock"
    /\ pc' = [pc EXCEPT ![p] = "done"]
    /\ ReleaseLock(p)
    /\ UNCHANGED <<tables, run, owner, req, ctxDone, loc, sends, queue>>

-----------------------------------------------------------------------------
(* Handing a reply to the channel: toolSend, called for a ping, for the    *)
(* tool "send" and for the text of the last response.                      *)

\* The condition of the loop over steps.
MoreSteps(l) == l.step < MaxSteps

Proceed(p, l, place) ==
    /\ pc' = [pc EXCEPT ![p] = place]
    /\ loc' = [loc EXCEPT ![p] = l]

\* The first function call of the response is done.
NextTool(p, l) ==
    LET rest == [l EXCEPT !.todo = Tail(@), !.sending = "nobody"] IN
    \/ /\ rest.todo # <<>>
       /\ Proceed(p, rest, "tools")
    \/ /\ rest.todo = <<>>
       /\ MoreSteps(rest)
       /\ Proceed(p, rest, "model")
    \/ /\ rest.todo = <<>>
       /\ ~MoreSteps(rest)
       /\ CloseAs(p, rest, "failed")

\* toolSend is entered; on the web it only records the message.
BeginSend(p, l, who) ==
    Proceed(p, [l EXCEPT !.sending = who],
            IF ChannelOfCall(p) = "web" THEN "record" ELSE "send")

\* toolSend returns "sent", "queued" or "stored".
SendOk(p, l) ==
    LET told == [l EXCEPT !.replied = TRUE] IN
    \/ /\ l.sending \in {"pong", "auto"}
       /\ CloseAs(p, told, "completed")
    \/ /\ l.sending = "tool"
       /\ NextTool(p, told)

\* mutant: a tool whose provider is unavailable is tried again.
RetryTool(p, l, unavailable) ==
    \/ /\ l.sending = "pong"
       /\ Proceed(p, [l EXCEPT !.sending = "nobody"], "model")
    \/ /\ l.sending = "tool" /\ unavailable
       /\ Proceed(p, l, "tools")
    \/ /\ l.sending = "auto" \/ ~unavailable
       /\ CloseAs(p, l, "failed")

\* toolSend returns an error: after a ping the model is asked instead; an
\* error isProviderUnavailable recognises by its text counts as "skipped".
SendFailed(p, l, unavailable) ==
    \/ /\ l.sending = "pong"
       /\ Proceed(p, [l EXCEPT !.sending = "nobody"], "model")
    \/ /\ l.sending = "tool" /\ unavailable
       /\ NextTool(p, l)
    \/ /\ l.sending = "auto" /\ unavailable
       /\ CloseAs(p, l, "completed")
    \/ /\ l.sending \in {"tool", "auto"} /\ ~unavailable
       /\ CloseAs(p, l, "failed")

Handed(p) == sends' = [sends EXCEPT ![p] = @ + 1]

\* SendSMS, SendEmail: the provider takes the message and says so.
ProviderAccepts(p) ==
    /\ pc[p] = "send"
    /\ ChannelOfCall(p) # "discord"
    /\ ~ctxDone[p]
    /\ Handed(p)
    /\ Proceed(p, loc[p], "record")
    /\ UNCHANGED <<tables, run, owner, lock, req, ctxDone, queue>>

\* mutant: the error of the provider is dropped.
RecordAnyway(p) ==
    /\ pc[p] = "send"
    /\ ChannelOfCall(p) # "discord"
    /\ Proceed(p, loc[p], "record")
    /\ UNCHANGED <<tables, run, owner, lock, req, ctxDone, sends, queue>>

\* No route, no sender, the provider refuses, or the answer is lost: in the
\* last case the message was taken.
ProviderFails(p) ==
    /\ pc[p] = "send"
    /\ ChannelOfCall(p) # "discord"
    /\ \/ ~ctxDone[p] /\ Handed(p)
       \/ UNCHANGED sends
    /\ \E unavailable \in BOOLEAN : SendFailed(p, loc[p], unavailable)
    /\ UNCHANGED <<tables, run, owner, lock, req, ctxDone, queue>>

\* EnqueueReply: select chooses at random when the context is done and the
\* queue has room; it waits while neither is the case.
Enqueue(p) ==
    /\ pc[p] = "send"
    /\ ChannelOfCall(p) = "discord"
    /\ Len(queue) < QueueCap
    /\ queue' = Append(queue, req[p])
    /\ Handed(p)
    /\ SendOk(p, loc[p])
    /\ UNCHANGED <<tables, run, owner, lock, req, ctxDone>>

\* The context ends the wait.
EnqueueFails(p) ==
    /\ pc[p] = "send"
    /\ ChannelOfCall(p) = "discord"
    /\ ctxDone[p]
    /\ SendFailed(p, loc[p], FALSE)
    /\ UNCHANGED <<tables, run, owner, lock, req, ctxDone, sends, queue>>

\* The Discord runtime was not started, or was stopped.
NoRuntime(p) ==
    /\ pc[p] = "send"
    /\ ChannelOfCall(p) = "discord"
    /\ SendFailed(p, loc[p], FALSE)
    /\ UNCHANGED <<tables, run, owner, lock, req, ctxDone, sends, queue>>

\* RecordOutbound commits a row; on the web that is the delivery.
StoreReply(p) ==
    /\ rows' = rows \cup {OutboundRow(req[p])}
    /\ now' = now + 1
    /\ UNCHANGED <<channel, stamp>>
    /\ IF ChannelOfCall(p) = "web" THEN Handed(p) ELSE UNCHANGED sends

Record(p) ==
    /\ pc[p] = "record"
    /\ ~ctxDone[p]
    /\ StoreReply(p)
    /\ SendOk(p, loc[p])
    /\ UNCHANGED <<run, owner, lock, req, ctxDone, queue>>

\* mutant: the error of RecordOutbound is dropped.
IgnoreRecordError(p) ==
    /\ pc[p] = "record"
    /\ SendOk(p, loc[p])
    /\ UNCHANGED <<tables, run, owner, lock, req, ctxDone, sends, queue>>

\* The transaction fails, or commits while its caller is told otherwise.
RecordFails(p) ==
    /\ pc[p] = "record"
    /\ \/ ~ctxDone[p] /\ StoreReply(p)
       \/ UNCHANGED <<tables, sends>>
    /\ SendFailed(p, loc[p], FALSE)
    /\ UNCHANGED <<run, owner, lock, req, ctxDone, queue>>

\* The Discord send loop takes the oldest job: it ends as a row of messages,
\* or is given up (dead letter, failed record, runtime stopped, crash).
DeliverJob ==
    /\ queue # <<>>
    /\ queue' = Tail(queue)
    /\ \/ /\ rows' = rows \cup {OutboundRow(Head(queue))}
          /\ now' = now + 1
          /\ UNCHANGED <<channel, stamp>>
       \/ UNCHANGED tables
    /\ UNCHANGED <<run, owner, lock, pc, req, ctxDone, loc, sends>>

-----------------------------------------------------------------------------
(* The body of ProcessSync.                                                *)

\* mutant: strictly newer than every row, its own included.
IsStrictlyNewest(m) ==
    \A r \in rows : ConvOf[r.msg] = ConvOf[m] => r.at < stamp[m]

\* No row of the conversation is newer than m: m is the last of the list.
IsNewest(m) == \A r \in rows : ConvOf[r.msg] = ConvOf[m] => r.at <= stamp[m]

\* eligibleInbound.
Eligible(m) == IsNewest(m) /\ m \notin System

\* The messages of the conversation are read: skip, answer a ping, or go on.
ListMessages(p) ==
    /\ pc[p] = "list"
    /\ ~ctxDone[p]
    /\ \/ /\ ~Eligible(req[p])
          /\ CloseAs(p, loc[p], "skipped")
       \/ /\ Eligible(req[p])
          /\ req[p] \in Pings
          /\ BeginSend(p, loc[p], "pong")
       \/ /\ Eligible(req[p])
          /\ req[p] \notin Pings
          /\ Proceed(p, loc[p], "model")
    /\ UNCHANGED <<tables, run, owner, lock, req, ctxDone, sends, queue>>

\* One response of the model: perhaps text, which is kept until other text
\* comes, and the function calls to execute.  Without calls the run ends,
\* after the text was sent if no reply was sent before.
CallModel(p) ==
    /\ pc[p] = "model"
    /\ ~ctxDone[p]
    /\ \E hasText \in BOOLEAN, calls \in ToolLists :
         LET l == [loc[p] EXCEPT !.step = @ + 1, !.todo = calls,
                                 !.text = @ \/ hasText] IN
         \/ /\ calls # <<>>
            /\ Proceed(p, l, "tools")
         \/ /\ calls = <<>>
            /\ l.text /\ ~l.replied
            /\ BeginSend(p, l, "auto")
         \/ /\ calls = <<>>
            /\ ~l.text \/ l.replied
            /\ CloseAs(p, l, "completed")
    /\ UNCHANGED <<tables, run, owner, lock, req, ctxDone, sends, queue>>

\* The read of the messages or the request to the model returns an error.
StepFails(p) ==
    /\ pc[p] \in {"list", "model"}
    /\ CloseAs(p, loc[p], "failed")
    /\ UNCHANGED <<tables, run, owner, lock, req, ctxDone, sends, queue>>

\* executeTool on the first function call left: a tool that is refused, or
\* whose statement fails, ends the run.
RunTool(p) ==
    /\ pc[p] = "tools"
    /\ LET tool == Head(loc[p].todo) IN
       \/ /\ tool = "send"
          /\ BeginSend(p, loc[p], "tool")
       \/ /\ tool = "store"
          /\ ~ctxDone[p]
          /\ NextTool(p, loc[p])
       \/ /\ tool # "send"
          /\ CloseAs(p, loc[p], "failed")
    /\ UNCHANGED <<tables, run, owner, lock, req, ctxDone, sends, queue>>

-----------------------------------------------------------------------------

\* What call p does of its own accord once it was started.
Step(p) ==
    \/ AcquireLock(p) \/ (ctxDone[p] /\ LockFails(p))
    \/ StartRun(p) \/ AlreadyStarted(p) \/ StartRunFails(p)
    \/ ListMessages(p) \/ CallModel(p) \/ StepFails(p) \/ RunTool(p)
    \/ ProviderAccepts(p) \/ ProviderFails(p)
    \/ Enqueue(p) \/ EnqueueFails(p)
    \/ Record(p) \/ RecordFails(p)
    \/ Finish(p) \/ Unlock(p)

Next ==
    \/ \E m \in Msg : Arrive(m) \/ Commit(m)
    \/ \E p \in Call : \/ \E m \in Msg : Begin(p, m)
                       \/ ContextDone(p) \/ Die(p) \/ LoseSession(p)
                       \/ LockFails(p) \/ NoRuntime(p)
                       \/ Step(p)
    \/ DeliverJob

\* The Go scheduler runs every goroutine and every statement or request ends,
\* with an answer or an error.  Nothing is assumed of deadlines, nor that
\* the lock fails before one, nor that the Discord runtime is absent: a full
\* queue is emptied by its send loop.
Fairness == WF_vars(DeliverJob) /\ \A p \in Call : WF_vars(Step(p))

Spec == Init /\ [][Next]_vars
FairSpec == Spec /\ Fairness

-----------------------------------------------------------------------------
(* Properties.                                                             *)

\* Every variable has its type.
TypeOK ==
    /\ channel \in [Conv -> Kinds]
    /\ rows \subseteq Row
    /\ stamp \in [Msg -> Nat]
    /\ now \in Nat
    /\ run \in [Msg -> RunStatus]
    /\ owner \in [Msg -> Call \cup {None}]
    /\ lock \in [Conv -> Call \cup {None}]
    /\ pc \in [Call -> PC]
    /\ req \in [Call -> Msg \cup {None}]
    /\ ctxDone \in [Call -> BOOLEAN]
    /\ loc \in [Call -> Locals]
    /\ sends \in [Call -> Nat]
    /\ queue \in Seq(Msg)

\* One inbound message is never answered by two calls, however often it is
\* delivered and whatever fails: UNIQUE (inbound_message_id) lets one call
\* start a run, and no other call sends.  Holds even without the lock.
SingleSender ==
    \A p, q \in Call :
        sends[p] > 0 /\ sends[q] > 0 /\ req[p] = req[q] => p = q

\* Runs of one conversation are worked on one at a time: what
\* WithConversationLock is for.
ConversationSerial ==
    \A p, q \in Call :
        pc[p] \in Locked /\ pc[q] \in Locked /\ ConvOfCall(p) = ConvOfCall(q)
            => p = q

Outbound(m) == {r \in rows : r.dir = "outbound" /\ r.msg = m}
Queued(m) == {i \in DOMAIN queue : queue[i] = m}
Sent(m) == IF owner[m] = None THEN 0 ELSE sends[owner[m]]

\* The transcript claims no more replies than the channel was given: each
\* outbound row, and each job still queued, stands for a reply that was
\* handed over (and not: every reply handed over has a row).
OutboundBacked ==
    \A m \in Msg : Cardinality(Outbound(m)) + Cardinality(Queued(m)) <= Sent(m)

\* A message that is not refused for its body or sender is skipped only when
\* its conversation has a newer row.
SkipJustified ==
    \A m \in Msg : run[m] = "skipped" /\ m \notin System
        => \E r \in rows : ConvOf[r.msg] = ConvOf[m] /\ r.at > stamp[m]

\* Except on Discord, a reply the run counts as sent is in the transcript.
AckedReplyStored ==
    \A p \in Call :
        loc[p].replied /\ ChannelOfCall(p) # "discord" => Outbound(req[p]) # {}

\* A run that was closed keeps its status, and nothing more is sent for it.
ClosedRunsStay ==
    [][\A m \in Msg : run[m] \in Closed
         => run'[m] = run[m] /\ Sent(m)' = Sent(m)]_vars

\* Every call returns (or its instance dies), with no help from a deadline:
\* the loop over steps is bounded and every path releases the lock.
EveryCallReturns ==
    \A p \in Call : pc[p] = "lock" ~> pc[p] \in {"done", "dead"}

\* A lock is kept only by a call inside the callback of WithConversationLock
\* of that conversation: whatever ends a call, on any path, gives it back.
NoLockLeaks ==
    \A c \in Conv : lock[c] # None
        => pc[lock[c]] \in Locked /\ ConvOfCall(lock[c]) = c

\* The most steps a call has before it from the loop over steps on: each turn
\* asks the model and, for each function call, runs the tool, sends, records.
TurnsLeft(l) == 3 + (MaxSteps - l.step) * (3 * MaxTools + 3)

\* toolSend, and the function calls left if one of them called it.
SendWeight(l, who) == IF who = "tool" THEN 3 * Len(l.todo) - 1 ELSE 2

\* The most steps of its own a call makes from a place with locals l.
StepsLeft(place, l) ==
    CASE place \in {"idle", "lock"} -> TurnsLeft(l) + 5
      [] place = "start"  -> TurnsLeft(l) + 4
      [] place = "list"   -> TurnsLeft(l) + 3
      [] place = "model"  -> TurnsLeft(l)
      [] place = "tools"  -> TurnsLeft(l) + 3 * Len(l.todo)
      [] place = "send"   -> TurnsLeft(l) + SendWeight(l, l.sending)
      [] place = "record" -> TurnsLeft(l) + SendWeight(l, l.sending) - 1
      [] place = "finish" -> 2
      [] place = "unlock" -> 1
      [] OTHER -> 0

\* No call goes in circles: whatever a call does, and whatever fails, brings
\* its end nearer, a ping that could not be answered and a tool that was
\* refused included.
CallsWindDown ==
    [][\A p \in Call :
         pc[p] # "idle" /\ <<pc'[p], loc'[p]>> # <<pc[p], loc[p]>>
           => StepsLeft(pc'[p], loc'[p]) \in 0..(StepsLeft(pc[p], loc[p]) - 1)]_vars

\* Why the properties above hold, as an inductive invariant.  A call has a
\* message from the moment it is started.
Asked ==
    \A p \in Call : IF pc[p] = "idle" THEN req[p] = None ELSE req[p] \in Msg

\* The call that works on a run is the one that started it, and it is open.
WorkersOwn ==
    \A p \in Call : pc[p] \in Working
        => owner[req[p]] = p /\ run[req[p]] = "running"

\* A run has an owner only once it was started, by a call asked to.
OwnersAsked ==
    \A m \in Msg : owner[m] # None => req[owner[m]] = m /\ run[m] # "none"

\* Only owners send.
SendersOwn ==
    \A p \in Call : sends[p] > 0 => req[p] \in Msg /\ owner[req[p]] = p

\* The locals fit the place: a tool that runs or sends is the first of the
\* list, toolSend has a caller, a run is closed with a status.
LocalsFit ==
    \A p \in Call :
        /\ pc[p] = "tools" \/ (pc[p] \in {"send", "record"} /\ loc[p].sending = "tool")
             => loc[p].todo # <<>>
        /\ pc[p] = "finish" => loc[p].fin \in Closed

\* Every run is worked on by the one call that owns it (StartAgentRun and its
\* unique index), which alone sends and closes.
OwnInv == TypeOK /\ Asked /\ WorkersOwn /\ OwnersAsked /\ SendersOwn /\ LocalsFit

\* Why the transcript can be trusted, as an invariant that is inductive
\* together with OwnInv.  Rows carry times that passed; what was asked for is
\* stored, so its created_at is final.
RowsDated ==
    /\ \A m \in Msg : stamp[m] <= now /\ (run[m] # "none" => stamp[m] # 0)
    /\ \A r \in rows : r.at <= now /\ (r.dir = "inbound" => stamp[r.msg] # 0)
    /\ \A p \in Call : pc[p] # "idle" => stamp[req[p]] # 0

\* What makes a skip right: a row of the conversation newer than m.
Superseded(m) == \E r \in rows : ConvOf[r.msg] = ConvOf[m] /\ r.at > stamp[m]

\* A run is closed as skipped only for such a row, which stays.
SkipsExplained ==
    /\ \A p \in Call :
         pc[p] = "finish" /\ loc[p].fin = "skipped" /\ req[p] \notin System
           => Superseded(req[p])
    /\ \A m \in Msg : run[m] = "skipped" /\ m \notin System => Superseded(m)

\* A reply that counts as sent was recorded before, Discord's excepted; a
\* call that was not started counts none.
RepliesStored ==
    \A p \in Call : loc[p].replied =>
        /\ pc[p] # "idle"
        /\ ChannelOfCall(p) # "discord" => Outbound(req[p]) # {}

\* A provider accepted the reply to m, which is about to be recorded.
Unrecorded(m) ==
    owner[m] # None /\ pc[owner[m]] = "record" /\ channel[ConvOf[m]] # "web"

\* Rows, jobs and the reply not yet recorded each stand for one that was sent.
RepliesCounted ==
    \A m \in Msg :
        /\ IsFiniteSet(Outbound(m))
        /\ Cardinality(Outbound(m)) + Cardinality(Queued(m))
             + (IF Unrecorded(m) THEN 1 ELSE 0) <= Sent(m)

ReplyInv == RowsDated /\ SkipsExplained /\ RepliesStored /\ RepliesCounted

\* No run asks the model more than MaxSteps times, whichever tools it calls;
\* the loop is entered, also after a pong that failed, only with a turn left.
TurnFits(place, l) ==
    /\ l.step <= MaxSteps
    /\ place \in {"idle", "lock", "start", "list", "model"} => MoreSteps(l)
    /\ place \in {"send", "record"} /\ l.sending = "pong" => MoreSteps(l)
TurnsFit == \A p \in Call : TurnFits(pc[p], loc[p])

\* The inductive invariant: who owns a run, what the transcript says of it,
\* and how often the model is asked.
RunInv == OwnInv /\ ReplyInv /\ TurnsFit

\* The ledger of runs and replies that the agent implements.
Ledger == INSTANCE RunLedger
            WITH status <- run, claimant <- owner, replies <- [m \in Msg |-> Sent(m)]
ImplementsLedger == Ledger!LedgerSpec

\* What comments and tests of the program say, and it does not do.

\* A reason "system_internal_or_allowlist" in the trace (service.go:212): a
\* message of a user is skipped only if a newer one of the user will be
\* answered in its place.
SkippedSuperseded ==
    \A m \in Msg : run[m] = "skipped" /\ m \notin System
        => \E r \in rows : r.dir = "inbound" /\ ConvOf[r.msg] = ConvOf[m]
                           /\ r.at > stamp[m]
=============================================================================
